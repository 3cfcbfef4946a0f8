CONSTANTS
  r1 = r1
  r2 = r2
  r3 = r3
  d1 = d1
  d2 = d2
  f1 = f1
  f2 = f2
  None = None
  Requests = {r1, r2, r3}
  Diaries = {d1, d2}
  Album = {f1, f2}
  MaxInFlight = 2
  MaxFaults = 1
SYMMETRY Symmetry
SPECIFICATION Spec
INVARIANTS
  TypeOK
  ShownIsStored
  StoredIsShown
  AnsweredIsKept
