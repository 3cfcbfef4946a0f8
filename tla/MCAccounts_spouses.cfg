CONSTANTS
  r1 = r1
  r2 = r2
  r3 = r3
  p1 = p1
  p2 = p2
  p3 = p3
  Home = Home
  None = None
  Requests = {r1, r2, r3}
  People = {p1, p2, p3}
  MaxInFlight = 1
  MaxFaults = 0
SYMMETRY Symmetry
SPECIFICATION Spec
INVARIANT SpousesDiffer
