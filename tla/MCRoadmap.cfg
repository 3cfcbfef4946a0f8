CONSTANTS
  r1 = r1
  r2 = r2
  r3 = r3
  r4 = r4
  Default = Default
  None = None
  Requests = {r1, r2, r3, r4}
  MaxInFlight = 2
  MaxFaults = 1
SYMMETRY Symmetry
SPECIFICATION Spec
INVARIANTS
  TypeOK
  BaselineFollowsChanges
  OneGoalOnePlan
  PostedSnapshotReplaced
PROPERTIES
  BaselineKept
