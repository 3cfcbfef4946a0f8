SPECIFICATION FairSpec
CONSTANTS
  r1 = r1
  r2 = r2
  r3 = r3
  a = a
  b = b
  a2 = a2
  None = None
  Requests = {r1, r2, r3}
  Initial <- Start
  StockOf <- Stock
  MaxFaults = 1
INVARIANTS
  TypeOK
  DisorderNeedsOverlap
PROPERTIES
  ReorderAsOne
  EveryRequestEnds
