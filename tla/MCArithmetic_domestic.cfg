CONSTANTS
  f1 = f1
  f2 = f2
  d1 = d1
  p1 = p1
  p2 = p2
  People = {p1, p2}
  Foreign = {f1, f2}
  Domestic = {d1}
  Deduction = 3
  Rate = 22
  MinRate = 2
  MaxRate = 3
  Prices = {1, 3}
  Opening = {1}
  Rates = {2, 3, 5}
  MaxShares = 2
  MaxTrades = 2
  MaxYear = 1
  Inputs <- MCInputs
  LoGrowth = 0
  HiGrowth = 4
  Halvings = 2
SYMMETRY Symmetry
SPECIFICATION Spec
INVARIANT DomesticUntaxed
CHECK_DEADLOCK FALSE
