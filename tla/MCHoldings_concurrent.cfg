CONSTANTS
  s1 = s1
  s2 = s2
  s3 = s3
  r1 = r1
  r2 = r2
  r3 = r3
  husband = husband
  wife = wife
  Stocks = {s1, s2, s3}
  Requests = {r1, r2, r3}
  Lots <- MCLots
  Users = {husband}
  Quantities = {1, 2}
  OpeningQuantity <- Opening
  OpeningExact = {s1}
  Currency <- Currencies
  Symbol <- Symbols
  MaxInFlight = 2
  MaxFaults = 1
SYMMETRY Symmetry
SPECIFICATION Spec
INVARIANTS
  TypeOK
  UnknownBasisNeverSold
  BasisCoversAverage
  NoSharesFromNowhere
PROPERTIES
  GoneStaysGone
