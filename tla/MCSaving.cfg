CONSTANTS
  s1 = s1
  s2 = s2
  a1 = a1
  a2 = a2
  a3 = a3
  r1 = r1
  x1 = x1
  x2 = x2
  husband = husband
  Nobody = Nobody
  New = New
  Stocks = {s1, s2}
  Assets = {a1, a2, a3}
  Requests = {r1}
  Savers = {x1, x2}
  Lots <- MCLots
  Users = {husband}
  Quantities = {1}
  OpeningQuantity <- Opening
  OpeningValue <- OpeningMoney
  OpeningExact = {s1}
  Currency <- Dollars
  Symbol <- OneSymbol
  MaxInFlight = 1
  MaxFaults = 2
SPECIFICATION SavingSpec
INVARIANTS
  SavingTypeOK
  EntryIffCredited
  SavingsAddUp
PROPERTIES
  SavingAnswered
