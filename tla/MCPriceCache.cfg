SPECIFICATION Spec
CONSTANTS
  r1 = r1
  r2 = r2
  r3 = r3
  here = here
  abroad = abroad
  symbol = symbol
  dollar = dollar
  history = history
  None = None
  Requests = {r1, r2, r3}
  Keys = {here, abroad, dollar, history}
  Cleared = {here, abroad, dollar}
  Stored = {here, abroad}
  SymbolOf <- OneSymbol
  TTL = 2
  Timeout = 1
  MaxTime = 3
  MaxCrashes = 1
SYMMETRY Symmetry
INVARIANTS
  TypeOK
  TTLIsKept
  RefreshTakesEffect
  TableGoesForward
