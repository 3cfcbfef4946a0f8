CONSTANTS
  rent = rent
  fund = fund
  b1 = b1
  b2 = b2
  b3 = b3
  dividend = dividend
  loan = loan
  house = house
  car = car
  r1 = r1
  r2 = r2
  r3 = r3
  june = june
  july = july
  None = None
  Bills = {rent, fund, b1, b2, b3}
  Dividends = {dividend}
  Loans = {loan}
  Names = {house, car}
  Savings = {fund}
  Opening <- MCOpening
  Months = {june, july}
  Requests = {r1, r2, r3}
  MaxInFlight = 2
  MaxFaults = 1
SYMMETRY Symmetry
SPECIFICATION Spec
INVARIANTS
  TypeOK
  BillsOnce
  AnswerIsComplete
  DividendsOnce
