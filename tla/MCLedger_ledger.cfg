SPECIFICATION LedgerTours
CONSTANTS
  Req = {r1, r2}
  p1 = p1
  p2 = p2
  a1 = a1
  a2 = a2
  None = None
  Acct = {a1, a2}
  Profile = {p1, p2}
  Owner <- MCOwner
  Entries <- Every
  RuleEntry <- Rent
  BillEntry <- Power
  Amounts <- Five
  MaxRows = 2
  MaxPeriod = 2
SYMMETRY Symmetry
INVARIANTS BalanceAgreesUndrifted MovedOnce FiledOnce
PROPERTIES RecomputeRepairs
CHECK_DEADLOCK FALSE
