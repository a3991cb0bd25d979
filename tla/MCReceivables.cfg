SPECIFICATION Spec
CONSTANTS
  Bill = {1, 2}
  OrderBill = {1}
  Receipt = {1, 2}
  Amounts = {0, 1, 2}
  Month <- FirstOfEach
  Request = {r1, r2}
  MaxOps = 4
  NoBill = NoBill
SYMMETRY Symmetry
INVARIANTS
  TypeOK
  OverAllocationExplained
  StatusTellsPaid
  LedgerAgreesWithSummary
PROPERTY
  MoneyIsPutToUse
CHECK_DEADLOCK FALSE
