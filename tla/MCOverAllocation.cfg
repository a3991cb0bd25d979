\* One request at a time: no two transactions overlap.
SPECIFICATION Spec
CONSTANTS
  Bill = {1}
  OrderBill = {1}
  Receipt = {1, 2}
  Amounts = {0, 1, 2}
  Month <- FirstOfEach
  Request = {r1}
  MaxOps = 5
  NoBill = NoBill
INVARIANT
  AllocationsWithinPayment
CHECK_DEADLOCK FALSE
