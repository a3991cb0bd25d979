SPECIFICATION MCSpec
CONSTANTS
  i1 = i1
  i2 = i2
  p1 = p1
  b1 = b1
  a1 = a1
  c1 = c1
  c2 = c2
  n1 = n1
  n2 = n2
  Client = {c1, c2}
  Name = {n1, n2}
  Voucher = {i1, i2, p1, b1, a1}
  Kind <- Kinds
  Fields = {0, 1, 2}
  Contents <- SomeContents
  Limit = 1
  Tolerance = 1
  MaxOps = 2
  None = None
INVARIANT ReceiptsDebitCash
CHECK_DEADLOCK FALSE
