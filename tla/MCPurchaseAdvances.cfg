SPECIFICATION Spec
CONSTANTS
  Purchase = {1, 2}
  Linked = {1}
  Advance = {1, 2}
  Copies = 2
  Amounts = {0, 1, 2}
  Month <- FirstOfEach
  Request = {r1, r2}
  MaxOps = 4
  NoPurchase = NoPurchase
  NoAdvance = NoAdvance
SYMMETRY Symmetry
INVARIANTS
  TypeOK
  RemainderAgrees
  SnapshotAgrees
  PaidWithinNetTotal
PROPERTY
  EditKeepsMoney
CHECK_DEADLOCK FALSE
