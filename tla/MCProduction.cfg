SPECIFICATION Spec
CONSTANTS
  Factory = {f1}
  Product = {p1, p2}
  Qty = {1, 2}
  Log = {l1, l2}
  LegacyLog = {l2}
  Voucher = {}
  Request = {r1, r2}
  NoRow = NoRow
  Gone = Gone
  Bound = 2
SYMMETRY Symmetry
INVARIANTS
  TypeOK
  RowsAddUp
  ProductionPaired
  OverdrawnOnlyIfCorrected
PROPERTIES
  DriftOnlyFromStaleReversal
  AgreementLostOnlyToStaleUpdate
