SPECIFICATION Spec
CONSTANTS
  Factory = {f1}
  Product = {p1, p2}
  Qty = {1, 2}
  Log = {}
  LegacyLog = {}
  Voucher = {v1, v2}
  Request = {r1, r2}
  NoRow = NoRow
  Gone = Gone
  Bound = 2
SYMMETRY Symmetry
INVARIANTS
  NotePaired
PROPERTIES
  DriftOnlyFromStaleReversal
