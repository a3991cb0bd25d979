SPECIFICATION Spec
CONSTANTS
  Factory = {f1, f2}
  Product = {p1}
  Order = {o1}
  MaxQty = 2
  AutoDeduct = {TRUE, FALSE}
  Request = {r1, r2}
  NoRow = NoRow
  Bound = 2
SYMMETRY Symmetry
INVARIANTS
  TypeOK
  StockDerived
  RowsAddUp
PROPERTIES
  SoundnessLostOnlyToStaleCommit
  CancelledUnlessStaleCommit
  OverdrawnOnlyByExcessReturn
