SPECIFICATION Spec
CONSTANTS
  Factory = {f1}
  Product = {p1}
  Order = {o1}
  MaxQty = 1
  AutoDeduct = {TRUE}
  Request = {r1, r2}
  NoRow = NoRow
  Bound = 2
SYMMETRY Symmetry
INVARIANTS
  CancelReturnsStock
