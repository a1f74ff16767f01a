CONSTANTS
  OrderId = {o1, o2, o3, o4}
  User = {u1, u2}
  Price = {1, 2, 3}
  Qty = {1, 2}
  MaxPrice = 3
  MaxSeq = 4
  None = None
SPECIFICATION Spec
SYMMETRY Symmetry
INVARIANTS
  NotCrossed
  MatchesReference
  ReportsTellTheBook
