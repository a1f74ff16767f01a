CONSTANTS
  u1 = u1
  u2 = u2
  u3 = u3
  OrderId = {o1, o2, o3, o4}
  User = {u1, u2, u3}
  Price = {1, 2, 3}
  Qty = {1, 2, 3}
  MaxPrice = 3
  MaxSeq = 5
  None = None
  Asked <- MCAsked
  Slack = 0
  Depth = 2
SPECIFICATION Spec
SYMMETRY Symmetry
INVARIANTS
  LevelsInOrder
  SnapshotTellsTheBook
PROPERTY ImplementsBook
