CONSTANTS
  u1 = u1
  u2 = u2
  o1 = o1
  o2 = o2
  o3 = o3
  OrderId = {o1, o2, o3}
  User = {u1, u2}
  Requests <- MCRequests
  Batch = 2
  MaxCancels = 1
  MaxFaults = 2
  Resends = FALSE
  None = None
SPECIFICATION Spec
CHECK_DEADLOCK FALSE
INVARIANTS
  FillsExplainRows
  RestartKeepsTheBook
  OneVerdict
  PublishedInOrder
  SettledPrefix
PROPERTY ImplementsExchange
