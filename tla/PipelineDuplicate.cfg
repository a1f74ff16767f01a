CONSTANTS
  u1 = u1
  u2 = u2
  o1 = o1
  o2 = o2
  o3 = o3
  OrderId = {o1, o2}
  User = {u1, u2}
  Requests <- MCPair
  Batch = 2
  MaxCancels = 0
  MaxFaults = 1
  Resends = TRUE
  None = None
SPECIFICATION Spec
CHECK_DEADLOCK FALSE
INVARIANT DuplicatesIgnored
