CONSTANTS
  u1 = u1
  u2 = u2
  o1 = o1
  o2 = o2
  o3 = o3
  OrderId = {o1, o2}
  User = {u1, u2}
  Requests <- MCTrade
  Batch = 2
  MaxCancels = 1
  MaxFaults = 1
  Resends = TRUE
  None = None
SPECIFICATION FairSpec
CHECK_DEADLOCK FALSE
PROPERTIES
  TerminalIsFinal
  PlacedIsDecided
  CancelEndsOrder
