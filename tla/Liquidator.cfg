CONSTANTS
  None = None
  u1 = u1
  User = {u1}
  o1 = o1
  Order = {o1}
  Slot = {1, 2}
  Mark = {"low", "high"}
  Risks <- MCRisks
  StartQty = 1
  MaxWait = 2
  MaxFaults = 1
SPECIFICATION FairSpec
CHECK_DEADLOCK FALSE
INVARIANTS
  OneInFlight
PROPERTY UnderMarginEnds
