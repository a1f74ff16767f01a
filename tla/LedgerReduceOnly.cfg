CONSTANTS
  u1 = u1
  u2 = u2
  OrderId = {1, 2, 3, 4, 5}
  User = {u1, u2}
  None = None
  FeeNum = 1
  FeeDen = 100
  Requests <- MCRace
  Deposits <- MCDeposits
  Prices = {80}
  Percent <- MCPercent
  MmrNum = 1
  MmrDen = 200
  FundNum = 0
  FundDen = 1
  MaxOpenOrders = 2
  MaxCommands = 5
  MaxBacklog = 2
  MaxPeriods = 0
SPECIFICATION Spec
CHECK_DEADLOCK FALSE
INVARIANT ReduceOnlyNeverOpens
