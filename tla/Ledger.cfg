CONSTANTS
  u1 = u1
  u2 = u2
  OrderId = {1, 2, 3, 4}
  User = {u1, u2}
  None = None
  FeeNum = 1
  FeeDen = 100
  Requests <- MCRequests
  Deposits <- MCDeposits
  Prices = {80, 100}
  Percent <- MCPercent
  MmrNum = 1
  MmrDen = 200
  FundNum = 3
  FundDen = 20
  MaxOpenOrders = 2
  MaxCommands = 5
  MaxBacklog = 2
  MaxPeriods = 1
SPECIFICATION Spec
CHECK_DEADLOCK FALSE
INVARIANTS
  TypeOK
  LockedBacked
  MoneyConserved
  OpenInterestBalanced
  TerminalHoldsNothing
