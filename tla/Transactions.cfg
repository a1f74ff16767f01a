CONSTANTS
  None = None
  Worker = Worker
  f1 = f1
  f2 = f2
  Funder = {f1, f2}
  User = {1, 2, 3}
  OrderId = {1, 2, 3}
  Asks <- MCAsks
  Price = 10
  Lev = 2
  FeeNum = 0
  FeeDen = 1
  FundDen = 4
  Rates <- MCRates
  Deposits <- MCDeposits
  Holdings <- MCHoldings
  Resting = {2}
  Closing = {3}
  MaxResults = 1
  MaxAttempts = 2
  MaxFaults = 1
SPECIFICATION FairSpec
CHECK_DEADLOCK FALSE
INVARIANTS
  MoneyConserved
  FailedOrderEnds
PROPERTIES
  ActsAtomically
  PeriodOnce
  PeriodIsFunded
