\* Whether every tick comes to its end.
SPECIFICATION EngineFairSpec
CONSTANTS
  v1 = v1
  v2 = v2
  BTC = BTC
  USDT = USDT
  None = None
  Venues <- MCVenues
  Assets <- MCAssets
  Strategies <- MCStrategies
  Opportunities <- MCOpportunities
  StrategyCap <- MCStrategyCap
  VenueCap <- MCVenueCap
  MaxConsecutiveFailures = 2
  Profits <- MCProfits
  TradeLimits <- MCTradeLimits
  LossLimits <- MCLossLimits
  MaxTrades = 2
  MaxDay = 1
  Openings <- MCOpenings
  MaxFills = 2
  Funded <- MCFunded
  Reported <- MCReported
  MaxRequests = 1
  MinOrderUsd <- MCMinOrderUsd
  WithdrawBlocked <- MCWithdrawBlocked
  DepositBlocked <- MCDepositBlocked
PROPERTY
  TicksEnd
\* The engine stops when its main task is cancelled.
CHECK_DEADLOCK FALSE
