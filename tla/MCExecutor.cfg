\* The executor, the risk manager and the reconciler, every interleaving.
SPECIFICATION ExecSpec
CONSTANTS
  v1 = v1
  v2 = v2
  BTC = BTC
  USDT = USDT
  USDC = USDC
  None = None
  Venues <- MCVenues
  Assets <- MCAssets
  Strategies <- MCStrategies
  Opportunities <- MCOpportunities
  StrategyCap <- MCStrategyCap
  VenueCap <- MCVenueCap
  MaxConsecutiveFailures = 2
  Profits <- MCProfits
  TradeLimits <- MCTradeLimits
  LossLimits <- MCLossLimits
  MaxTrades = 3
  MaxDay = 1
INVARIANTS
  ExecTypeOK
  CapitalMatchesInFlight
  DailyTradesBounded
  FillsAreAccounted
  ProfitNeedsEveryLeg
PROPERTIES
  ImplementsDesk
\* The engine stops when its main task is cancelled.
CHECK_DEADLOCK FALSE
