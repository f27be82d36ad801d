\* Filters, scans, sizing and verification, and the search for cycles.
SPECIFICATION MCSpec
CONSTANTS
  v1 = v1
  v2 = v2
  BTC = BTC
  WBTC = WBTC
  SOL = SOL
  USDT = USDT
  USDC = USDC
  None = None
  Venues <- MCVenues
  Assets <- MCAssets
  Strategies <- MCStrategies
  Opportunities <- MCOpportunities
  MinOrderUsd <- MCMinOrderUsd
  WithdrawBlocked <- MCWithdrawBlocked
  DepositBlocked <- MCDepositBlocked
  Listed <- MCListed
  Staleness = 1
  Unit = 120
  CexFees <- MCCexFees
  LiveTakerFees <- MCLiveTakerFees
  LiveMakerFees <- MCLiveMakerFees
  FeeFallback = 6
  MinProfit <- MCMinProfit
  MaxTradeUsd <- MCMaxTradeUsd
  MinLag = 1
  Stablecoins <- MCStablecoins
  NaN <- MCNaN
  Underlying <- MCUnderlying
  Band <- MCBand
  Infinity <- MCInfinity
  MaxNotional <- MCMaxNotional
  MaxSlippage = 15
  HubAssets <- MCHubAssets
  MaxLength = 4
  MaxExpansions = 12
  MinGain = 1
  Fee = 0
  MaxFound = 5
  Polled <- MCPolled
  Patches <- MCPatches
VIEW MCView
INVARIANTS
  OneBestPerRoute
  OffersAreReal
  VerifiedTradesProfit
  SlippageIsBounded
  UnmovedSpreadsSurvive
  EachCycleOnce
\* The scans end.
CHECK_DEADLOCK FALSE
