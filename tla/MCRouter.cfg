\* Selection, settlement and release over a few ticks.
SPECIFICATION RouterSpec
CONSTANTS
  v1 = v1
  v2 = v2
  BTC = BTC
  USDT = USDT
  USDC = USDC
  None = None
  Venues <- MCVenues
  Assets <- MCAssets
  Strategies <- MCStrategies
  Opportunities <- MCOpportunities
  Openings <- MCOpenings
  MaxFills = 2
INVARIANTS
  LockedMatchesReservations
  NothingStaysLocked
  AccountsAddUp
  GreedyByValue
