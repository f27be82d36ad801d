\* Symbols, polls, the wait for books and the paper capital.
SPECIFICATION StartSpec
CONSTANTS
  v1 = v1
  v2 = v2
  BTC = BTC
  ETH = ETH
  DOT = DOT
  USDT = USDT
  FOO = FOO
  Venues <- MCVenues
  VenueNames <- MCVenueNames
  Tiers <- MCTiers
  QuoteAssets <- MCQuoteAssets
  Alphabet <- MCAlphabet
  PollInterval <- MCPollInterval
  Catalogues <- MCCatalogues
  UsdProxies <- MCUsdProxies
  UsdQuotes <- MCUsdQuotes
  Mid <- MCMid
  Settings <- MCSettings
  Reports <- MCReports
  MaxSymbols = 3
  MinVenues = 1
  MinConnected = 2
  BooksTimeout = 4
  CheckEvery = 2
  MaxAnswer = 4
  SeedUsdTotal = 1440
INVARIANTS
  PolledOnTime
  CapitalIsSplit
PROPERTY
  StartupEnds
\* The process may end.
CHECK_DEADLOCK FALSE
