SPECIFICATION VenueFairSpec
CONSTANTS
  Venues <- MCVenues
  Symbols <- MCSymbols
  Keys <- MCKeys
  Requests <- MCRequests
  MaxConnects = 1
  MaxPolls = 1
  MinConnected = 2
  None = None
INVARIANTS
  TableClientsAreOpen
  NoClientIsLost
  SerialReconnectsAreFresh
  ClosedAtExit
PROPERTIES
  ConnectsEnd
  PollingGoesOn
CHECK_DEADLOCK FALSE
