\* What the recorder keeps, measures and writes.
SPECIFICATION RecSpec
CONSTANTS
  Delays <- MCDelays
  MaxInMemoryOpportunities = 2
  MaxInMemoryDecayRecords = 2
  TradeModes = {"live"}
  None = None
  TicksPerSecond = 2
  PollInterval = 4
  MaxPerTick = 3
  MaxRecords = 4
  MaxTime = 8
INVARIANTS
  RecorderTypeOK
  HistoryMatchesIndex
  EveryRecordIsWritten
  ResultsAreWritten
  EachCheckOnce
\* The process ends.
CHECK_DEADLOCK FALSE
