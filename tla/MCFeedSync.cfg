SPECIFICATION FairSpec
CONSTANTS
  Prices = 3
  Depth = 2
  TopLevels = 1
  MaxUpdates <- MCMaxUpdates
  MaxPrice <- MCMaxPrice
  MaxTrades <- MCMaxTrades
  MaxSessions <- MCMaxSessions
  MaxWire <- MCMaxWire
  MaxFailures = 1
INVARIANTS
  InStep
  GapReportedOnce
  GapResyncPending
  MismatchIsLoss
PROPERTIES
  EventuallyRepaired
CHECK_DEADLOCK FALSE
