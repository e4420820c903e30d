SPECIFICATION FairSpec
CONSTANTS
  l1 = l1
  l2 = l2
  Levels <- MCLevels
  Refresh = TRUE
  TradesMaySkip = TRUE
  MaxUpdates = 3
  MaxTrades = 3
  MaxSessions = 2
  MaxFailures = 1
  MaxWire = 2
INVARIANTS
  BookIsVenueBook
  GapUnsyncsBook
  ResyncIsPending
PROPERTIES
  AnchorCoversDropped
  EventuallySynced
CHECK_DEADLOCK FALSE
