SPECIFICATION Spec
CONSTANTS
  l1 = l1
  l2 = l2
  Levels <- MCLevels
  Refresh = TRUE
  TradesMaySkip = TRUE
  MaxUpdates = 3
  MaxTrades = 3
  MaxSessions = 2
  MaxFailures = 1
  MaxWire = 2
INVARIANT
  TradeGapIsAdvisory
CHECK_DEADLOCK FALSE
