SPECIFICATION Spec
CONSTANTS
  Venues = {1, 2}
  MaxRecords = 3
  MaxRuns = 2
  MaxClock = 1
  MaxFiles = 2
INVARIANT
  ReplayOpens
CHECK_DEADLOCK FALSE
