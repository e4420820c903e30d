SPECIFICATION AtRestSpec
CONSTANTS
  Venues = {1, 2}
  MaxRecords = 3
  MaxRuns = 2
  MaxClock = 1
  MaxFiles = 2
  SegmentBlock = 2
  MaxMono = 2
  MaxEvents = 5
  Group = 4
  LongestVarint = 3
  Narrow = 8
  Inputs <- MCInputs
  MaxBlock = 2
  Instruments = {1, 2}
  PitBlock = 3
  MaxTime = 1
  MaxFrames = 3
  MaxStores = 2
INVARIANTS
  SessionsReplayedWhole
  DurableIsReplayed
  MergeAscends
  DurableSurvives
  NothingInvented
  RangeScanIsFilter
  ScanIsWritten
  LengthTableIsGuarded
  PitIsTheBook
  ExportIsTrue
PROPERTIES
  RecoveredReadsClean
CHECK_DEADLOCK FALSE
