SPECIFICATION LiveSpec
CONSTANTS
  Order <- MCOrder
  MaxFrames = 1
  MaxRequests = 1
  MaxPayloads = 2
  Prices = {1, 2, 3}
  Quantities = {0, 1, 2}
  MaxDepth = 2
INVARIANTS
  CleanMeansDurable
  OneEffect
  ReplayIsLive
  TruncatedIsTrue
PROPERTIES
  FailureIsFatal
  StopsWhenTold
  MapSpec
CHECK_DEADLOCK FALSE
