SPECIFICATION CaptureSpec
CONSTANTS
  Order <- MCOrder
  MaxFrames = 1
  MaxRequests = 1
INVARIANTS
  LastLineIsTotal
CHECK_DEADLOCK FALSE
