SPECIFICATION Spec
CONSTANTS
  N = 2
  OnConnect = TRUE
  RefreshEvery = 4
  Spacing = 2
  IdleTimeout = 3
  BackoffFloor = 2
  BackoffCap = 3
  HealthyMin = 2
  RestFloor = 1
  RestCap = 3
  RetryAfters = {3}
  HttpTimeout = 2
  MaxTime = 8
INVARIANTS
  NoStarvation
PROPERTIES
  ConnectsSpaced
  FetchesSpaced
  RateLimitPausesAll
CHECK_DEADLOCK FALSE
