SPECIFICATION LimiterSpec
CONSTANTS
  None = None
  Global = Global
  Agents = {a1}
  Ips = {i1}
  ConfigOf <- ScopeConfig
  Unit = 7
  MinRetry = 1
  StaleAfter = 3
  MaxBuckets = 2
  MaxTime = 7
  MaxGrants = 2
  MaxRequests = 2
  Window = 3
  Steps = {2}
  MaxForward = 6
  MaxRequested = 5
INVARIANTS
  RateBound
  RetryIsServed
  WindowBound
CHECK_DEADLOCK FALSE
