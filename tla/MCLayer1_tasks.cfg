SPECIFICATION Spec
CONSTANTS
  None = None
  Unset = Unset
  Unknown = Unknown
  h1 = h1
  p1 = p1
  Sandboxes = {s1}
  Processes = {p1}
  ProcessOf <- OneProcess
  Hosts = {h1}
  ConfigEgress = {}
  Requests <- GateRequests
  MaxFailures = 2
  MaxDeploys = 3
INVARIANTS
  ResultMeansGone
  OnlyCheckedRequestsRun
  TrailTellsOutcome
  RunnerExitFaithful
PROPERTIES
  ImplementsGatedTask
  DeployReturns
CHECK_DEADLOCK FALSE
