SPECIFICATION Spec
CONSTANTS
  None = None
  h1 = h1
  Hosts = {h1}
  ConfigEgress = {}
  s1 = s1
  s2 = s2
  p1 = p1
  p2 = p2
  Sandboxes = {s1}
  Processes = {p1, p2}
  ProcessOf <- OneProcess
  Requests <- GateRequests
  MaxFailures = 2
  MaxDeploys = 2
INVARIANTS
  OutputsAreScanned
