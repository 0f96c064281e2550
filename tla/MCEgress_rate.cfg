SPECIFICATION Spec
CONSTANTS
  None = None
  h1 = h1
  h2 = h2
  w = w
  Agents = {a1, a2}
  Hosts = {h1, h2}
  Patterns = {w}
  Matches <- WildcardMatches
  Rules <- OnlyThree
  DefaultRule <- Two
  Window = 3
  MaxEvents = 2
  KeptEvents = 1
  MaxLog = 3
  MaxTime = 3
SYMMETRY AgentsAlike
INVARIANTS
  TypeOK
  AllowedWithinRate
  DeniedForOwnRequests
