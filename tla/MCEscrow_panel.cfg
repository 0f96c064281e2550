SPECIFICATION Spec
CONSTANTS
  Agents = {a1, a2}
  Clients = {c1}
  BountyIds = {b1, b2}
  Hashes = {h1}
  None = None
  ConsensusAgents = 3
  PanelDecisions = {"client_favor", "agent_favor", "split"}
  MinReputation = 3000
  DecayNum = 19
  DecayDen = 20
  MaxTasks = 3
INVARIANTS
  LifecycleInv
  CreditsMatchSettlements
  RecentTasksWeighMore
PROPERTIES
  ClaimIsPermanent
  RecoveryNeedsOwnBounty
  ImplementsLedger
