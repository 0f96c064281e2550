SPECIFICATION Spec
CONSTANTS
  Torn = Torn
  Spoiled = Spoiled
  Contents = {c1, c2}
  LargeContents = {c2}
  Deployments = {{"w"}, {"incremental"}, {"w", "a", "incremental"}}
  Faults = {"modify", "remove"}
  MaxEntries = 3
  MaxLines = 3
  MaxCrashes = 1
INVARIANTS
  ChainIntact
  FaultsAreDetected
  IncrementalIsExact
PROPERTIES
  LogIsAppendOnly
  ExportsAreImportable
CHECK_DEADLOCK FALSE
