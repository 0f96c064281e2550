SPECIFICATION TimedSpec
CONSTANTS
  Nobody = Nobody
  Never = Never
  Agents = {a1, a2}
  Interval = 1
  Threshold = 3
  MaxBatch = 2
  MaxClock = 4
  None = None
  Workspaces = {w1, w2}
  Root = TRUE
  Faults = {"mount fails", "mount hangs", "mount missing", "overwrite fails",
            "umount fails", "umount hangs", "umount missing", "removal fails"}
  MaxAge = 1
  MaxTime = 2
INVARIANTS
  NoSecretAfterWipe
PROPERTIES
  HealthOnlyFades
  BatchEnds
  StaleIsWiped
