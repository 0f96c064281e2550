SPECIFICATION MCSpec
CONSTANTS
  Malicious = {m1, m2, m3, m4}
  Suspicious = {s1, s2, s3, s4}
  Obfuscation = {o1, o2, o3, o4, o5, o6, o7, o8, o9}
  Hidden = {o1, o2}
  Base64Only = o9
  Outer = {o1, o3}
  BlockOnMalicious = TRUE
  KeySecrets = {k1}
  ProviderSecrets = {t1}
  OtherSecrets = {x1}
  SensitivePii = {n1}
  OtherPii = {p1}
  Covert = {v1}
  SizeRatios = {0, 20, 21}
  MaxShingles = 3
  SampleLimit = 2
  None = None
  Hole = Hole
  NoOne = NoOne
  Processes = {q1, q2, q3}
  Versions = {1, 2}
  Pieces = 3
  Names = {i1, i2}
  Digests = {d1, d2}
  Keys = {c1}
  RequireSignature = TRUE
  Stripped <- StripPort
  Syscalls <- SyscallNames
  Blocklist <- DangerousNames
  HardenKill <- HardenedNames
  Network <- NetworkNames
  Base <- PodmanDefault
  Signed <- FirstSigned
  Actions = {"KILL", "ERRNO", "LOG"}
  MaxCalls = 4
INVARIANTS
  EvidenceCounts
  BlockNeedsEvidence
  FingerprintIsFair
  ClearHasNoFinding
  BlockedIsRefused
  NothingElsePermitted
  ClosedFileIsWhole
  VerifiedMeansPinned
CHECK_DEADLOCK FALSE
