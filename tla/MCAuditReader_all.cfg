SPECIFICATION SideSpec
CONSTANTS
  None = None
  Categories = {"auth", "egress"}
  Limits = {0, 1, 9}
  Offsets = {0, 1}
  Readers <- BothOrders
  PageSize = 1
  Faults = {"modify", "truncate"}
  ClockIsSet = TRUE
  MaxDamages = 1
  MaxEntries = 4
  MaxTime = 2
  MaxLeaves = 9
INVARIANTS
  QueryIsFilter
  PagesAreExact
  PagesLeaveNoGap
  ProofsVerify
  RootCommits
CHECK_DEADLOCK FALSE
