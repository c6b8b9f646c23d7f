CONSTANTS
  Id = {i1}
  Object = {p1, p2}
  None = None
  HardLimit = 1
  Env = {"leave", "save", "shutdown"}
SPECIFICATION FairSpec
INVARIANT NothingOutlives
PROPERTY ProjectLockFreed
PROPERTY ShutdownCompletes
PROPERTY SaveRoundsEnd
CHECK_DEADLOCK FALSE
