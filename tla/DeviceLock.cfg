\* The clock runs on, wraps around and may be set.
CONSTANTS
  p1 = p1
  p2 = p2
  None = None
  Procs <- MCProcs
  TimeMod = 5
  LockTimeout = 3
  RefreshMax = 1
  MaxSets = 1
SPECIFICATION FairSpec
INVARIANTS
  RefreshKeepsLock
  IgnoredIsFreshBeforeWrap
PROPERTY LockComesBack
