\* Two processes, one radio.
CONSTANTS
  p1 = p1
  p2 = p2
  None = None
  Procs <- MCProcs
  TimeMod = 6
  LockTimeout = 3
  RefreshMax = 1
  MaxSets = 0
SPECIFICATION Spec
INVARIANT OneHolder
