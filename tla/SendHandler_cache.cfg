CONSTANTS
  None = None
  NChans = 2
  Dev = 1
  SPP = 2
  Sizes <- SmallSizes
  Ahead = 1
  SeqMod = 2
  MaxPkts = 4
  MaxTime = 2
  MaxCalls = 4
  MaxFaults = 1
SPECIFICATION Spec
INVARIANTS
  StartIsApplied
CHECK_DEADLOCK FALSE
