CONSTANTS
  None = None
  NChans = 2
  Dev = 1
  SPP = 2
  Sizes <- SmallSizes
  Ahead = 1
  SeqMod = 2
  MaxPkts = 3
  MaxTime = 2
  MaxCalls = 3
  MaxFaults = 2
SPECIFICATION Spec
PROPERTIES
  HeadLeaves
INVARIANTS
  InStep
  EndIsMarked
  NoSilentHole
  PlaysPrefixes
  StartsOnTime
CHECK_DEADLOCK FALSE
