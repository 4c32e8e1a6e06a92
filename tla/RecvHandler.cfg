CONSTANTS
  NChans = 2
  SPP = 2
  SeqMod = 3
  Threshold = 1
  Wants <- SmallWants
  Back = 5
  MaxPos = 3
  MaxFaults = 2
SPECIFICATION Spec
INVARIANTS
  Unison
  SamplesOrError
  MessagesReported
  DropJustified
  NoSilentGap
  GapTime
CHECK_DEADLOCK FALSE
