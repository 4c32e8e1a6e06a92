\* Window and FIFO depth as in the code (depth = window + 1), with timeouts
\* and losses.
CONSTANTS
  Window = 2
  FifoDepth = 3
  SeqMod = 12
  w1 = w1
  w2 = w2
  CtrlWords <- MCCtrlWords
  MaxSent = 6
  MaxTimeouts = 2
  MaxLost = 1
  SocketDepth = 6
SYMMETRY Symmetry
SPECIFICATION Spec
INVARIANTS
  CommandFifoNeverOverflows
  ResultFifoHasSpace
  ReadbackIsBarrier
  SpiUsesWantedWord
CHECK_DEADLOCK FALSE
