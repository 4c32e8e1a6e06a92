\* No losses and no timeouts: every call must return.  More commands than
\* numbers: _seq_out and _seq_ack wrap around.
CONSTANTS
  Window = 2
  FifoDepth = 3
  SeqMod = 8
  w1 = w1
  w2 = w2
  CtrlWords <- MCCtrlWords
  MaxSent = 9
  MaxTimeouts = 0
  MaxLost = 0
  SocketDepth = 6
SPECIFICATION FairSpec
INVARIANTS
  TypeOK
  ReadbackIsOwn
PROPERTY CallsEnd
