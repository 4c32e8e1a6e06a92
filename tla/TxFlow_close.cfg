\* One streamer is closed while another one is open.
CONSTANTS
  c1 = c1
  c2 = c2
  None = None
  Chans <- TwoChannels
  NSessions = 2
  Window = 2
  SeqMod = 8
  MaxSent = 1
  MaxReports = 2
  MaxLost = 0
  MaxCrashes = 0
SPECIFICATION Spec
INVARIANT CloseIsHarmless
CHECK_DEADLOCK FALSE
