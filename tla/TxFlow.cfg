\* Two streamers of a channel, fewer losses than the window minus one, a
\* crash, and packets enough for the numbers to wrap around.
CONSTANTS
  c1 = c1
  c2 = c2
  None = None
  Chans <- OneChannel
  NSessions = 2
  Window = 3
  SeqMod = 5
  MaxSent = 5
  MaxReports = 1
  MaxLost = 1
  MaxCrashes = 1
SPECIFICATION FairSpec
INVARIANTS
  TypeOK
  CommitWithinWindow
PROPERTIES
  NotStuck
  ReportsStop
CHECK_DEADLOCK FALSE
