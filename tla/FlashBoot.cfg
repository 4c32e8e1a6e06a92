\* Two pages: the header's and one more.  Two runs, so that one meets what the
\* other left behind; two faults, so that one meets the repair of another.
CONSTANTS
  NPages = 2
  MaxRuns = 2
  MaxFaults = 2
SPECIFICATION Spec
INVARIANT FailsOnlyAfterRestart
PROPERTIES
  VerifiedIsWritten
  FirmwareFitsFpga
  BootEnds
CHECK_DEADLOCK FALSE
