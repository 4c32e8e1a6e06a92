\* The retries and compat numbers of the code, with losses.
CONSTANTS
  Retries = 3
  HostCompat = 12
  MinCompat = 10
  FwVersions <- MCFwVersions
  MaxCalls = 4
  MaxLost = 2
SPECIFICATION FairSpec
INVARIANTS
  TypeOK
  ReturnedWasExecuted
  ReadsOwnWrites
  XportIsProgrammed
  OnlySameBuildAnswers
PROPERTY CallsEnd
