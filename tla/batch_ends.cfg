SPECIFICATION FairSpec
CONSTANTS
  Jobs = {j1, j2}
  N = 1
  NoJob = NoJob
  MaxCrashes = 1
  MaxFails = 1
  MaxErase = 0
PROPERTY EveryJobEnds
CHECK_DEADLOCK FALSE
