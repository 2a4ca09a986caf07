SPECIFICATION FairSpec
CONSTANTS
  a = a
  b = b
  ga = ga
  gb = gb
  ca = ca
  cb = cb
  da = da
  db = db
  Replicas = {a, b}
  Owner = a
  Gets <- MCGets
  Cancels <- MCCancels
  Deletes <- MCDeletes
  On <- MCOn
  Shared = TRUE
  MaxFaults = 2
INVARIANTS ToldOnce
PROPERTIES TerminalIsFinal EveryJobEnds
CHECK_DEADLOCK FALSE
