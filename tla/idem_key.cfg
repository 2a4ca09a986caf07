SPECIFICATION FairSpec
CONSTANTS
  a1 = a1
  a2 = a2
  b1 = b1
  b2 = b2
  Requests <- MCRequests
  Body <- MCBody
  Streams <- MCStreams
  Fleet = TRUE
  NoRow = NoRow
  Nobody = Nobody
  MaxTimeouts = 6
  MaxRemovals = 1
INVARIANTS OneOwner ReplaySameBody
PROPERTY EveryRequestEnds
CHECK_DEADLOCK FALSE
