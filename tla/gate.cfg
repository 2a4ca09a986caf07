SPECIFICATION FairSpec
CONSTANTS
  h1 = h1
  n1 = n1
  n2 = n2
  n3 = n3
  l1 = l1
  Requests <- MCRequests
  Rank <- MCRank
  MaxInFlight = 2
  QueueSize = 2
  MaxFaults = 2
INVARIANTS SlotsExact NobodySleeps
PROPERTIES InTurn EveryWaiterEnds
CHECK_DEADLOCK FALSE
