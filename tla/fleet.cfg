SPECIFICATION FairSpec
CONSTANTS
  A = A
  B = B
  Replicas <- MCReplicas
  Nobody = Nobody
  Ghost = Ghost
  N = 2
  MaxCrashes = 2
  MaxFails = 1
INVARIANTS SoleDrainer AnswersExact CancelSticks
PROPERTIES EndIsFinal EveryJobEnds
CHECK_DEADLOCK FALSE
