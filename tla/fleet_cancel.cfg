SPECIFICATION Spec
CONSTANTS
  A = A
  B = B
  Replicas <- MCReplicas
  Nobody = Nobody
  Ghost = Ghost
  N = 2
  MaxCrashes = 0
  MaxFails = 0
INVARIANT CancelStops
CHECK_DEADLOCK FALSE
