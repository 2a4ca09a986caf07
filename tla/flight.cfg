CONSTANTS
  r1 = r1
  r2 = r2
  s1 = s1
  s2 = s2
  k1 = k1
  None = None
  Requests <- MCRequests
  Streams <- MCStreams
  Keys <- MCKeys
  KeyOf <- MCKeyOf
  MaxGone = 2
CHECK_DEADLOCK FALSE
SPECIFICATION FairSpec
INVARIANTS OneFill SlotHasFiller
PROPERTIES EveryWaiterEnds
