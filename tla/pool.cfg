SPECIFICATION FairSpec
CONSTANTS
  h1 = h1
  h2 = h2
  p1 = p1
  p2 = p2
  s1 = s1
  Hosts = {h1, h2}
  Requests = {p1, s1}
  Streams = {s1}
  Deadlined = {p1, s1}
  Ladder <- MCLadder
  Serves <- MCServes
  Model <- MCModel
  Threshold = 2
  frontier_fallback = TRUE
INVARIANTS OutstandingExact
PROPERTIES CallsAreFinite EveryRequestEnds
CHECK_DEADLOCK FALSE
