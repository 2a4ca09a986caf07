SPECIFICATION PoolSpec
CONSTANTS
  r1 = r1
  r2 = r2
  r3 = r3
  A = A
  B = B
  open_router = open_router
  other = other
  NoPin = NoPin
  Replicas = {A, B}
  Escalations = {r1, r2, r3}
  Home <- MCHome
  Streamed = {r3}
  Deadlined = {r1}
  Pins <- MCPins
  Slots = {open_router, other}
  Offered <- MCOffered
  Permitted <- MCPermitted
  Regional = {open_router}
  Region <- MCRegion
  Attempts = 2
  Threshold = 2
  MaxFaults = 1
INVARIANTS PoolTypeOK RegionKept BaseRestored SharedJustified
PROPERTY OpenStops
CHECK_DEADLOCK FALSE
