SPECIFICATION FairSpec
CONSTANTS
  r1 = r1
  r2 = r2
  r3 = r3
  A = A
  B = B
  key = key
  team = team
  rpm = rpm
  Redis = Redis
  Requests = {r1, r2, r3}
  Replicas = {A, B}
  Gauges = {key, team}
  Counters = {rpm}
  Home <- MCHome
  Leases <- MCLeases
  Checks <- MCChecks
  Cap <- MCCap
  Limit <- MCLimit
  MaxFaults = 1
  MaxCrashes = 1
  MaxWindows = 1
INVARIANTS GaugesExact CapHeld LimitHeld
PROPERTIES GaugesDrain
CHECK_DEADLOCK FALSE
