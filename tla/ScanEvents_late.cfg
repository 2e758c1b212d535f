SPECIFICATION EventsSpec
CONSTANTS
  Scans = {s1}
  Requests = {r1}
  Clients = {k1}
  MaxConcurrent = 1
  RecoveryLimit = 1
  MaxCalls = 1
  MaxCrashes = 0
INVARIANTS
  LateClientCatchesUp
CHECK_DEADLOCK FALSE
