SPECIFICATION Spec
CONSTANTS
  Scans = {s1}
  Requests = {r1}
  MaxConcurrent = 1
  RecoveryLimit = 1
  MaxCalls = 3
  MaxCrashes = 0
PROPERTY
  CancelledStaysStopped
CHECK_DEADLOCK FALSE
