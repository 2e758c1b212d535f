SPECIFICATION EventsFairSpec
CONSTANTS
  Scans = {s1, s2}
  Requests = {r1}
  Clients = {k1}
  MaxConcurrent = 1
  RecoveryLimit = 1
  MaxCalls = 3
  MaxCrashes = 1
PROPERTIES
  OutcomeIsStored
  ListenerHearsTheEnd
CHECK_DEADLOCK FALSE
