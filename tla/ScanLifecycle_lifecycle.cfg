SPECIFICATION FairSpec
CONSTANTS
  Scans = {s1, s2}
  Requests = {r1, r2}
  MaxConcurrent = 2
  RecoveryLimit = 2
  MaxCalls = 3
  MaxCrashes = 1
INVARIANTS
  TypeOK
  RunningRowHasRun
  QueuedRowIsCovered
  OverlapNeedsRetry
PROPERTIES
  DeletedStaysDeleted
  CompletionUndoneOnlyByUser
  EveryScanSettles
  KeepsPoolPromise
CHECK_DEADLOCK FALSE
