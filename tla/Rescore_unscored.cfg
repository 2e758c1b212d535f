SPECIFICATION Spec
CONSTANTS
  Scans = {s1, s2}
  None = none
  BatchSize = 1
INVARIANT
  CompletedCoversCandidates
CHECK_DEADLOCK FALSE
