SPECIFICATION FairSpec
CONSTANTS
  Scans = {s1, s2, s3}
  None = none
  BatchSize = 2
INVARIANTS
  RescoreTypeOK
  RunningRowHasLoop
  PassedMeansJudged
PROPERTY
  RescoreEnds
CHECK_DEADLOCK FALSE
