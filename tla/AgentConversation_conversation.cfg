SPECIFICATION Spec
CONSTANTS
  Streams = {s1, s2}
  Requests = {q1}
  Sweeper = sweeper
  Texts = {t1}
  None = none
  WindowTurns = 2
  KeepTurns = 2
  MaxIterations = 1
  MaxBatch = 1
  MaxQuestions = 1
  MaxRows = 5
INVARIANTS
  ConversationTypeOK
  RawOnlyWhilePaused
  LiveTurnIsReachable
  RunsDoNotInterleave
  AnswerHangsOnActive
  HistoryIsWellFormed
SYMMETRY ConversationSymmetry
CHECK_DEADLOCK FALSE
