SPECIFICATION FairSpec
CONSTANTS
  Streams = {s1}
  Requests = {q1, q2}
  Sweeper = sweeper
  Texts = {t1}
  None = none
  WindowTurns = 2
  KeepTurns = 1
  MaxIterations = 2
  MaxBatch = 2
  MaxQuestions = 1
  MaxRows = 20
INVARIANTS
  ActionRunsOnce
  HiddenIsSummarised
PROPERTIES
  DeletedStaysClosed
  TurnsEnd
  PausedIsSettled
  KeepsActionPromise
CHECK_DEADLOCK FALSE
