SPECIFICATION FairSpec
CONSTANTS
  Ids = {a, b}
  NoRow = norow
  Gone = gone
  Never = never
  Idle = idle
  Period = 1
  Overlap = 2
  MaxTime = 3
  MaxFaults = 1
INVARIANTS
  StartsArePeriodApart
  EarlyMailHasCause
  GapsAreDeliveries
PROPERTY
  DueIsMovedOn
CHECK_DEADLOCK FALSE
