SPECIFICATION FairSpec
CONSTANTS
  MaxActive = 1
  MaxExecutions = 2
  Retention = 1
  MaxLaunches = 3
  MaxPauses = 2
  MaxTime = 1
  Nil = Nil
CHECK_DEADLOCK FALSE
INVARIANT ShowsTheEnd
PROPERTY CloseCompletes
