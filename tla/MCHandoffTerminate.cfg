SPECIFICATION FairSpec
CONSTANTS
  Replays = {}
  Discoveries = {d1}
  Requests = {q1}
  MaxPauses = 1
  MaxRuns = 1
  None = None
CHECK_DEADLOCK FALSE
PROPERTIES
  TerminationReleasesCaller
