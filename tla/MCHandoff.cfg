SPECIFICATION FairSpec
CONSTANTS
  Replays = {r1}
  Discoveries = {d1}
  Requests = {q1, q2, q3}
  MaxPauses = 3
  MaxRuns = 1
  None = None
CHECK_DEADLOCK FALSE
INVARIANTS
  OperatorHasTheBrowser
  RunsOnlyWhenResolved
PROPERTIES
  EveryRequestReturns
  RecordedResumeGoesOn
  ShutdownReleasesAll
