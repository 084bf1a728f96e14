SPECIFICATION SurfaceSpec
CONSTANTS
  Rows = 2
  Columns = 3
  NoText = NoText
  NoTarget = NoTarget
  Pages <- MCStillPages
  Bundles <- MCStillBundles
  Modes <- MCStillModes
  ObservationAttempts = 2
  MaxCalls = 1
  MaxLooks = 2
  MaxPolls = 1
  MaxChanges = 0
CHECK_DEADLOCK FALSE
INVARIANT AbsenceIsSeen
