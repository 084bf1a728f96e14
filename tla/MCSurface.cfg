SPECIFICATION SurfaceSpec
CONSTANTS
  Rows = 2
  Columns = 3
  NoText = NoText
  NoTarget = NoTarget
  Pages <- MCPages
  Bundles <- MCBundles
  Modes <- MCModes
  ObservationAttempts = 2
  MaxCalls = 2
  MaxLooks = 2
  MaxPolls = 1
  MaxChanges = 2
CHECK_DEADLOCK FALSE
INVARIANT AbsentMeansUndone
INVARIANT AimedAtTheTarget
INVARIANT ReadsWhatItLocated
