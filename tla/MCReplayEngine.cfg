SPECIFICATION FairSpec
CONSTANTS
  Main = "main"
  Recoveries <- MCRecoveries
  Length <- MCLength
  Kind <- MCKind
  Guarded <- MCGuarded
  Declared <- MCDeclared
  MaxAttempts <- MCMaxAttempts
  Refs <- MCRefs
  ResumeAt <- MCResumeAt
  MaxUses <- MCMaxUses
  Needs <- MCNeeds
  Required <- MCRequired
  MaxVersion = 10
  None = None
INVARIANTS
  HoldsCurrentLease
  NoBlindRepeat
  OutputsAreFresh
  SuccessIsEarned
  OutcomeOnRightRecord
  BrowserFollowsRun
PROPERTY
  AutomationEnds
CHECK_DEADLOCK FALSE
