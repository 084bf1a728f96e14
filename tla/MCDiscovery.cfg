SPECIFICATION Spec
CONSTANTS
  None = None
  home = home
  detail = detail
  away = away
  balance = balance
  secret = secret
  personal = personal
  Screens <- MCScreens
  Operations <- MCOperations
  Conditions <- MCConditions
  Expectations <- MCExpectations
  Outputs = {balance}
  Layers <- MCLayers
  Primary <- MCPrimary
  MaxSteps = 4
  MaxRepeatedState = 2
  MaxRepeatedAction = 2
  MaxCalls = 4
INVARIANT TraceIsWhole
INVARIANT OutputsAreFresh
INVARIANT ScenarioIsBranch
INVARIANT EffortIsBounded
INVARIANT SessionFollowsRun
INVARIANT WithinEveryLayer
CHECK_DEADLOCK FALSE
