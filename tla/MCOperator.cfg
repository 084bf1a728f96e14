SPECIFICATION Spec
CONSTANTS
  Operators = {alice, bob}
  Me = alice
  Looks = {before, after}
  MaxVersion = 3
  MaxInputs = 2
  MaxChanges = 1
  None = None
INVARIANT AcceptedOnce
INVARIANT DecidedOnCurrentFrame
CHECK_DEADLOCK FALSE
 
PROPERTY OperatorGetsFrame
