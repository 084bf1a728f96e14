SPECIFICATION Spec
CONSTANTS
  None = None
  s1 = s1
  i1 = i1
  i2 = i2
  Sessions = {s1}
  Interventions = {i1, i2}
  Operators = {o1, o2}
  Callers = {t1, t2}
  SessionOf <- OneSession
  Ttl = 2
  MaxTime = 4
  MaxVersion = 8
SYMMETRY Symmetry
CHECK_DEADLOCK FALSE
INVARIANTS
  ActivePairsAgree
  CommitSeesWhatWasRead
  AutomationKeepsLease
PROPERTIES
  UnexpiredClaimIsKept
  ImplementsLease
