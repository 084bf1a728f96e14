SPECIFICATION Spec
CONSTANTS
  p1 = p1
  a = a
  b = b
  Processes = {p1}
  Threads = {a, b}
  ProcessOf <- MCProcessOf
  Tenants = {harbor, summit}
  Codes = {x}
  MaxTraces = 3
  MaxVersion = 2
  None = None
SYMMETRY Interchangeable
INVARIANT SuiteMatchesArtifact
INVARIANT VariantsAreProven
PROPERTY KeepsPublications
CHECK_DEADLOCK FALSE
