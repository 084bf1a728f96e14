SPECIFICATION Spec
CONSTANTS
  Clients = {c1, c2, c3, c4}
  Closers = {k1, k2}
  Capacity = 2
  Finalizer = Finalizer
  Sentinel = Sentinel
  None = None
INVARIANT ClosedMeansClosed
PROPERTY EveryoneReturns
