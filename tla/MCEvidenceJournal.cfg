SPECIFICATION Spec
CONSTANTS
  Threads = {worker, request}
  Exporters = {e1, e2}
  MaxEvents = 2
  MaxAttachments = 2
  MaxObjects = 6
  None = None
SYMMETRY Interchangeable
INVARIANT EvidenceIsSound
INVARIANT JournalIsListed
PROPERTY BundleIsWhole
CHECK_DEADLOCK FALSE
