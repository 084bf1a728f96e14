------------------------- MODULE MCEvidenceJournal -------------------------
EXTENDS EvidenceJournal, TLC

\* Threads take turns with the lock and exporters with the destination.
Interchangeable == Permutations(Threads) \cup Permutations(Exporters)
==============================================================================
