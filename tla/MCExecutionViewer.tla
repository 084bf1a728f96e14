------------------------- MODULE MCExecutionViewer -------------------------
(* Small instances of ExecutionViewer for TLC. *)
EXTENDS ExecutionViewer
=============================================================================
