--------------------------- MODULE MCSessionWorker ---------------------------
(***************************************************************************)
(* A small instance of SessionWorker for TLC: more callers than the queue  *)
(* holds, and two closers.                                                 *)
(***************************************************************************)
EXTENDS SessionWorker

=============================================================================
