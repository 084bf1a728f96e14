-------------------------- MODULE MCSessionHandoff --------------------------
(***************************************************************************)
(* Small instances of SessionHandoff for TLC: one replay, one discovery,   *)
(* or one of each, with two request threads.                               *)
(***************************************************************************)
EXTENDS SessionHandoff

=============================================================================
