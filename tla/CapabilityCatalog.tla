--------------------------- MODULE CapabilityCatalog ---------------------------
(***************************************************************************)
(* What a capability registry promises its callers, without files or       *)
(* locks: versions only go up, a version never changes its artifact, and   *)
(* one whose publication was confirmed is there for good.  A version that  *)
(* is visible but not confirmed may still be lost.                         *)
(***************************************************************************)
EXTENDS Integers

VARIABLES
  visible,    \* entries [version, content] that a caller may find
  confirmed   \* those whose publication was confirmed

Init == visible = {} /\ confirmed = {}

Publish ==
  \E entry \in visible' :
    /\ entry.version \in Nat \ {0}
    /\ \A earlier \in visible : earlier.version < entry.version
    /\ visible' = visible \cup {entry}
    /\ UNCHANGED confirmed

Confirm ==
  \E entry \in visible : confirmed' = confirmed \cup {entry} /\ UNCHANGED visible

Lose ==
  /\ confirmed \subseteq visible' /\ visible' \subseteq visible
  /\ UNCHANGED confirmed

Spec == Init /\ [][Publish \/ Confirm \/ Lose]_<<visible, confirmed>>
==============================================================================
