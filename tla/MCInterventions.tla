--------------------------- MODULE MCInterventions ---------------------------
(***************************************************************************)
(* Small instances of Interventions for TLC.                               *)
(***************************************************************************)
EXTENDS Interventions, TLC

CONSTANTS s1, i1, i2

OneSession == [i \in {i1, i2} |-> s1]

Symmetry == Permutations(Callers) \cup Permutations(Operators)
=============================================================================
