--------------------------- MODULE MCReplayEngine ---------------------------
(***************************************************************************)
(* Type a search, read a field of the record found, act on it; a notice    *)
(* may cover the page, and a lost session sends the run back to its start. *)
(***************************************************************************)
EXTENDS ReplayEngine

MCRecoveries == {"notice", "signin"}
MCLength == [b \in {"main", "notice", "signin"} |->
               CASE b = "main" -> 3 [] b = "notice" -> 1 [] b = "signin" -> 2]
MCKind == [p \in Positions |->
             CASE p = <<"main", 2>> -> "extract"
               [] p = <<"signin", 2>> -> "check"
               [] OTHER -> "act"]
MCGuarded == {<<"main", 2>>, <<"main", 3>>}
MCDeclared == {<<"main", 1>>, <<"main", 3>>, <<"notice", 1>>}
MCMaxAttempts == [p \in Positions |-> IF p \in {<<"main", 1>>, <<"main", 3>>} THEN 2 ELSE 1]
MCRefs == [i \in 1..3 |-> IF i = 2 THEN {"notice"} ELSE {"notice", "signin"}]
MCResumeAt == [r \in MCRecoveries |-> IF r = "notice" THEN 2 ELSE 1]
MCMaxUses == [r \in MCRecoveries |-> IF r = "notice" THEN 2 ELSE 1]
MCNeeds == [i \in 1..3 |-> IF i = 1 THEN {} ELSE {<<"main", 2>>}]
MCRequired == {<<"main", 2>>}
=============================================================================
