----------------------------- MODULE DiscoverySuite -----------------------------
(***************************************************************************)
(* DiscoverySuiteService of runs/discovery_suite.py over the capability    *)
(* registry: a task draft, the scenarios discovered for it, the tenants it *)
(* is validated on and its publication.                                    *)
(*                                                                         *)
(* The service takes no lock.  A request reads the suite, works for        *)
(* minutes, in model-driven discovery or in replays, and saves a changed   *)
(* copy of what it read; requests run in threads of the API server and     *)
(* interleave.  Suites are in memory and die with their process, the       *)
(* registry's files stay.  There is one suite per process at a time.       *)
(*                                                                         *)
(* An artifact is what it claims: the primary trace, the scenarios merged  *)
(* into it and the tenants it supports; and, for the properties only, what *)
(* has been replayed of it for which tenant.  Traces are numbered as they  *)
(* are discovered.  A scenario whose discovery succeeded merges unless its *)
(* code is taken.                                                          *)
(***************************************************************************)
EXTENDS CapabilityRegistry, FiniteSets, Sequences, SequencesExt

CONSTANTS
  Tenants, Codes,
  MaxTraces    \* bound: discoveries

Statuses == {"collecting", "validated", "published", "failed"}
Scenarios == [code : Codes, trace : Nat, verified : BOOLEAN]
Artifacts ==
  [trace : Nat, scenarios : SUBSET Scenarios, tenants : SUBSET Tenants,
   proven : SUBSET [tenant : Tenants, trace : Nat], extended : BOOLEAN]
Suites ==
  [status : Statuses, tenant : Tenants, risky : BOOLEAN, proposed : Nat \ {0},
   primary : Artifacts, scenarios : SUBSET Scenarios, artifact : Artifacts \cup {None},
   version : 1 .. MaxVersion \cup {None}]

ASSUME SuiteAssumption == MaxTraces \in Nat /\ None \notin Artifacts \cup Suites

VARIABLES
  suites,     \* per process: its suite
  task,       \* per thread: the request it serves and the suite it read
  traces      \* number of discoveries

vars == <<registry, suites, task, traces>>

Suite(t) == suites[ProcessOf[t]]
Store(t, suite) == suites' = [suites EXCEPT ![ProcessOf[t]] = suite]
Done(t) == task' = [task EXCEPT ![t] = None]

Init ==
  /\ RegistryInit
  /\ suites = [p \in Processes |-> None]
  /\ task = [t \in Threads |-> None]
  /\ traces = 0

CodesOf(scenarios) == {scenario.code : scenario \in scenarios}

\* _merge_scenarios: every scenario has its evidence and a code of its own.
Merges(suite) ==
  /\ \A scenario \in suite.scenarios : scenario.verified
  /\ CodesOf(suite.scenarios) \cap CodesOf(suite.primary.scenarios) = {}

Merged(suite) == [suite.primary EXCEPT !.scenarios = @ \cup suite.scenarios]

\* The artifact of the last validation, if no scenario came after it.
Candidate(suite) == IF suite.artifact # None THEN suite.artifact ELSE Merged(suite)

\* After the replays of the primary and of every scenario of the suite.
Replayed(suite, tenant) ==
  LET parts == {suite.primary.trace} \cup {scenario.trace : scenario \in suite.scenarios}
  IN [Candidate(suite) EXCEPT
        !.proven = @ \cup {[tenant |-> tenant, trace |-> part] : part \in parts}]

------------------------------------------------------------------------------
(* A new suite, of a new primary or of a published one *)

Create(t) ==
  /\ Suite(t) = None /\ task[t] = None
  /\ traces < MaxTraces /\ traces' = traces + 1
  /\ \E tenant \in Tenants, status \in {"collecting", "failed"}, risky \in BOOLEAN :
       Store(t, [status |-> status, tenant |-> tenant, risky |-> risky, proposed |-> 1,
                 primary |-> [trace |-> traces + 1, scenarios |-> {}, tenants |-> {tenant},
                              proven |-> {}, extended |-> FALSE],
                 scenarios |-> {}, artifact |-> None, version |-> None])
  /\ UNCHANGED <<registry, task>>

\* The published artifact is replayed once for the tenant of the suite.
FromPublished(t) ==
  /\ Suite(t) = None /\ task[t] = None
  /\ \E file \in files, tenant \in Tenants :
       Store(t, [status |-> "collecting", tenant |-> tenant, risky |-> FALSE,
                 proposed |-> file.version,
                 primary |-> [file.content EXCEPT !.extended = TRUE],
                 scenarios |-> {}, artifact |-> None, version |-> None])
  /\ UNCHANGED <<registry, task, traces>>

------------------------------------------------------------------------------
(***************************************************************************)
(* Reading the suite.  Every request needs a suite that is collecting or   *)
(* validated; a request that is refused changes nothing.                   *)
(***************************************************************************)
Reads(t, request) ==
  /\ task[t] = None
  /\ Suite(t) # None /\ Suite(t).status \in {"collecting", "validated"}
  /\ task' = [task EXCEPT ![t] = request]
  /\ UNCHANGED <<registry, suites, traces>>

StartScenario(t) ==
  /\ Suite(t) # None
  /\ \E code \in Codes \ CodesOf(Suite(t).scenarios) :
       Reads(t, [op |-> "scenario", suite |-> Suite(t), code |-> code])

StartValidation(t) ==
  /\ Suite(t) # None /\ (Suite(t).artifact # None \/ Merges(Suite(t)))
  /\ \E tenant \in Tenants :
       Reads(t, [op |-> "validate", suite |-> Suite(t), tenant |-> tenant])

StartFinalize(t) ==
  /\ Suite(t) # None /\ (Suite(t).artifact # None \/ Merges(Suite(t)))
  /\ Reads(t, [op |-> "finalize", suite |-> Suite(t), tenant |-> Suite(t).tenant])

Publishing(t) == writer # None /\ writer.thread = t
Serving(t, op) == task[t] # None /\ task[t].op = op

------------------------------------------------------------------------------
(* Saving what became of it *)

\* Mutant: an earlier validation stands after another scenario.
FinishScenarioKeepingArtifact(t) ==
  /\ Serving(t, "scenario")
  /\ traces < MaxTraces /\ traces' = traces + 1
  /\ \E verified \in BOOLEAN :
       Store(t, [task[t].suite EXCEPT
                   !.scenarios = @ \cup {[code |-> task[t].code, trace |-> traces + 1,
                                          verified |-> verified]}])
  /\ Done(t)
  /\ UNCHANGED registry

\* add_scenario: the scenario joins the suite whether its discovery succeeded or not.
FinishScenario(t) ==
  /\ Serving(t, "scenario")
  /\ traces < MaxTraces /\ traces' = traces + 1
  /\ \E verified \in BOOLEAN :
       Store(t, [task[t].suite EXCEPT
                   !.scenarios = @ \cup {[code |-> task[t].code, trace |-> traces + 1,
                                          verified |-> verified]},
                   !.artifact = None, !.status = "collecting"])
  /\ Done(t)
  /\ UNCHANGED registry

\* restore_scenarios: local evidence of an earlier suite of the same primary.
RestoreScenarios(t) ==
  /\ Serving(t, "scenario")
  /\ task[t].suite.status = "collecting" /\ task[t].suite.scenarios = {}
  /\ traces < MaxTraces /\ traces' = traces + 1
  /\ LET restored == [task[t].suite EXCEPT
                        !.scenarios = {[code |-> task[t].code, trace |-> traces + 1,
                                        verified |-> TRUE]},
                        !.artifact = None]
     IN Merges(restored) /\ Store(t, restored)
  /\ Done(t)
  /\ UNCHANGED registry

\* _record_validation_failure, of a validation or a finalization: the suite that
\* was read is saved again, with the tenant that failed (left out here).
RecordFailure(t) ==
  /\ ~Publishing(t)
  /\ task[t] # None /\ task[t].op \in {"validate", "finalize"}
  /\ task[t].op = "finalize" => ~task[t].suite.risky
  /\ Store(t, task[t].suite)
  /\ Done(t)
  /\ UNCHANGED <<registry, traces>>

\* Mutant: a validation does not replay the scenarios.
FinishValidationOfPrimary(t) ==
  /\ Serving(t, "validate")
  /\ LET suite == task[t].suite
         proof == [tenant |-> task[t].tenant, trace |-> suite.primary.trace]
     IN Store(t, [suite EXCEPT
          !.artifact = [Candidate(suite) EXCEPT !.tenants = @ \cup {task[t].tenant},
                                                !.proven = @ \cup {proof}],
          !.status = "validated"])
  /\ Done(t)
  /\ UNCHANGED <<registry, traces>>

FinishValidation(t) ==
  /\ Serving(t, "validate")
  /\ LET suite == task[t].suite
     IN Store(t, [suite EXCEPT
          !.artifact = [Replayed(suite, task[t].tenant) EXCEPT !.tenants = @ \cup {task[t].tenant}],
          !.status = "validated"])
  /\ Done(t)
  /\ UNCHANGED <<registry, traces>>

RefuseRisk(t) ==
  /\ Serving(t, "finalize") /\ task[t].suite.risky
  /\ Store(t, [task[t].suite EXCEPT !.artifact = Candidate(task[t].suite), !.status = "failed"])
  /\ Done(t)
  /\ UNCHANGED <<registry, traces>>

\* The final replays have passed.
StartPublication(t) ==
  /\ Serving(t, "finalize") /\ ~task[t].suite.risky
  /\ LET suite == task[t].suite
     IN BeginPublish(t, Replayed(suite, suite.tenant), suite.proposed)
  /\ UNCHANGED <<suites, task, traces>>

Publish(t) ==
  /\ Serving(t, "finalize")
  /\ \/ LinkFile(t)
     \/ SyncDirectory(t)
  /\ UNCHANGED <<suites, task, traces>>

FinishPublication(t) ==
  /\ Serving(t, "finalize")
  /\ ConfirmPublication(t)
  /\ Store(t, [task[t].suite EXCEPT !.artifact = writer.file.content, !.status = "published",
                                    !.version = writer.file.version])
  /\ Done(t)
  /\ UNCHANGED traces

GiveUpPublication(t) ==
  /\ Serving(t, "finalize")
  /\ FailPublication(t)
  /\ Store(t, [task[t].suite EXCEPT !.artifact = Candidate(task[t].suite), !.status = "validated"])
  /\ Done(t)
  /\ UNCHANGED traces

------------------------------------------------------------------------------
(* Crashes *)

Stop(p) ==
  /\ StopProcess(p)
  /\ suites' = [suites EXCEPT ![p] = None]
  /\ task' = [t \in Threads |-> IF ProcessOf[t] = p THEN None ELSE task[t]]
  /\ UNCHANGED traces

Blackout ==
  /\ LosePower
  /\ suites' = [p \in Processes |-> None]
  /\ task' = [t \in Threads |-> None]
  /\ UNCHANGED traces

Request(t) ==
  \/ Create(t) \/ FromPublished(t)
  \/ StartScenario(t) \/ FinishScenario(t) \/ RestoreScenarios(t)
  \/ StartValidation(t) \/ FinishValidation(t) \/ RecordFailure(t)
  \/ StartFinalize(t) \/ RefuseRisk(t) \/ StartPublication(t)
  \/ Publish(t) \/ FinishPublication(t) \/ GiveUpPublication(t)

Next == (\E t \in Threads : Request(t)) \/ (\E p \in Processes : Stop(p)) \/ Blackout

Spec == Init /\ [][Next]_vars

------------------------------------------------------------------------------
(* Properties *)

TypeOK ==
  /\ files \subseteq [version : 1 .. MaxVersion, content : Artifacts] /\ synced \subseteq files
  /\ writer # None => writer.thread \in Threads
  /\ suites \in [Processes -> Suites \cup {None}]
  /\ \A t \in Threads : task[t] # None => task[t].suite \in Suites /\ Suite(t) # None

\* The registry keeps the promises of CapabilityCatalog: versions go up and keep
\* their artifact, and through failed writes, crashes and losses of power none is
\* lost whose publication was confirmed (publish_next, _publish_locked).
Catalog == INSTANCE CapabilityCatalog
  WITH visible <- files, confirmed <- confirmed
KeepsPublications == Catalog!Spec

\* However requests overlap, the artifact a suite holds is the primary with
\* exactly the suite's scenarios, and a published suite names a version that was
\* confirmed with that artifact (add_scenario, validate, finalize).
SuiteMatchesArtifact ==
  /\ TypeOK
  /\ \A p \in Processes :
       LET suite == suites[p]
       IN suite # None =>
            /\ suite.artifact # None => suite.artifact.scenarios = Merged(suite).scenarios
            /\ suite.status \in {"validated", "published"} => suite.artifact # None
            /\ suite.status = "published" =>
                 [version |-> suite.version, content |-> suite.artifact] \in confirmed

\* "Compatibility variants are only added after a deterministic replay proof"
\* (docs/discovery.md:258): the primary and every scenario that a version claims,
\* of a task its suite discovered itself, have been replayed for every tenant.
Proven(content) ==
  \A tenant \in content.tenants,
     trace \in {content.trace} \cup {scenario.trace : scenario \in content.scenarios} :
    [tenant |-> tenant, trace |-> trace] \in content.proven

VariantsAreProven ==
  \A file \in files : ~file.content.extended => Proven(file.content)

\* The same of every version, extensions of published ones included: "Discovery-
\* suite validation executes the same draft on each requested tenant and records
\* support only after success" (docs/heterogeneity-and-compatibility.md:6).
EveryVariantIsProven == \A file \in files : Proven(file.content)

\* "Suite states are collecting -> validated -> published, with failed terminal"
\* (docs/discovery.md:295): a suite that is published or failed stays so.
StatusesAreTerminal ==
  [][\A p \in Processes :
       suites[p] # None /\ suites[p].status \in {"published", "failed"} /\ suites'[p] # None
       => suites'[p].status = suites[p].status]_vars
==============================================================================
