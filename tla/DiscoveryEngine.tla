--------------------------- MODULE DiscoveryEngine ---------------------------
(***************************************************************************)
(* DiscoveryEngine of discovery/engine.py: one run that explores a live    *)
(* surface with a model's proposals, hands the surface to a human when it  *)
(* is blocked, and compiles what it did into an artifact.                  *)
(*                                                                         *)
(* The loop is a generator on one thread; what interleaves with it is the  *)
(* surface, which changes by itself at any time, and the human who has the *)
(* surface while the loop is suspended.  A screen stands for its route and *)
(* its fingerprint.  An operation is a proposal's action and target, what  *)
(* its fingerprint is made of:                                             *)
(*   [kind, words, registered, declared, field, on, output, condition]     *)
(* on is the set of screens where its target resolves; output and          *)
(* condition are those of an extraction and of an assertion or a wait.     *)
(* A condition is [shows, output]: the screens it holds on and the output  *)
(* it refers to, or None; with an output it says nothing of the surface.   *)
(*                                                                         *)
(* Errors of the surface, the provider, the store and the lease can end    *)
(* every step (Abort), as can the time budget, which is not otherwise      *)
(* modelled: the lease is Interventions' and the continuation's caller     *)
(* SessionHandoff's subject.                                               *)
(***************************************************************************)
EXTENDS PolicyRules, Integers, Sequences, SequencesExt, FiniteSets

CONSTANTS
  Screens, Operations, Conditions, Outputs,
  Expectations,       \* the conditions a proposal may expect of its action
  Layers,             \* the policy layers of the application
  Primary,            \* of a scenario: the steps of its primary, operations
  MaxSteps,           \* request.max_steps
  MaxRepeatedState,   \* request.max_repeated_state
  MaxRepeatedAction,  \* request.max_repeated_action
  MaxCalls            \* max_model_calls_per_run of the model policy

ASSUME DiscoveryAssumption ==
  /\ {MaxSteps, MaxRepeatedState, MaxRepeatedAction, MaxCalls} \subseteq Nat \ {0}
  /\ None \notin Screens /\ None \notin Conditions \cup Expectations
  /\ None \notin {"success", "failure", "raised"}
  /\ Layers # {} /\ \A layer \in Layers : layer.ceiling \in Risks
  /\ \A op \in Operations :
       /\ op.declared \in Risks /\ {op.words, op.registered} \subseteq Risks \cup {None}
       /\ op.condition \in Conditions \cup {None}

VARIABLES
  pc,             \* where the loop is
  scenario,       \* None or the kind of the request's scenario
  screen,         \* what the live surface shows
  session,        \* "none", "open" or "closed"
  previous,       \* previous_fingerprint: the screen last observed, or None
  repeatedState, previousAction, repeatedAction,
  step,           \* number of loop iterations begun
  calls,          \* _calls_made of the run's provider
  proposal,       \* the proposal being carried out
  recordings,     \* the recorded steps: [op, risk, onRoute, verified]
  branch,         \* observed_branch: None or [after, condition]
  outputs,        \* names of the outputs bound
  continuation,   \* None or the screen the stored pause has observed
  result,         \* None, "success", "failure" or "raised"
  tried,          \* history: the operations begun since the human's last turn
  done            \* history: those of them that reached the surface

vars == <<pc, scenario, screen, session, previous, repeatedState, previousAction, repeatedAction,
          step, calls, proposal, recordings, branch, outputs, continuation, result, tried, done>>
counters == <<previous, repeatedState, previousAction, repeatedAction>>
trace == <<recordings, branch, outputs>>
history == <<tried, done>>
request == <<scenario, session, continuation, result>>

policy == Intersect(Layers)
IsSurface(condition) == condition.output = None
Holds(condition) == screen \in condition.shows
Executes(op) == op.kind \notin {"extract", "assert", "wait_for"}
Optional(condition) == IF condition = None THEN <<>> ELSE <<condition>>

Assertion(condition) ==
  [kind |-> "assert", words |-> None, registered |-> None, declared |-> "read_only",
   field |-> None, on |-> Screens, output |-> None, condition |-> condition]

\* What an act proposal can ask for: an action, or an assertion.
Proposable == Operations \cup {Assertion(condition) : condition \in Conditions}

Init ==
  /\ pc = "opening" /\ session = "none" /\ result = None /\ continuation = None
  /\ scenario \in {None, "outcome", "recovery"}
  /\ screen \in Screens
  /\ previous = None /\ repeatedState = 0 /\ previousAction = None /\ repeatedAction = 0
  /\ step = 0 /\ calls = 0 /\ proposal = None
  /\ recordings = <<>> /\ branch = None /\ outputs = {}
  /\ tried = <<>> /\ done = <<>>

------------------------------------------------------------------------------
(***************************************************************************)
(* Endings.  The finally clause of _run closes the session, and _advance   *)
(* closes the generator when the pause itself goes wrong; its locals are   *)
(* gone with it.                                                           *)
(***************************************************************************)
End(outcome) ==
  /\ result' = outcome
  /\ pc' = "over"
  /\ session' = IF session = "none" THEN "none" ELSE "closed"

Forget ==
  /\ previous' = None /\ repeatedState' = 0 /\ previousAction' = None /\ repeatedAction' = 0
  /\ proposal' = None
  /\ recordings' = <<>> /\ branch' = None /\ outputs' = {}
  /\ tried' = <<>> /\ done' = <<>>
  /\ UNCHANGED <<scenario, screen, step>>

Fail == End("failure") /\ Forget /\ UNCHANGED <<calls, continuation>>

\* Any step may fail with a typed error, or raise what _run does not catch.
Abort ==
  /\ pc \notin {"paused", "over"}
  /\ \E outcome \in {"failure", "raised"} : End(outcome)
  /\ Forget /\ UNCHANGED <<calls, continuation>>

\* handoff, up to its yield.
Handoff == pc' = "pausing"

------------------------------------------------------------------------------
(* Opening and planning *)

Open ==
  /\ pc = "opening"
  /\ session' = "open"
  /\ pc' = IF scenario = None THEN "planning" ELSE "looking"
  /\ UNCHANGED <<scenario, screen, counters, step, calls, proposal, trace, continuation, result, history>>

\* _plan_contract: the planner is one call of the same provider.
Plan ==
  /\ pc = "planning" /\ calls < MaxCalls
  /\ calls' = calls + 1
  /\ pc' = "looking"
  /\ UNCHANGED <<request, screen, counters, step, proposal, trace, history>>

------------------------------------------------------------------------------
(* Observing and deciding *)

SameScreen ==
  /\ screen = previous
  /\ recordings # <<>> => Executes(Last(recordings).op)

Look ==
  /\ pc = "looking" /\ step < MaxSteps
  /\ step' = step + 1
  /\ previous' = screen
  /\ repeatedState' = IF SameScreen THEN repeatedState + 1 ELSE 0
  /\ IF repeatedState' >= MaxRepeatedState THEN Handoff ELSE pc' = "deciding"
  /\ UNCHANGED <<request, screen, previousAction, repeatedAction, calls, proposal, trace, history>>

StepsExhausted == pc = "looking" /\ step >= MaxSteps /\ Fail

\* decide of the provider: every call counts, also the one that fails.
Decided ==
  /\ pc = "deciding" /\ calls < MaxCalls
  /\ calls' = calls + 1
  /\ UNCHANGED <<request, screen, previous, repeatedState, step, trace, history>>

CallsExhausted == pc \in {"planning", "deciding"} /\ calls >= MaxCalls /\ Fail

Escalate ==
  /\ Decided /\ Handoff
  /\ UNCHANGED <<previousAction, repeatedAction, proposal>>

ClaimCompletion ==
  /\ Decided /\ pc' = "completing"
  /\ UNCHANGED <<previousAction, repeatedAction, proposal>>

\* An act proposal or, in a scenario, the action of a step of its primary, with
\* the condition it expects and whether its confidence suffices.
Propose(op, expects, confident, marks) ==
  /\ Decided
  /\ repeatedAction' = IF op = previousAction THEN repeatedAction + 1 ELSE 0
  /\ previousAction' = op
  /\ IF repeatedAction' >= MaxRepeatedAction \/ ~confident
       THEN Handoff /\ UNCHANGED proposal
       ELSE /\ pc' = "acting"
            /\ proposal' = [op |-> op, marks |-> marks, verified |-> <<>>,
                            pending |-> Optional(op.condition) \o Optional(expects)]

\* Mutant: a branch may be claimed before anything was done.
MarkBranchAnywhere(condition) ==
  /\ scenario # None /\ branch = None
  /\ Propose(Assertion(condition), None, TRUE, TRUE)

\* A branch proposal becomes the assertion of its condition.
MarkBranch(condition) ==
  /\ scenario # None /\ branch = None /\ recordings # <<>>
  /\ Propose(Assertion(condition), None, TRUE, TRUE)

\* The provider is unavailable or answers nothing valid, or its proposal refers
\* to a step that is not there or marks a branch out of turn.
FailCall ==
  /\ pc \in {"planning", "deciding"} /\ calls < MaxCalls
  /\ calls' = calls + 1
  /\ End("failure") /\ Forget /\ UNCHANGED continuation

------------------------------------------------------------------------------
(* Carrying a proposal out *)

Context(op) ==
  [principal |-> "automation", owner |-> "automation", mode |-> "discovery",
   route |-> previous, kind |-> op.kind, words |-> op.words,
   registered |-> op.registered, declared |-> op.declared, field |-> op.field]

\* What the engine or the surface refuses before anything happened.
Unready(op) ==
  \/ op.condition # None /\ op.condition.output \notin outputs \cup {None}
  \/ op.kind = "extract" /\ op.output \notin Outputs
  \/ screen \notin op.on

Ruling(op) == Evaluate(policy, Context(op))

\* Mutant: a rejected proposal also restarts the count of repeated actions.
RejectForgetting ==
  /\ pc = "acting"
  /\ \/ Unready(proposal.op)
     \/ Ruling(proposal.op) = "require_human_approval"
     \/ proposal.op.kind = "extract" /\ Ruling(proposal.op) = "allow"
  /\ previous' = None /\ repeatedState' = 0 /\ repeatedAction' = 0
  /\ tried' = Append(tried, proposal.op)
  /\ proposal' = None /\ pc' = "looking"
  /\ UNCHANGED <<request, screen, previousAction, step, calls, trace, done>>

\* A recoverable error without effect.  An extraction is rejected after it read
\* the value, when its locator contains it.
Reject ==
  /\ pc = "acting"
  /\ \/ Unready(proposal.op)
     \/ Ruling(proposal.op) = "require_human_approval"
     \/ proposal.op.kind = "extract" /\ Ruling(proposal.op) = "allow"
  /\ previous' = None /\ repeatedState' = 0
  /\ tried' = Append(tried, proposal.op)
  /\ proposal' = None /\ pc' = "looking"
  /\ UNCHANGED <<request, screen, previousAction, repeatedAction, step, calls, trace, done>>

Deny ==
  /\ pc = "acting" /\ ~Unready(proposal.op)
  /\ Ruling(proposal.op) = "deny"
  /\ Fail

Dispatch ==
  /\ pc = "acting" /\ ~Unready(proposal.op)
  /\ Ruling(proposal.op) = "allow"
  /\ tried' = Append(tried, proposal.op) /\ done' = Append(done, proposal.op)
  /\ IF Executes(proposal.op) THEN screen' \in Screens ELSE UNCHANGED screen
  /\ outputs' = IF proposal.op.kind = "extract" THEN outputs \cup {proposal.op.output} ELSE outputs
  /\ pc' = "verifying"
  /\ UNCHANGED <<request, counters, step, calls, proposal, recordings, branch>>

\* wait_until, of the action's own condition and then of the expected one.
Verify ==
  /\ pc = "verifying" /\ proposal.pending # <<>>
  /\ Holds(Head(proposal.pending))
  /\ proposal' = [proposal EXCEPT !.pending = Tail(@),
                                  !.verified = Append(@, Head(proposal.pending))]
  /\ UNCHANGED <<pc, request, screen, counters, step, calls, trace, history>>

\* Mutant: an effect whose condition was not observed counts as a rejected proposal.
UnverifiedRejected ==
  /\ pc = "verifying" /\ proposal.pending # <<>>
  /\ ~Holds(Head(proposal.pending))
  /\ previous' = None /\ repeatedState' = 0
  /\ proposal' = None /\ pc' = "looking"
  /\ UNCHANGED <<request, screen, previousAction, repeatedAction, step, calls, trace, history>>

Unverified ==
  /\ pc = "verifying" /\ proposal.pending # <<>>
  /\ ~Holds(Head(proposal.pending))
  /\ Fail

\* The verified marker of a scenario that is no recovery ends the trace at once.
Record ==
  /\ pc = "verifying" /\ proposal.pending = <<>>
  /\ recordings' = Append(recordings,
       [op |-> proposal.op, risk |-> EffectiveRisk(Context(proposal.op)),
        onRoute |-> LocationAllowed(policy, screen), verified |-> proposal.verified])
  /\ branch' = IF proposal.marks
                 THEN [after |-> Len(recordings), condition |-> proposal.op.condition]
                 ELSE branch
  /\ IF proposal.marks /\ scenario # "recovery"
       THEN pc' = "completing" /\ previous' = screen
       ELSE pc' = "looking" /\ UNCHANGED previous
  /\ proposal' = None
  /\ UNCHANGED <<request, screen, repeatedState, previousAction, repeatedAction, step, calls,
                 outputs, history>>

\* The surface asks for a human, before or after the action had its effect.
Interrupt ==
  /\ pc \in {"acting", "verifying"}
  /\ previous' = screen /\ proposal' = None /\ Handoff
  /\ UNCHANGED <<request, screen, repeatedState, previousAction, repeatedAction, step, calls,
                 trace, history>>

------------------------------------------------------------------------------
(* The human's turn *)

\* _advance stores the continuation once the intervention is open.
Pause ==
  /\ pc = "pausing" /\ pc' = "paused"
  /\ continuation' = previous
  /\ UNCHANGED <<scenario, screen, session, counters, step, calls, proposal, trace, result, history>>

\* Mutant: the generator is left as it is when the pause cannot be recorded.
PauseUnrecordedOpen ==
  /\ pc = "pausing" /\ pc' = "over" /\ result' = "raised" /\ Forget
  /\ continuation' = previous
  /\ UNCHANGED <<calls, session>>

\* The continuation is stored and then the event cannot be: it stays, and the
\* generator it would resume is closed.
PauseUnrecorded ==
  /\ pc = "pausing" /\ End("raised") /\ Forget
  /\ continuation' = previous
  /\ UNCHANGED calls

\* validate_resume and resume.
Resume ==
  /\ pc = "paused" /\ pc' = "resuming"
  /\ screen # continuation /\ LocationAllowed(policy, screen)
  /\ continuation' = None
  /\ UNCHANGED <<scenario, screen, session, counters, step, calls, proposal, trace, result, history>>

\* Mutant: outputs read before the human's turn are kept.
ContinueWithOutputs ==
  /\ pc = "resuming" /\ pc' = "looking"
  /\ previous' = None /\ previousAction' = None /\ repeatedState' = 0 /\ repeatedAction' = 0
  /\ proposal' = None /\ tried' = <<>> /\ done' = <<>>
  /\ UNCHANGED <<request, screen, step, calls, trace>>

\* The rest of handoff; steps, calls and recordings go on where they were.
Continue ==
  /\ pc = "resuming" /\ pc' = "looking"
  /\ previous' = None /\ previousAction' = None /\ repeatedState' = 0 /\ repeatedAction' = 0
  /\ proposal' = None /\ tried' = <<>> /\ done' = <<>>
  /\ outputs' = {}
  /\ UNCHANGED <<request, screen, step, calls, recordings, branch>>

Cancel ==
  /\ pc = "paused" /\ End("failure") /\ Forget
  /\ continuation' = None
  /\ UNCHANGED calls

\* By the application itself, or by the human who has control, as seen where the
\* loop next looks at the surface.
ScreenChanges ==
  /\ pc \in {"deciding", "verifying", "paused"}
  /\ screen' \in Screens \ {screen}
  /\ UNCHANGED <<pc, request, counters, step, calls, proposal, trace, history>>

------------------------------------------------------------------------------
(* Completion *)

\* proves_distinct_surface, of a step after the marker.
Restored ==
  \E i \in branch.after + 2 .. Len(recordings) :
    \E condition \in Range(recordings[i].verified) :
      IsSurface(condition) /\ condition # branch.condition

RejoinReady ==
  /\ branch.after < Len(Primary)
  /\ screen \in Primary[branch.after + 1].on

RejectCompletion ==
  /\ pc = "completing" /\ scenario = "recovery" /\ branch # None
  /\ ~(Restored /\ RejoinReady)
  /\ pc' = "looking"
  /\ UNCHANGED <<request, screen, counters, step, calls, proposal, trace, history>>

Extracted == {recordings[i].op.output : i \in DOMAIN recordings} \ {None}
Required == IF scenario = None THEN Outputs ELSE {}

\* _latest_surface_condition: the screens on which the last verified condition of
\* the surface holds or, if there is none, every field that was extracted is seen.
Checkpoint ==
  LET verified == FlattenSeq([i \in DOMAIN recordings |->
                    SelectSeq(recordings[i].verified, IsSurface)])
      fields == {recordings[i].op.on : i \in {j \in DOMAIN recordings :
                                                recordings[j].op.kind = "extract"}}
  IN IF verified # <<>> THEN Last(verified).shows
     ELSE {shown \in UNION fields : \A field \in fields : shown \in field}

\* compile_with_spec: a trace of allowed actions on allowed routes that extracts
\* what the contract requires and ends in a state that can be told.
Compiles ==
  /\ recordings # <<>>
  /\ Required \subseteq Extracted
  /\ Checkpoint # {}
  /\ \A i \in DOMAIN recordings :
       /\ RISK_RANK[recordings[i].risk] <= RISK_RANK[policy.ceiling]
       /\ recordings[i].op.kind \in policy.actions
       /\ recordings[i].onRoute
  /\ LocationAllowed(policy, previous)

Completes ==
  /\ scenario # None => branch # None
  /\ scenario = "recovery" => Restored /\ RejoinReady
  /\ Compiles
  /\ screen \in Checkpoint /\ screen = previous
  /\ Required \subseteq outputs

Complete ==
  /\ pc = "completing" /\ Completes
  /\ End("success")
  /\ UNCHANGED <<scenario, screen, counters, step, calls, proposal, trace, continuation, history>>

Incomplete ==
  /\ pc = "completing" /\ ~Completes
  /\ ~(scenario = "recovery" /\ branch # None /\ ~(Restored /\ RejoinReady))
  /\ Fail

------------------------------------------------------------------------------

Next ==
  \/ Open \/ Plan \/ Look \/ StepsExhausted \/ CallsExhausted \/ FailCall
  \/ Escalate \/ ClaimCompletion
  \/ \E op \in Proposable, expects \in Expectations \cup {None}, confident \in BOOLEAN :
       Propose(op, expects, confident, FALSE)
  \/ \E condition \in Conditions : MarkBranch(condition)
  \/ Reject \/ Deny \/ Dispatch \/ Verify \/ Unverified \/ Record \/ Interrupt
  \/ Pause \/ PauseUnrecorded \/ Resume \/ Continue \/ Cancel
  \/ RejectCompletion \/ Complete \/ Incomplete
  \/ Abort \/ ScreenChanges

Spec == Init /\ [][Next]_vars

------------------------------------------------------------------------------
(* Properties *)

Verified == Seq(Conditions \cup Expectations)
Proposals == [op : Proposable, marks : BOOLEAN, verified : Verified, pending : Verified]
Recordings == [op : Proposable, risk : Risks, onRoute : BOOLEAN, verified : Verified]

TypeOK ==
  /\ pc \in {"opening", "planning", "looking", "deciding", "acting", "verifying", "completing",
             "pausing", "paused", "resuming", "over"}
  /\ scenario \in {None, "outcome", "recovery"}
  /\ screen \in Screens /\ session \in {"none", "open", "closed"}
  /\ {previous, continuation} \subseteq Screens \cup {None}
  /\ result \in {None, "success", "failure", "raised"}
  /\ repeatedState \in 0 .. MaxRepeatedState /\ repeatedAction \in 0 .. MaxRepeatedAction
  /\ step \in 0 .. MaxSteps /\ calls \in 0 .. MaxCalls
  /\ proposal \in Proposals \cup {None}
  /\ recordings \in Seq(Recordings) /\ Len(recordings) <= step
  /\ branch \in [after : Nat, condition : Conditions] \cup {None}
  /\ outputs \subseteq Outputs
  /\ tried \in Seq(Proposable) /\ done \in Seq(Proposable)

\* What was done to the surface since a human last had it is exactly the end of
\* the recorded trace whenever the loop decides on, and in every artifact: an
\* action with an effect is recorded, or the run ends, or a human takes over
\* (_act, the except clauses of _run, handoff).
TraceIsWhole ==
  pc \in {"looking", "deciding", "completing"} \/ result = "success" =>
    LET n == Len(done)
    IN /\ n <= Len(recordings)
       /\ \A i \in 1 .. n : recordings[Len(recordings) - n + i].op = done[i]

\* The outputs of a success were read after the last time a human could have
\* changed what they were read from (handoff's outputs.clear, _complete).
OutputsAreFresh ==
  result = "success" =>
    /\ Required \subseteq outputs
    /\ \A output \in outputs :
         \E i \in DOMAIN done : done[i].kind = "extract" /\ done[i].output = output

\* A scenario's success is one that _merge_scenarios accepts as a branch: its
\* marker is an executed assertion behind an executed prefix, a terminal scenario
\* stops there, and a recovery verified another state of the surface after it.
ScenarioIsBranch ==
  result = "success" /\ scenario # None =>
    /\ branch # None /\ branch.after > 0
    /\ branch.after < Len(recordings)
    /\ recordings[branch.after + 1].op = Assertion(branch.condition)
    /\ branch.condition \in Range(recordings[branch.after + 1].verified)
    /\ scenario # "recovery" => Len(recordings) = branch.after + 1
    /\ scenario = "recovery" =>
         \E i \in branch.after + 2 .. Len(recordings) :
           \E condition \in Range(recordings[i].verified) \ {branch.condition} :
             IsSurface(condition)

\* However often a human takes over, the budgets of steps and of model calls are
\* those of one run, and no operation is tried more than MaxRepeatedAction times in
\* a row, rejections included (the repeated_action guard, _calls_made).
EffortIsBounded ==
  /\ TypeOK
  /\ calls <= MaxSteps + 1
  /\ \A i \in 1 .. Len(tried) - MaxRepeatedAction :
       \E j \in i + 1 .. i + MaxRepeatedAction : tried[j] # tried[i]

\* A suspended run keeps its browser and the pause that resumes it; a run that is
\* over has no browser, whatever went wrong (_advance, the finally clause of _run).
SessionFollowsRun ==
  /\ pc = "paused" => session = "open" /\ continuation # None /\ result = None
  /\ (pc = "over") = (result # None)
  /\ result # None => session # "open"

\* Everything done to the surface was allowed, by itself and at the risk that the
\* runtime gave it, by every layer of the policy, and none was sensitive
\* (EffectivePolicy.intersect, PolicyEvaluator.evaluate, _act).
WithinEveryLayer ==
  \A i \in DOMAIN done : \A layer \in Layers :
    /\ done[i].kind \in layer.actions
    /\ done[i].field \notin layer.forbidden
    /\ LET risk == EffectiveRisk([Context(done[i]) EXCEPT !.route = None])
       IN RISK_RANK[risk] <= RISK_RANK[layer.ceiling] /\ RISK_RANK[risk] < RISK_RANK["sensitive"]
==============================================================================
