---------------------------- MODULE ReplayEngine ----------------------------
(***************************************************************************)
(* How replay/engine.py executes one artifact: its steps in order, the     *)
(* retries of a step, the declared recoveries that send it back (or ahead) *)
(* to a named step, the pause for a human, and the resumption that either  *)
(* retries the interrupted step or accepts its effect and goes on.         *)
(*                                                                         *)
(* The page is the environment: a condition may hold, fail to hold or      *)
(* raise at each evaluation, whatever it did at the one before.  Of the    *)
(* control protocol only the lease as its engine meets it is left; what    *)
(* operators do during a pause is SessionHandoff's and Interventions'.     *)
(***************************************************************************)
EXTENDS Integers, FiniteSets

CONSTANTS
  Main,          \* the block of the artifact's own steps
  Recoveries,    \* its recoveries: each is a block of corrective steps
  Length,        \* the number of steps of every block
  Kind,          \* per step: "act" dispatches, "extract" reads, "check" only looks
  Guarded,       \* steps with an identity postcondition
  Declared,      \* steps with another postcondition
  MaxAttempts,   \* per step
  Refs,          \* per main step: the recoveries it may enter
  ResumeAt,      \* per recovery: the main step it resumes at
  MaxUses,       \* per recovery
  Needs,         \* per main step: the outputs its resume conditions read
  Required,      \* outputs that the artifact's contract demands
  MaxVersion,    \* bound: no resumption once the lease has reached this version
  None           \* no continuation

Blocks == {Main} \cup Recoveries
Positions == UNION {{b} \X (1..Length[b]) : b \in Blocks}
MainSteps == 1..Length[Main]

\* The output a step extracts is named after the step.
Outputs == {p \in Positions : Kind[p] = "extract"}

ASSUME LengthAssumption == Main \notin Recoveries /\ Length \in [Blocks -> Nat \ {0}]
ASSUME StepsAssumption ==
  /\ Kind \in [Positions -> {"act", "extract", "check"}]
  /\ Guarded \subseteq Positions /\ Declared \subseteq Positions
  /\ MaxAttempts \in [Positions -> 1..5]
  /\ Required \subseteq Outputs
ASSUME RecoveriesAssumption ==
  /\ Refs \in [MainSteps -> SUBSET Recoveries]
  /\ ResumeAt \in [Recoveries -> MainSteps]
  /\ MaxUses \in [Recoveries -> 1..3]
ASSUME NeedsAssumption ==
  Needs \in [MainSteps -> SUBSET Outputs]

\* The interrupted step, whether it is retried, and the attempt it has come to.
Continuations == [at : MainSteps, retry : BOOLEAN, attempt : 1..5]
ASSUME NoneAssumption == None \notin Continuations

VARIABLES
  pc,          \* where the engine is
  attended,    \* request.allow_intervention
  at,          \* the main step, also while a recovery runs
  block,       \* the block of the step in execution
  index,       \* and its place there
  attempt,     \* of that step
  dispatched,  \* in this attempt
  error,       \* the SurfaceError that is being handled
  lease,       \* owner and version
  carried,     \* the version the engine acts under
  expired,     \* whether the lease has expired
  session,     \* the browser session
  outputs,     \* the outputs extracted so far
  uses,        \* recovery_uses
  retained,    \* the latest continuation: interrupted step, retry_step, retry_attempt
  result,      \* the status returned, with what the page showed
  effect,      \* history: actions that may have had an effect no repair has undone
  fresh,       \* history: outputs extracted since a human last had control
  owed,        \* history: main steps that are still to be executed
  verified     \* history: the record selected by this step was the right one

place == <<at, block, index, attempt>>
control == <<lease, carried, expired>>
history == <<effect, fresh, owed, verified>>
vars == <<pc, attended, place, dispatched, error, control, session, outputs,
          uses, retained, result, history>>

Here == <<block, index>>
InMain == block = Main

(***************************************************************************)
(* What matters of a SurfaceError: whether the step may be retried, that   *)
(* is, whether it is recoverable, proves that the attempt had no effect    *)
(* and is named in retry_on; and whether a human could help.  An error of  *)
(* a condition or an observation is neither.                               *)
(***************************************************************************)
Errors == [retry : BOOLEAN, eligible : BOOLEAN]
Terminal == [retry |-> FALSE, eligible |-> FALSE]

InStep == {"prepare", "act", "identity", "outcome", "recovery", "effects",
           "mismatch", "error", "advance"}
Running == InStep \cup {"begin", "checkpoint"}

MayAct == lease.owner = "automation" /\ lease.version = carried /\ ~expired

Renew(n) ==
  /\ MayAct
  /\ lease' = [lease EXCEPT !.version = @ + n]
  /\ carried' = lease.version + n
  /\ UNCHANGED expired

Go(where) == pc' = where /\ UNCHANGED <<session, result>>

\* A result that is not a pause; the engine's finally clause closes the browser.
Finish(status, shown) ==
  /\ pc' = "done"
  /\ result' = [status |-> status, shown |-> shown]
  /\ session' = IF session = "open" THEN "closed" ELSE session

Fail == Finish("failure", {})

Init ==
  /\ pc = "fresh"
  /\ attended \in BOOLEAN
  /\ at = 1 /\ block = Main /\ index = 1 /\ attempt = 1
  /\ dispatched = FALSE
  /\ error = Terminal
  /\ lease = [owner |-> "none", version |-> 0] /\ carried = 0 /\ expired = FALSE
  /\ session = "none"
  /\ outputs = {} /\ uses = [r \in Recoveries |-> 0] /\ retained = None
  /\ result = [status |-> "none", shown |-> {}]
  /\ effect = {} /\ fresh = {} /\ owed = MainSteps /\ verified = FALSE

------------------------------------------------------------------------------
(* execute: admission, the session, the artifact's preconditions *)

Refuse ==
  /\ pc = "fresh"
  /\ Fail
  /\ UNCHANGED <<attended, place, dispatched, error, control, outputs, uses, retained, history>>

Open ==
  /\ pc = "fresh"
  /\ pc' = "begin"
  /\ session' = "open"
  /\ lease' = [owner |-> "automation", version |-> 1]
  /\ carried' = 1
  /\ UNCHANGED <<attended, place, dispatched, error, expired, outputs, uses, retained,
                 result, history>>

Begin ==
  /\ pc = "begin"
  /\ Go("prepare") \/ Fail
  /\ UNCHANGED <<attended, place, dispatched, error, control, outputs, uses, retained, history>>

------------------------------------------------------------------------------
(***************************************************************************)
(* _intervene: the router pauses the lease at the version the engine       *)
(* carries; then the pause point is kept for _retain_continuation.  An     *)
(* unattended request fails instead.                                       *)
(***************************************************************************)
Pause(retryStep, spent) ==
  IF attended
    THEN /\ MayAct
         /\ lease' = [owner |-> "automation_paused", version |-> lease.version + 1]
         /\ retained' = [at |-> at, retry |-> retryStep, attempt |-> spent]
         /\ Go("retain")
         /\ UNCHANGED <<carried, expired>>
    ELSE /\ Fail
         /\ UNCHANGED <<control, retained>>

\* _surface_failure: policy and page are consulted again before the pause.
SurfaceFailure(eligible, retryStep) ==
  \/ Fail /\ UNCHANGED <<control, retained>>
  \/ eligible /\ InMain /\ Pause(retryStep, attempt)

Raise(e) == error' = e /\ Go("error")

(***************************************************************************)
(* The step up to its action: ownership, preconditions, observation,       *)
(* target, policy.                                                         *)
(***************************************************************************)
Prepare ==
  /\ pc = "prepare"
  /\ MayAct
  /\ dispatched' = FALSE
  /\ verified' = FALSE
  /\ \/ Go("act") /\ UNCHANGED <<error, control, retained>>
     \/ Fail /\ UNCHANGED <<error, control, retained>>
     \/ \E e \in Errors : Raise(e) /\ UNCHANGED <<control, retained>>
     \/ /\ InMain \* a sensitive action; inside a recovery it fails
        /\ Pause(FALSE, 1)
        /\ UNCHANGED error
  /\ UNCHANGED <<attended, place, outputs, uses, effect, fresh, owed>>

\* Mutant: outcomes are looked for before the record is identified.
DispatchUnverified ==
  /\ pc = "act" /\ Kind[Here] = "act"
  /\ dispatched' = TRUE
  /\ Go("outcome")
  /\ effect' = effect \cup {Here}
  /\ UNCHANGED <<attended, place, error, control, outputs, uses, retained, fresh, owed,
                 verified>>

\* Only an error that proves the effect absent leaves the page untouched.
Dispatch ==
  /\ pc = "act" /\ Kind[Here] = "act"
  /\ dispatched' = TRUE
  /\ \/ Go("identity") /\ effect' = effect \cup {Here} /\ UNCHANGED error
     \/ \E e \in Errors :
          /\ Raise(e)
          /\ effect' = IF e.retry THEN effect ELSE effect \cup {Here}
  /\ UNCHANGED <<attended, place, control, outputs, uses, retained, fresh, owed, verified>>

Extract ==
  /\ pc = "act" /\ Kind[Here] = "extract"
  /\ \/ /\ Go("identity")
        /\ outputs' = outputs \cup {Here}
        /\ fresh' = fresh \cup {Here}
        /\ UNCHANGED error
     \/ \E e \in Errors : Raise(e) /\ UNCHANGED <<outputs, fresh>>
  /\ UNCHANGED <<attended, place, dispatched, control, uses, retained, effect, owed, verified>>

Check ==
  /\ pc = "act" /\ Kind[Here] = "check"
  /\ \/ Go("identity") /\ UNCHANGED error
     \/ Raise(Terminal)
  /\ UNCHANGED <<attended, place, dispatched, control, outputs, uses, retained, history>>

------------------------------------------------------------------------------
(* After the action: identity, outcome or failure, recovery, effects. *)

Identity ==
  /\ pc = "identity"
  /\ \/ Go("outcome") /\ verified' = TRUE
     \/ Here \in Guarded /\ Fail /\ UNCHANGED verified
  /\ UNCHANGED <<attended, place, dispatched, error, control, outputs, uses, retained,
                 effect, fresh, owed>>

Signs == {"outcome", "failure"}

Outcome ==
  /\ pc = "outcome"
  /\ \/ \E shown \in SUBSET Signs :
          /\ IF "outcome" \in shown THEN Finish("business_outcome", shown)
             ELSE IF "failure" \in shown THEN Fail
             ELSE Go("recovery")
          /\ UNCHANGED error
     \/ Raise(Terminal)
  /\ UNCHANGED <<attended, place, dispatched, control, outputs, uses, retained, history>>

\* One more use of a recovery, unless it is exhausted.
Enter(r) ==
  IF uses[r] >= MaxUses[r]
    THEN Fail /\ UNCHANGED <<place, uses, control, effect>>
    ELSE /\ uses' = [uses EXCEPT ![r] = @ + 1]
         /\ block' = r /\ index' = 1 /\ attempt' = 1
         /\ effect' = {p \in effect : p[1] # r}
         /\ Renew(1)
         /\ Go("prepare")
         /\ UNCHANGED at

\* _attempt_recovery, never inside a recovery: exactly one trigger may match.
Triggered == IF InMain THEN Refs[at] ELSE {}

Recovery ==
  /\ pc = "recovery"
  /\ \/ /\ Go("effects")
        /\ UNCHANGED <<place, error, control, uses, effect>>
     \/ \E r \in Triggered : Enter(r) /\ UNCHANGED error
     \/ InMain /\ Raise(Terminal) /\ UNCHANGED <<place, control, uses, effect>>
  /\ UNCHANGED <<attended, dispatched, outputs, retained, fresh, owed, verified>>

\* The other postconditions; an outcome may appear after any of them.
Effects ==
  /\ pc = "effects"
  /\ \/ Go("advance") /\ UNCHANGED error
     \/ Here \in Declared /\ Go("mismatch") /\ UNCHANGED error
     \/ /\ Here \in Declared
        /\ \E other \in SUBSET {"failure"} :
             Finish("business_outcome", {"outcome"} \cup other)
        /\ UNCHANGED error
     \/ Here \in Declared /\ Raise(Terminal)
  /\ UNCHANGED <<attended, place, dispatched, control, outputs, uses, retained, history>>

\* A declared effect was not observed: outcome, recovery, failure, in this order.
Mismatch ==
  /\ pc = "mismatch"
  /\ \/ /\ \E other \in SUBSET {"failure"} :
             Finish("business_outcome", {"outcome"} \cup other)
        /\ UNCHANGED <<place, error, control, uses, retained, effect>>
     \/ \E r \in Triggered : Enter(r) /\ UNCHANGED <<error, retained>>
     \/ SurfaceFailure(dispatched, FALSE) /\ UNCHANGED <<place, error, uses, effect>>
     \/ Raise(Terminal) /\ UNCHANGED <<place, control, uses, retained, effect>>
  /\ UNCHANGED <<attended, dispatched, outputs, fresh, owed, verified>>

------------------------------------------------------------------------------
(***************************************************************************)
(* except SurfaceError: retry, recover, pause or fail.  An error raised    *)
(* while the recoveries are tried is not handled again.                    *)
(***************************************************************************)
CanRetry == error.retry /\ attempt < MaxAttempts[Here]

\* Mutant: the retry is not counted.
RetryUncounted ==
  /\ pc = "error"
  /\ CanRetry
  /\ Go("prepare")
  /\ UNCHANGED <<attended, place, dispatched, error, control, outputs, uses, retained,
                 history>>

Retry ==
  /\ pc = "error"
  /\ CanRetry
  /\ attempt' = attempt + 1
  /\ Go("prepare")
  /\ UNCHANGED <<attended, at, block, index, dispatched, error, control, outputs, uses,
                 retained, history>>

\* Mutant: a pause always lets the interrupted step be retried.
HandleErrorRetrying ==
  /\ pc = "error"
  /\ ~CanRetry
  /\ SurfaceFailure(error.eligible, TRUE)
  /\ UNCHANGED <<attended, place, dispatched, error, outputs, uses, history>>

HandleError ==
  /\ pc = "error"
  /\ ~CanRetry
  /\ \/ \E r \in Triggered : Enter(r) /\ UNCHANGED retained
     \/ SurfaceFailure(error.eligible, ~dispatched) /\ UNCHANGED <<place, uses, effect>>
  /\ UNCHANGED <<attended, dispatched, error, outputs, fresh, owed, verified>>

------------------------------------------------------------------------------
(* The step is done: renew the lease, then the next step or the way back. *)

AttemptAt(i) ==
  IF retained # None /\ retained.at = i THEN retained.attempt ELSE 1

GoTo(i) ==
  /\ at' = i /\ block' = Main /\ index' = i /\ attempt' = AttemptAt(i)
  /\ Go(IF i \in MainSteps THEN "prepare" ELSE "checkpoint")

NextStep ==
  /\ pc = "advance" /\ InMain
  /\ Renew(1)
  /\ owed' = owed \ {at}
  /\ GoTo(at + 1)
  /\ UNCHANGED <<attended, dispatched, error, outputs, uses, retained, effect, fresh, verified>>

NextRepairStep ==
  /\ pc = "advance" /\ ~InMain
  /\ index < Length[block]
  /\ Renew(1)
  /\ index' = index + 1 /\ attempt' = 1
  /\ Go("prepare")
  /\ UNCHANGED <<attended, at, block, dispatched, error, outputs, uses, retained, history>>

\* Mutant: the caller's version is kept over the recovery.
ReturnStale ==
  /\ pc = "advance" /\ ~InMain
  /\ index = Length[block]
  /\ MayAct
  /\ lease' = [lease EXCEPT !.version = @ + 2]
  /\ GoTo(ResumeAt[block])
  /\ owed' = ResumeAt[block]..Length[Main]
  /\ effect' = {p \in effect : p[1] # Main \/ p[2] < ResumeAt[block]}
  /\ UNCHANGED <<attended, dispatched, error, carried, expired, outputs, uses, retained,
                 fresh, verified>>

(***************************************************************************)
(* RecoveryResume: renewed after its last step and again by the main loop. *)
(* The artifact says from where its steps are to be executed (again).      *)
(***************************************************************************)
Return ==
  /\ pc = "advance" /\ ~InMain
  /\ index = Length[block]
  /\ Renew(2)
  /\ GoTo(ResumeAt[block])
  /\ owed' = ResumeAt[block]..Length[Main]
  /\ effect' = {p \in effect : p[1] # Main \/ p[2] < ResumeAt[block]}
  /\ UNCHANGED <<attended, dispatched, error, outputs, uses, retained, fresh, verified>>

Complete ==
  /\ pc = "checkpoint"
  /\ \/ Required \subseteq outputs /\ Finish("success", {})
     \/ Fail
  /\ UNCHANGED <<attended, place, dispatched, error, control, outputs, uses, retained, history>>

------------------------------------------------------------------------------
(* The pause *)

\* Mutant: the browser of a failed pause stays open.
RetainOrLeak ==
  /\ pc = "retain"
  /\ fresh' = {}
  /\ \/ Go("paused")
     \/ /\ pc' = "done"
        /\ result' = [status |-> "failure", shown |-> {}]
        /\ UNCHANGED session
  /\ UNCHANGED <<attended, place, dispatched, error, control, outputs, uses, retained,
                 effect, owed, verified>>

\* _retain_continuation observes the page; a human may have control from here on.
Retain ==
  /\ pc = "retain"
  /\ fresh' = {}
  /\ Go("paused") \/ Fail
  /\ UNCHANGED <<attended, place, dispatched, error, control, outputs, uses, retained,
                 effect, owed, verified>>

(***************************************************************************)
(* validate_resume rejects: before the outputs were cleared, or after some *)
(* were read again.  The human goes on working.                            *)
(***************************************************************************)
RejectResume ==
  /\ pc = "paused"
  /\ \E got \in {outputs} \cup SUBSET Needs[retained.at] : outputs' = got
  /\ UNCHANGED <<pc, attended, place, dispatched, error, control, session, uses, retained,
                 result, history>>

\* Outputs can be read again only by steps up to the interrupted one.
Readable(i) == {p \in Outputs : p[1] = Main /\ p[2] <= i}

\* validate_resume and complete_resume succeed: current operands, a new lease.
Accepted(cached) ==
  /\ pc = "paused"
  /\ lease.version < MaxVersion
  /\ Needs[retained.at] \subseteq Readable(retained.at)
  /\ outputs' = cached \cup Needs[retained.at]
  /\ fresh' = Needs[retained.at]
  /\ lease' = [owner |-> "automation", version |-> lease.version + 1]
  /\ carried' = lease.version + 1
  /\ expired' = FALSE
  /\ UNCHANGED <<attended, dispatched, error, uses, retained>>

\* Mutant: the run goes on after the interrupted step in either case.
ResumeStepSkipping ==
  /\ Accepted({})
  /\ retained.retry
  /\ GoTo(retained.at + 1)
  /\ UNCHANGED <<effect, owed, verified>>

\* The interrupted step was not dispatched: execute it, with its attempts spent.
ResumeStep ==
  /\ Accepted({})
  /\ retained.retry
  /\ GoTo(retained.at)
  /\ UNCHANGED <<effect, owed, verified>>

\* Mutant: the cached outputs outlive the human's control.
ResumeAfterCached ==
  /\ Accepted(outputs)
  /\ ~retained.retry
  /\ <<Main, retained.at>> \in Guarded \cup Declared
  /\ GoTo(retained.at + 1)
  /\ owed' = owed \ {retained.at}
  /\ verified' = TRUE
  /\ UNCHANGED effect

\* Its declared effect and the identity of its record were verified: go on after it.
ResumeAfter ==
  /\ Accepted({})
  /\ ~retained.retry
  /\ <<Main, retained.at>> \in Guarded \cup Declared
  /\ GoTo(retained.at + 1)
  /\ owed' = owed \ {retained.at}
  /\ verified' = TRUE
  /\ UNCHANGED effect

\* The identity was verified, and the page shows a declared outcome.
ResumeWithOutcome ==
  /\ Accepted({})
  /\ ~retained.retry
  /\ \E other \in SUBSET {"failure"} : Finish("business_outcome", {"outcome"} \cup other)
  /\ verified' = TRUE
  /\ UNCHANGED <<place, effect, owed>>

------------------------------------------------------------------------------
(***************************************************************************)
(* Time passes in a step.  Whatever is not a SurfaceError ends the engine: *)
(* a lease that is no longer its own or has expired, a journal that cannot *)
(* be written.  The browser is closed, except between the pause and its    *)
(* continuation, where the caller must do it.                              *)
(***************************************************************************)
Expire ==
  /\ pc \in Running
  /\ expired' = TRUE
  /\ UNCHANGED <<pc, attended, place, dispatched, error, lease, carried, session, outputs,
                 uses, retained, result, history>>

Crash ==
  /\ pc \in Running \cup {"retain"}
  /\ pc' = "raised"
  /\ session' = IF pc = "retain" THEN session ELSE "closed"
  /\ UNCHANGED <<attended, place, dispatched, error, control, outputs, uses, retained,
                 result, history>>

Engine ==
  \/ Begin \/ Prepare \/ Dispatch \/ Extract \/ Check
  \/ Identity \/ Outcome \/ Recovery \/ Effects \/ Mismatch
  \/ Retry \/ HandleError
  \/ NextStep \/ NextRepairStep \/ Return \/ Complete
  \/ Retain \/ Crash

Environment ==
  \/ Refuse \/ Open \/ Expire
  \/ RejectResume \/ ResumeStep \/ ResumeAfter \/ ResumeWithOutcome

Next == Engine \/ Environment
Spec == Init /\ [][Next]_vars

(***************************************************************************)
(* Every operation of the surface has its own timeout, so the engine's     *)
(* thread goes on; nobody has to start, stop or resume a run.              *)
(***************************************************************************)
FairSpec == Spec /\ WF_vars(Engine)

------------------------------------------------------------------------------
(* Properties *)

StepOK ==
  pc \in InStep => /\ at \in MainSteps
                  /\ Here \in Positions
                  /\ attempt \in 1..MaxAttempts[Here]

\* The engine's registers have the values the code gives them; no step is
\* attempted more often than the artifact allows, across pauses as well.
TypeOK ==
  /\ pc \in Running \cup {"fresh", "retain", "paused", "done", "raised"}
  /\ attended \in BOOLEAN /\ dispatched \in BOOLEAN /\ expired \in BOOLEAN
  /\ verified \in BOOLEAN
  /\ at \in Nat \ {0} /\ block \in Blocks /\ index \in Nat \ {0}
  /\ StepOK
  /\ error \in Errors
  /\ lease \in [owner : {"none", "automation", "automation_paused"}, version : Nat]
  /\ carried \in Nat
  /\ session \in {"none", "open", "closed"}
  /\ outputs \subseteq Outputs /\ fresh \subseteq Outputs
  /\ uses \in [Recoveries -> 0..3]
  /\ retained \in {None} \cup Continuations
  /\ result \in [status : {"none", "failure", "business_outcome", "success"},
                 shown : SUBSET Signs]
  /\ effect \subseteq Positions /\ owed \subseteq MainSteps

\* Whenever the engine goes on, after a step, a recovery or a pause, it holds the
\* lease under its current version: only expiry can take its authority away.
HoldsCurrentLease ==
  pc \in Running => lease = [owner |-> "automation", version |-> carried]

\* An action is never dispatched again while an earlier dispatch of it may have
\* had an effect, unless a recovery of the artifact has sent the run back to it.
NoBlindRepeat ==
  pc = "act" /\ Kind[Here] = "act" => Here \notin effect

\* The engine never computes with an output that was read before a human had
\* control of the page.
OutputsAreFresh ==
  pc \in Running => outputs \subseteq fresh

\* A successful run has executed every step, or had its effect verified after a
\* pause, or left it out by a recovery's declaration; what it returns is current.
SuccessIsEarned ==
  result.status = "success" => owed = {} /\ Required \subseteq outputs \cap fresh

\* A negative result is reported only once the selected record's identity has been
\* verified at that step.
OutcomeOnRightRecord ==
  result.status = "business_outcome" => verified

\* A pause keeps the browser and leaves the lease to the operators; every other
\* end leaves no browser behind, but for an exception between pause and continuation.
BrowserFollowsRun ==
  /\ pc = "paused" => session = "open" /\ lease.owner = "automation_paused"
  /\ pc = "done" => session # "open"
  /\ pc = "raised" /\ session = "open" => lease.owner = "automation_paused"

\* Automation ends by itself, in a pause or in a result: retries, recoveries and
\* the steps they send the run back to are bounded.
AutomationEnds ==
  pc \in Running ~> pc \in {"paused", "done", "raised"}

\* A declared failure that the page shows takes precedence over an outcome.
FailureBeforeOutcome ==
  result.status = "business_outcome" => "failure" \notin result.shown
=============================================================================
