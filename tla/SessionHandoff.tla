--------------------------- MODULE SessionHandoff ---------------------------
(***************************************************************************)
(* How runtime/composition.py hands one live browser between an automated  *)
(* run and human operators.  Three kinds of thread meet: the caller that   *)
(* executes a run, the threads that serve operator requests, and the one   *)
(* that shuts the runtime down.  They share the registries of live         *)
(* sessions, replay continuations and discovery waits under one lock, and  *)
(* reach a browser only through its SessionWorker.                         *)
(*                                                                         *)
(* The coordinator's own operations are atomic here: Interventions shows   *)
(* that they behave so.  Operator identity is left to it as well; what     *)
(* remains of a lease is whether it has expired.  Runs are launched        *)
(* through the execution viewer, and the server has answered its requests  *)
(* before it closes the runtime (main.py, with uvicorn's shutdown order).  *)
(***************************************************************************)
EXTENDS Integers, FiniteSets

CONSTANTS
  Replays, Discoveries,  \* runs of either kind
  Requests,              \* threads that serve operator requests
  MaxPauses,             \* bound: no run opens more interventions
  MaxRuns,               \* bound: runs that are executed
  None                   \* no request, no holder of the lock

ASSUME MaxPausesAssumption == MaxPauses \in Nat
ASSUME MaxRunsAssumption == MaxRuns \in Nat
ASSUME KindsAssumption == Replays \cap Discoveries = {} /\ None \notin Requests

Runs == Replays \cup Discoveries
Ids == Runs \X (1..MaxPauses)
Run(i) == i[1]

\* The operations of a request that take more than one step, with the intervention.
Stages == {"touch", "validate", "reopen", "complete", "signal", "resume",
           "running", "cancel", "await", "close"}
Operations == [stage : Stages, id : Ids]

ASSUME OperationsAssumption == None \notin Operations

VARIABLES
  server,         \* how far the runtime's shutdown has come
  caller,         \* per run: where the thread that executes it is
  worker,         \* per run: what its session worker does
  status,         \* the coordinator's status of every intervention
  expired,        \* per run: whether the lease of its session has expired
  live,           \* live_sessions
  continuations,  \* replay_continuations
  waits,          \* discovery_waits
  signal,         \* per run: its ManagedDiscoveryWait as the caller sees it
  corrected,      \* live sessions that have dispatched a human input
  holder,         \* the request that keeps the runtime lock over a browser call
  request         \* per request thread: the operation it is in the middle of

registries == <<live, continuations, waits, corrected>>
vars == <<server, caller, worker, status, expired, live, continuations, waits,
          signal, corrected, holder, request>>

Active == {"open", "claimed", "resuming"}
Free == holder = None

Pauses(r) == Cardinality({n \in 1..MaxPauses : status[<<r, n>>] # "unrouted"})
Latest(r) == <<r, Pauses(r)>>

\* A request thread moves on to a stage of its operation, or is done with it.
At(q, stage) == request[q] # None /\ request[q].stage = stage
Go(q, stage, i) == request' = [request EXCEPT ![q] = [stage |-> stage, id |-> i]]
Done(q) == request' = [request EXCEPT ![q] = None]

Init ==
  /\ server = "up"
  /\ caller = [r \in Runs |-> "fresh"]
  /\ worker = [r \in Runs |-> "none"]
  /\ status = [i \in Ids |-> "unrouted"]
  /\ expired = [r \in Runs |-> FALSE]
  /\ live = {} /\ continuations = {} /\ waits = {} /\ corrected = {}
  /\ signal = [r \in Runs |-> "none"]
  /\ holder = None
  /\ request = [q \in Requests |-> None]

------------------------------------------------------------------------------
(***************************************************************************)
(* The worker's engine job, started by the caller or by the request that   *)
(* resumes a replay.  A pause opens the intervention at once, under the    *)
(* coordinator's own lock and not the runtime's.  Still on the worker, the *)
(* pause is recorded in the journal; a replay then observes the page and   *)
(* stores its continuation.                                                *)
(***************************************************************************)
RunEnds(r) ==
  /\ worker[r] = "run"
  /\ worker' = [worker EXCEPT ![r] = "ended"]
  /\ UNCHANGED <<server, caller, status, expired, registries, signal, holder, request>>

RunPauses(r) ==
  /\ worker[r] = "run"
  /\ Pauses(r) < MaxPauses
  /\ status' = [status EXCEPT ![<<r, Pauses(r) + 1>>] = "open"]
  /\ expired' = [expired EXCEPT ![r] = FALSE]
  /\ worker' = [worker EXCEPT ![r] = "opened"]
  /\ UNCHANGED <<server, caller, registries, signal, holder, request>>

PauseRecorded(r) ==
  /\ worker[r] = "opened"
  /\ worker' = [worker EXCEPT ![r] = IF r \in Replays THEN "retain" ELSE "paused"]
  /\ UNCHANGED <<server, caller, status, expired, registries, signal, holder, request>>

\* The journal or the observation raises: the run fails, its pause stays open.
PauseFails(r) ==
  /\ worker[r] = "opened"
  /\ worker' = [worker EXCEPT ![r] = "ended"]
  /\ UNCHANGED <<server, caller, status, expired, registries, signal, holder, request>>

RetainContinuation(r) ==
  /\ worker[r] = "retain"
  /\ Free
  /\ continuations' = continuations \cup {Latest(r)}
  /\ worker' = [worker EXCEPT ![r] = "paused"]
  /\ UNCHANGED <<server, caller, status, expired, live, waits, signal, corrected,
                 holder, request>>

------------------------------------------------------------------------------
(* The caller: ManagedReplayExecutor and ManagedDiscoveryExecutor *)

CallerExecutes(r) ==
  /\ caller[r] = "fresh"
  /\ Cardinality({x \in Runs : caller[x] # "fresh"}) < MaxRuns
  /\ server = "up"
  /\ worker' = [worker EXCEPT ![r] = "run"]
  /\ caller' = [caller EXCEPT ![r] = "executing"]
  /\ UNCHANGED <<server, status, expired, registries, signal, holder, request>>

ReplayRegisters(r) ==
  /\ r \in Replays
  /\ caller[r] = "executing"
  /\ worker[r] = "paused"
  /\ Free
  /\ live' = live \cup {Latest(r)}
  /\ worker' = [worker EXCEPT ![r] = "idle"]
  /\ caller' = [caller EXCEPT ![r] = "returned"]
  /\ UNCHANGED <<server, status, expired, continuations, waits, signal, corrected,
                 holder, request>>

DiscoveryWaits(r) ==
  /\ r \in Discoveries
  /\ caller[r] = "executing"
  /\ worker[r] = "paused"
  /\ Free
  /\ live' = live \cup {Latest(r)}
  /\ waits' = waits \cup {Latest(r)}
  /\ signal' = [signal EXCEPT ![r] = IF server = "up" THEN "unset" ELSE "cancel"]
  /\ worker' = [worker EXCEPT ![r] = "idle"]
  /\ caller' = [caller EXCEPT ![r] = "waiting"]
  /\ UNCHANGED <<server, status, expired, continuations, corrected, holder, request>>

\* The caller wakes, unregisters, and has the worker resume or cancel the loop.
DiscoveryWakes(r) ==
  /\ caller[r] = "waiting"
  /\ signal[r] # "unset"
  /\ Free
  /\ worker[r] = "idle"
  /\ waits' = waits \ {Latest(r)}
  /\ live' = live \ {Latest(r)}
  /\ worker' = [worker EXCEPT ![r] = IF signal[r] = "resume" THEN "run" ELSE "ended"]
  /\ signal' = [signal EXCEPT ![r] = "none"]
  /\ caller' = [caller EXCEPT ![r] = "executing"]
  /\ UNCHANGED <<server, status, expired, continuations, corrected, holder, request>>

\* The run ended on this thread: close the browser and return.
CallerReturns(r) ==
  /\ caller[r] = "executing"
  /\ worker[r] = "ended"
  /\ worker' = [worker EXCEPT ![r] = "closed"]
  /\ caller' = [caller EXCEPT ![r] = "returned"]
  /\ UNCHANGED <<server, status, expired, registries, signal, holder, request>>

------------------------------------------------------------------------------
(***************************************************************************)
(* Operator requests whose whole effect lies in one hold of the lock.      *)
(***************************************************************************)
Begin(q) == server = "up" /\ request[q] = None /\ Free
Held(i) == status[i] = "claimed" /\ ~expired[Run(i)]

Transition(i, to) ==
  /\ status' = [status EXCEPT ![i] = to]
  /\ expired' = [expired EXCEPT ![Run(i)] = FALSE]

Claim(q, i) ==
  /\ Begin(q)
  /\ status[i] = "open" \/ (status[i] = "claimed" /\ expired[Run(i)])
  /\ Transition(i, "claimed")
  /\ UNCHANGED <<server, caller, worker, registries, signal, holder, request>>

Release(q, i) ==
  /\ Begin(q)
  /\ Held(i)
  /\ Transition(i, "open")
  /\ UNCHANGED <<server, caller, worker, registries, signal, holder, request>>

\* Nobody renewed the lease in time.
Expire(i) ==
  /\ status[i] \in Active
  /\ ~expired[Run(i)]
  /\ expired' = [expired EXCEPT ![Run(i)] = TRUE]
  /\ UNCHANGED <<server, caller, worker, status, registries, signal, holder, request>>

------------------------------------------------------------------------------
(***************************************************************************)
(* viewport and send_input keep the lock while the browser works.  An      *)
(* input counts as sent before the browser has carried it out.             *)
(***************************************************************************)
\* Mutant: the lock is given back before the browser call.
TouchUnlocked(q, i) ==
  /\ Begin(q)
  /\ Held(i)
  /\ i \in live
  /\ Go(q, "touch", i)
  /\ corrected' \in {corrected, corrected \cup {i}}
  /\ UNCHANGED <<server, caller, worker, status, expired, live, continuations,
                 waits, signal, holder>>

Touch(q, i) ==
  /\ Begin(q)
  /\ Held(i)
  /\ i \in live
  /\ holder' = q
  /\ Go(q, "touch", i)
  /\ corrected' \in {corrected, corrected \cup {i}}
  /\ UNCHANGED <<server, caller, worker, status, expired, live, continuations,
                 waits, signal>>

Touched(q) ==
  /\ At(q, "touch")
  /\ worker[Run(request[q].id)] \in {"idle", "closed"}
  /\ holder' = None
  /\ Done(q)
  /\ UNCHANGED <<server, caller, worker, status, expired, registries, signal>>

------------------------------------------------------------------------------
(***************************************************************************)
(* begin_resume.  The lock is given up between the coordinator's           *)
(* transition, the validation on the worker and the transition that        *)
(* completes or undoes it.  Rejections, resumptions and failures of a      *)
(* resumed run are recorded in the journal, unguarded: when the journal    *)
(* raises, the request ends there and does none of what would follow.      *)
(***************************************************************************)
\* Without its session it is reopened at once; other rejections are recorded first.
BeginResume(q, i) ==
  /\ Begin(q)
  /\ Held(i)
  /\ Transition(i, "resuming")
  /\ IF i \in live /\ (i \in continuations \/ (i \in waits /\ i \in corrected))
       THEN Go(q, "validate", i)
       ELSE \/ Go(q, "reopen", i)
            \/ i \in live /\ UNCHANGED request
  /\ UNCHANGED <<server, caller, worker, registries, signal, holder>>

\* Accepted, rejected with an expected error, or an error nobody expected:
\* that one leaves the request with the intervention still resuming.
Validate(q) ==
  /\ At(q, "validate")
  /\ worker[Run(request[q].id)] \in {"idle", "closed"}
  /\ \/ /\ worker[Run(request[q].id)] = "idle"
        /\ \E stage \in {"complete", "reopen"} : Go(q, stage, request[q].id)
     \/ Done(q)
  /\ UNCHANGED <<server, caller, worker, status, expired, registries, signal, holder>>

Reopen(q) ==
  /\ At(q, "reopen")
  /\ Free
  /\ status' = [status EXCEPT ![request[q].id] = "open"]
  /\ Done(q)
  /\ UNCHANGED <<server, caller, worker, expired, registries, signal, holder>>

\* The pause is resolved and its continuation gone before the resumption is recorded:
\* if it cannot be, nobody signals the caller or resumes the replay any more.
CompleteResume(q) ==
  /\ At(q, "complete")
  /\ Free
  /\ LET i == request[q].id IN
       IF expired[Run(i)]
         THEN Done(q) /\ UNCHANGED <<status, expired, continuations>>
         ELSE /\ Transition(i, "resolved")
              /\ continuations' = continuations \ {i}
              /\ \/ Go(q, IF i \in continuations THEN "resume" ELSE "signal", i)
                 \/ Done(q)
  /\ UNCHANGED <<server, caller, worker, live, waits, signal, corrected, holder>>

\* Mutant: the caller is woken without the version that lets it go on.
SignalNothing(q) ==
  /\ At(q, "signal")
  /\ signal' = [signal EXCEPT ![Run(request[q].id)] = "unset"]
  /\ Done(q)
  /\ UNCHANGED <<server, caller, worker, status, expired, registries, holder>>

SignalResume(q) ==
  /\ At(q, "signal")
  /\ signal' = [signal EXCEPT ![Run(request[q].id)] = "resume"]
  /\ Done(q)
  /\ UNCHANGED <<server, caller, worker, status, expired, registries, holder>>

\* A replay goes on inside the request that resumed it.
ReplayResumes(q) ==
  /\ At(q, "resume")
  /\ worker[Run(request[q].id)] = "idle"
  /\ worker' = [worker EXCEPT ![Run(request[q].id)] = "run"]
  /\ Go(q, "running", request[q].id)
  /\ UNCHANGED <<server, caller, status, expired, registries, signal, holder>>

\* It paused again: the same live session is known by the next intervention.
ReplayPausesAgain(q) ==
  /\ At(q, "running")
  /\ LET i == request[q].id IN
       /\ worker[Run(i)] = "paused"
       /\ Free
       /\ i \in live
       /\ live' = (live \ {i}) \cup {Latest(Run(i))}
       /\ corrected' = IF i \in corrected THEN corrected \cup {Latest(Run(i))} ELSE corrected
       /\ worker' = [worker EXCEPT ![Run(i)] = "idle"]
  /\ Done(q)
  /\ UNCHANGED <<server, caller, status, expired, continuations, waits, signal, holder>>

\* It finished: _close_session, first the registration and then the browser.  A failure
\* that cannot be recorded leaves both as they are.
ReplayFinishes(q) ==
  /\ At(q, "running")
  /\ LET i == request[q].id IN
       /\ worker[Run(i)] = "ended"
       /\ \/ Free /\ live' = live \ {i} /\ Go(q, "close", i)
          \/ Done(q) /\ UNCHANGED live
  /\ UNCHANGED <<server, caller, worker, status, expired, continuations, waits,
                 signal, corrected, holder>>

------------------------------------------------------------------------------
(***************************************************************************)
(* terminate.  What it releases is what was registered under the lock: a   *)
(* waiting discovery caller, or else the browser itself.                   *)
(***************************************************************************)
Terminate(q, i) ==
  /\ Begin(q)
  /\ status[i] = "open" \/ Held(i)
  /\ Transition(i, "terminated")
  /\ IF i \in waits THEN Go(q, "cancel", i)
     ELSE IF i \in live THEN Go(q, "close", i)
     ELSE UNCHANGED request
  /\ live' = live \ {i}
  /\ waits' = waits \ {i}
  /\ continuations' = continuations \ {i}
  /\ UNCHANGED <<server, caller, worker, signal, corrected, holder>>

\* Mutant: the termination is announced and the caller left asleep.
CancelSilently(q) ==
  /\ At(q, "cancel")
  /\ Go(q, "await", request[q].id)
  /\ UNCHANGED <<server, caller, worker, status, expired, registries, signal, holder>>

\* Mutant: the caller is woken with the version of the pause in place.
CancelKeepsVersion(q) ==
  /\ At(q, "cancel")
  /\ signal' = [signal EXCEPT ![Run(request[q].id)] = "resume"]
  /\ Go(q, "await", request[q].id)
  /\ UNCHANGED <<server, caller, worker, status, expired, registries, holder>>

CancelWait(q) ==
  /\ At(q, "cancel")
  /\ signal' = [signal EXCEPT ![Run(request[q].id)] = "cancel"]
  /\ Go(q, "await", request[q].id)
  /\ UNCHANGED <<server, caller, worker, status, expired, registries, holder>>

CallerCompleted(q) ==
  /\ At(q, "await")
  /\ caller[Run(request[q].id)] = "returned"
  /\ Done(q)
  /\ UNCHANGED <<server, caller, worker, status, expired, registries, signal, holder>>

\* A close waits for the operation the worker is busy with.
CloseBrowser(q) ==
  /\ At(q, "close")
  /\ worker[Run(request[q].id)] \in {"idle", "ended", "closed"}
  /\ worker' = [worker EXCEPT ![Run(request[q].id)] = "closed"]
  /\ Done(q)
  /\ UNCHANGED <<server, caller, status, expired, registries, signal, holder>>

------------------------------------------------------------------------------
(***************************************************************************)
(* LocalRuntime.close: no new runs; cancel the waits; let the viewer's     *)
(* runs return; then close every browser that is still registered.         *)
(***************************************************************************)
StopServer ==
  /\ server = "up"
  /\ \A q \in Requests : request[q] = None
  /\ server' = "stopping"
  /\ UNCHANGED <<caller, worker, status, expired, registries, signal, holder, request>>

CancelWaits ==
  /\ server = "stopping"
  /\ Free
  /\ signal' = [r \in Runs |-> IF \E i \in waits : Run(i) = r THEN "cancel" ELSE signal[r]]
  /\ server' = "draining"
  /\ UNCHANGED <<caller, worker, status, expired, registries, holder, request>>

RunsReturned ==
  /\ server = "draining"
  /\ \A r \in Runs : caller[r] \in {"fresh", "returned"}
  /\ server' = "closing"
  /\ UNCHANGED <<caller, worker, status, expired, registries, signal, holder, request>>

\* Mutant: the registry is cleared before its sessions are read.
ForgetBrowsers ==
  /\ server = "closing"
  /\ Free
  /\ live' = {}
  /\ server' = "down"
  /\ UNCHANGED <<caller, worker, status, expired, continuations, waits, signal,
                 corrected, holder, request>>

CloseBrowsers ==
  /\ server = "closing"
  /\ Free
  /\ worker' = [r \in Runs |-> IF \E i \in live : Run(i) = r THEN "closed" ELSE worker[r]]
  /\ live' = {}
  /\ server' = "down"
  /\ UNCHANGED <<caller, status, expired, continuations, waits, signal, corrected,
                 holder, request>>

------------------------------------------------------------------------------
WorkerStep(r) ==
  \/ RunEnds(r) \/ RunPauses(r)
  \/ PauseRecorded(r) \/ PauseFails(r) \/ RetainContinuation(r)

CallerStep(r) == ReplayRegisters(r) \/ DiscoveryWaits(r) \/ DiscoveryWakes(r) \/ CallerReturns(r)

OperatorAsks(q) ==
  \E i \in Ids : \/ Claim(q, i) \/ Release(q, i) \/ Touch(q, i)
                 \/ BeginResume(q, i) \/ Terminate(q, i)

RequestStep(q) ==
  \/ Touched(q) \/ Validate(q) \/ Reopen(q) \/ CompleteResume(q) \/ SignalResume(q)
  \/ ReplayResumes(q) \/ ReplayPausesAgain(q) \/ ReplayFinishes(q)
  \/ CancelWait(q) \/ CallerCompleted(q) \/ CloseBrowser(q)

Shutdown == CancelWaits \/ RunsReturned \/ CloseBrowsers

Next ==
  \/ \E r \in Runs : CallerExecutes(r) \/ WorkerStep(r) \/ CallerStep(r)
  \/ \E q \in Requests : OperatorAsks(q) \/ RequestStep(q)
  \/ \E i \in Ids : Expire(i)
  \/ StopServer
  \/ Shutdown

(***************************************************************************)
(* Every thread that has begun goes on.  The runtime lock is not fair, but *)
(* a thread that asks for it again and again gets it; nothing makes an     *)
(* operator act, a run start or the server stop.                           *)
(***************************************************************************)
Fairness ==
  /\ \A r \in Runs : SF_vars(WorkerStep(r)) /\ SF_vars(CallerStep(r))
  /\ \A q \in Requests : SF_vars(RequestStep(q))
  /\ SF_vars(Shutdown)

Spec == Init /\ [][Next]_vars
FairSpec == Spec /\ Fairness

------------------------------------------------------------------------------
(* Correctness properties *)

\* Every variable has its type (the dictionaries and threads of composition.py).
TypeOK ==
  /\ server \in {"up", "stopping", "draining", "closing", "down"}
  /\ caller \in [Runs -> {"fresh", "executing", "waiting", "returned"}]
  /\ worker \in [Runs -> {"none", "run", "opened", "retain", "paused", "idle", "ended", "closed"}]
  /\ status \in [Ids -> Active \cup {"unrouted", "resolved", "terminated"}]
  /\ expired \in [Runs -> BOOLEAN]
  /\ live \subseteq Ids
  /\ continuations \subseteq {i \in Ids : Run(i) \in Replays}
  /\ waits \subseteq {i \in Ids : Run(i) \in Discoveries}
  /\ corrected \subseteq Ids
  /\ signal \in [Runs -> {"none", "unset", "resume", "cancel"}]
  /\ holder \in Requests \cup {None}
  /\ request \in [Requests -> Operations \cup {None}]

\* A registered session is one whose browser an operator can still reach,
\* although registration, termination, the end of a resumed replay and
\* shutdown all run on different threads (composition.py:261-265, 463-489,
\* 595-606).
LiveSessionsAreOpen == \A i \in live : worker[Run(i)] \notin {"none", "closed"}

\* Sessions that are registered are open, and while an operator's viewport or
\* input is on the browser, the claim it was checked against still stands and
\* the worker does nothing for automation.  In particular the lock it holds is
\* never the one a replay on the same worker needs for its continuation
\* (composition.py:493-509, 724).
OperatorHasTheBrowser ==
  /\ TypeOK
  /\ LiveSessionsAreOpen
  /\ \A q \in Requests : At(q, "touch") =>
       /\ status[request[q].id] = "claimed"
       /\ worker[Run(request[q].id)] = "idle"

\* Automation runs again after a pause only if that pause was resolved: a
\* terminated, reopened or abandoned one never reaches the engine, whatever
\* wakes the caller (composition.py:316-322, 443).
RunsOnlyWhenResolved ==
  \A r \in Runs : worker[r] = "run" /\ Pauses(r) > 0 => status[Latest(r)] = "resolved"

\* No operator request hangs: not on the lock, not on a busy or a closed
\* worker, not on a discovery caller it has to see return.
EveryRequestReturns == \A q \in Requests : request[q] # None ~> request[q] = None

\* A resumption that was recorded is carried out: the retained run leaves its idle
\* worker, whether the request still has to reach it or the shutdown comes between the
\* request and the caller it wakes (composition.py:316-322, 443-448, 636-640).
RecordedResumeGoesOn ==
  \A i \in Ids :
    (\E q \in Requests : /\ At(q, "signal") \/ At(q, "resume")
                        /\ request[q].id = i)
      ~> worker[Run(i)] # "idle"

\* Shutdown ends, with every caller back and every browser closed, also when
\* it meets paused runs, runs about to pause and runs nobody can reach.
ShutdownReleasesAll ==
  server # "up" ~> /\ server = "down"
                   /\ \A r \in Runs : /\ caller[r] \in {"fresh", "returned"}
                                       /\ worker[r] \in {"none", "closed"}

(***************************************************************************)
(* What the documentation says and the code does not keep.                 *)
(***************************************************************************)
\* "Termination and shutdown release the waiting caller and close the retained
\* browser" (docs/discovery.md:27-28).
TerminationReleasesCaller ==
  \A i \in Ids :
    Run(i) \in Discoveries /\ status[i] = "terminated" ~> caller[Run(i)] = "returned"

\* A resume "revalidates fresh state and continues the retained replay or discovery"
\* (docs/operations.md:47): a run whose pause is resolved leaves its idle worker.
ResolvedRunGoesOn ==
  \A i \in Ids :
    status[i] = "resolved" /\ i = Latest(Run(i)) /\ worker[Run(i)] = "idle"
      ~> worker[Run(i)] # "idle"

\* A resuming intervention is reopened or resolved (docs/data-models.md:245-246).
ResumingIsSettled == \A i \in Ids : status[i] = "resuming" ~> status[i] # "resuming"

\* "A terminal failure has no retained browser to claim"
\* (docs/safety-and-handoff.md:155).
NothingToClaimAfterFailure ==
  \A i \in Ids : server = "up" /\ worker[Run(i)] = "closed" => status[i] \notin Active

=============================================================================
