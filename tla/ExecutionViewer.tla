-------------------------- MODULE ExecutionViewer --------------------------
(***************************************************************************)
(* runs/viewing.py, the bounded record of what managed executions show,    *)
(* and the threads that publish into it: the pool thread that launched an  *)
(* execution, the operator requests that resume or terminate its run, the  *)
(* reaper, and shutdown.  Every method of the viewer is one hold of its    *)
(* lock, so it is one step; what happens between two of them is not.       *)
(* Identities are numbered as they are given out, so that the records and  *)
(* the pool's jobs are in the order of their numbers.                      *)
(***************************************************************************)
EXTENDS Integers, FiniteSets

CONSTANTS
  MaxActive,      \* limits: executions that are not finished, and pool threads
  MaxExecutions,  \* records
  Retention,      \* of a finished record
  MaxLaunches,    \* bound: executions that are launched
  MaxPauses,      \* bound: pauses of one execution
  MaxTime,        \* bound: the clock
  Nil             \* no time, no result

ASSUME ViewingAssumption ==
  /\ MaxActive \in Nat \ {0} /\ MaxExecutions \in Nat /\ MaxActive <= MaxExecutions
  /\ Retention \in Nat \ {0}
ASSUME BoundsAssumption ==
  MaxLaunches \in Nat /\ MaxPauses \in Nat \ {0} /\ MaxTime \in Nat

VARIABLES
  view,     \* the records, by identity
  clock,
  phase,    \* of the viewer: "open", "closing", "closed"
  launch,   \* per execution: its operation on the pool thread
  returned, \* the result its operation returns
  signal,   \* what wakes a discovery that waits for its operator
  pause,    \* per execution and pause: the operator request that handles it
  ended     \* history: how the run ended

viewerVars == <<view, clock, phase, launch, returned, signal, pause, ended>>
threads == <<launch, returned, signal, pause, ended>>

Ends == {"success", "failure", "business_outcome"}
Terminal == Ends \cup {"terminated"}
Executions == 1..MaxLaunches
PauseIds == 1..MaxPauses
NoPause == 0

ASSUME NilAssumption == Nil \notin 0..MaxTime /\ Nil \notin Terminal

Retained == DOMAIN view
Finished(e) == view[e].finishedAt # Nil

Active == {e \in Retained : ~Finished(e)}

ViewerInit ==
  /\ view = [e \in {} |-> Nil]
  /\ clock = 0 /\ phase = "open"
  /\ launch = [e \in Executions |-> "none"]
  /\ returned = [e \in Executions |-> Nil]
  /\ signal = [e \in Executions |-> "none"]
  /\ pause = [e \in Executions |-> [n \in PauseIds |-> "none"]]
  /\ ended = [e \in Executions |-> Nil]

------------------------------------------------------------------------------
(* The viewer's own operations *)

Keep(kept) == view' = [e \in kept |-> view[e]]

\* _expire
Expired(e) == Finished(e) /\ clock - view[e].finishedAt >= Retention
Unexpired == {e \in Retained : ~Expired(e)}

\* Any request, or the reaper.
Expire ==
  /\ phase # "closed"
  /\ Keep(Unexpired)
  /\ UNCHANGED <<clock, phase, threads>>

NewView(mode) ==
  [mode |-> mode, state |-> "running", shown |-> NoPause, finishedAt |-> Nil]

\* The oldest finished record makes room for a new one.
RoomFor(kept) ==
  LET done == {e \in kept : Finished(e)}
      oldest == CHOOSE e \in done : \A d \in done : e <= d
  IN IF Cardinality(kept) < MaxExecutions THEN kept ELSE kept \ {oldest}

\* start: a new identity, its record and the pool's job.
Start(e, mode) ==
  /\ phase = "open"
  /\ launch[e] = "none" /\ \A x \in 1..(e - 1) : launch[x] # "none"
  /\ Cardinality(Active) < MaxActive
  /\ view' = [x \in RoomFor(Unexpired) \cup {e} |-> IF x = e THEN NewView(mode) ELSE view[x]]
  /\ launch' = [launch EXCEPT ![e] = "queued"]
  /\ UNCHANGED <<clock, phase, returned, signal, pause, ended>>

\* finish: a terminal result is final.
FinishView(e, result) ==
  IF e \notin Retained \/ Finished(e) THEN UNCHANGED view
  ELSE view' = [view EXCEPT ![e].state = result.status,
                            ![e].shown = result.pause,
                            ![e].finishedAt =
                               IF result.status = "paused" THEN @ ELSE clock]

\* run_result: a validation replay of a discovery does not end the execution.
RunResult(e, role, result) ==
  IF role = "replay" \/ result.status \in {"paused", "terminated"}
    THEN FinishView(e, result)
    ELSE UNCHANGED view

\* resume
ResumeView(e) ==
  IF e \notin Retained \/ Finished(e) THEN UNCHANGED view
  ELSE view' = [view EXCEPT ![e].state = "running", ![e].shown = NoPause]

Paused(n) == [status |-> "paused", pause |-> n]
Ended(status) == [status |-> status, pause |-> NoPause]

Tick ==
  /\ clock < MaxTime
  /\ clock' = clock + 1
  /\ UNCHANGED <<view, phase, threads>>

------------------------------------------------------------------------------
(* The launched operation: _execute, and the run service it calls *)

OnThread == {"running", "registered", "waiting", "returning"}
Busy == {e \in Executions : launch[e] \in OnThread}
Queued == {e \in Executions : launch[e] = "queued"}

Mode(e) == view[e].mode
NewPause(e) == CHOOSE n \in PauseIds : pause[e][n] = "none"
                                       /\ \A m \in 1..(n - 1) : pause[e][m] # "none"
LastPause(e) == CHOOSE n \in PauseIds : pause[e][n] # "none"
                                        /\ \A m \in (n + 1)..MaxPauses : pause[e][m] = "none"
MayPause(e) == \E n \in PauseIds : pause[e][n] = "none"

\* The pool runs its jobs in the order of their submission.
Run(e) ==
  /\ Cardinality(Busy) < MaxActive
  /\ e \in Queued /\ \A x \in Queued : e <= x
  /\ launch' = [launch EXCEPT ![e] = "running"]
  /\ UNCHANGED <<view, clock, phase, returned, signal, pause, ended>>

\* A replay pauses: the launching thread returns, the retained session can be resumed.
ReplayPauses(e) ==
  /\ launch[e] = "running" /\ Mode(e) = "replay" /\ MayPause(e)
  /\ pause' = [pause EXCEPT ![e][NewPause(e)] = "open"]
  /\ returned' = [returned EXCEPT ![e] = Paused(NewPause(e))]
  /\ launch' = [launch EXCEPT ![e] = "returning"]
  /\ UNCHANGED <<view, clock, phase, signal, ended>>

\* finalize_replay publishes the result; if it raises, _execute returns a failure.
ReplayEnds(e) ==
  /\ launch[e] = "running" /\ Mode(e) = "replay"
  /\ \/ \E status \in Ends :
          /\ RunResult(e, "replay", Ended(status))
          /\ returned' = [returned EXCEPT ![e] = Ended(status)]
          /\ ended' = [ended EXCEPT ![e] = status]
     \/ /\ returned' = [returned EXCEPT ![e] = Ended("failure")]
        /\ ended' = [ended EXCEPT ![e] = "failure"]
        /\ UNCHANGED view
  /\ launch' = [launch EXCEPT ![e] = "returning"]
  /\ UNCHANGED <<clock, phase, signal, pause>>

\* Mutant: a wait that is registered during shutdown is not cancelled.
DiscoveryWaitsOn(e) ==
  /\ launch[e] = "running" /\ Mode(e) = "discovery" /\ MayPause(e)
  /\ pause' = [pause EXCEPT ![e][NewPause(e)] = "open"]
  /\ signal' = [signal EXCEPT ![e] = "none"]
  /\ launch' = [launch EXCEPT ![e] = "registered"]
  /\ UNCHANGED <<view, clock, phase, returned, ended>>

\* A discovery registers its wait, then publishes the pause, then waits.
DiscoveryPauses(e) ==
  /\ launch[e] = "running" /\ Mode(e) = "discovery" /\ MayPause(e)
  /\ pause' = [pause EXCEPT ![e][NewPause(e)] = "open"]
  /\ signal' = [signal EXCEPT ![e] = IF phase = "open" THEN "none" ELSE "cancel"]
  /\ launch' = [launch EXCEPT ![e] = "registered"]
  /\ UNCHANGED <<view, clock, phase, returned, ended>>

PublishPause(e) ==
  /\ launch[e] = "registered"
  /\ RunResult(e, "discovery", Paused(LastPause(e)))
  /\ launch' = [launch EXCEPT ![e] = "waiting"]
  /\ UNCHANGED <<clock, phase, returned, signal, pause, ended>>

Wake(e) ==
  /\ launch[e] = "waiting"
  /\ \/ /\ signal[e] = "resume"
        /\ launch' = [launch EXCEPT ![e] = "running"]
        /\ UNCHANGED <<returned, pause, ended>>
     \/ /\ signal[e] = "cancel"
        /\ launch' = [launch EXCEPT ![e] = "returning"]
        /\ returned' = [returned EXCEPT ![e] = Ended("failure")]
        /\ ended' = [ended EXCEPT ![e] = IF @ = Nil THEN "failure" ELSE @]
        /\ pause' = [pause EXCEPT ![e][LastPause(e)] = "over"]
  /\ signal' = [signal EXCEPT ![e] = "none"]
  /\ UNCHANGED <<view, clock, phase>>

\* A validation replay of the suite: it publishes through the same execution.
ValidationEnds(e) ==
  /\ launch[e] = "running" /\ Mode(e) = "discovery"
  /\ \E status \in Ends : RunResult(e, "validation", Ended(status))
  /\ UNCHANGED <<clock, phase, threads>>

\* The suite is published, or has failed.
DiscoveryEnds(e) ==
  /\ launch[e] = "running" /\ Mode(e) = "discovery"
  /\ \E status \in {"success", "failure"} :
       /\ returned' = [returned EXCEPT ![e] = Ended(status)]
       /\ ended' = [ended EXCEPT ![e] = status]
  /\ launch' = [launch EXCEPT ![e] = "returning"]
  /\ UNCHANGED <<view, clock, phase, signal, pause>>

\* _execute publishes what the operation has returned.
Return(e) ==
  /\ launch[e] = "returning"
  /\ FinishView(e, returned[e])
  /\ launch' = [launch EXCEPT ![e] = "over"]
  /\ returned' = [returned EXCEPT ![e] = Nil]
  /\ UNCHANGED <<clock, phase, signal, pause, ended>>

------------------------------------------------------------------------------
(***************************************************************************)
(* Operator requests.  A launched operation cannot tell the viewer before  *)
(* they may act: a pause is open as soon as its session is registered.     *)
(***************************************************************************)
SetPause(e, n, state) == pause' = [pause EXCEPT ![e][n] = state]

\* complete_resume.  If the resumption cannot be recorded the request ends there: nothing
\* is shown, nobody is woken, and the pause can no longer be acted upon.
Resolve(e, n) ==
  /\ phase = "open"
  /\ pause[e][n] = "open"
  /\ \E state \in {"resolved", "over"} : SetPause(e, n, state)
  /\ UNCHANGED <<view, clock, phase, launch, returned, signal, ended>>

\* begin_resume tells the viewer, then wakes the discovery or drives the replay.
ShowResumed(e, n) ==
  /\ pause[e][n] = "resolved"
  /\ ResumeView(e)
  /\ \/ /\ launch[e] \in {"registered", "waiting"}
        /\ signal' = [signal EXCEPT ![e] = "resume"]
        /\ SetPause(e, n, "over")
     \/ /\ launch[e] \notin {"registered", "waiting"}
        /\ SetPause(e, n, "driving")
        /\ UNCHANGED signal
  /\ UNCHANGED <<clock, phase, launch, returned, ended>>

\* The resumed replay pauses again: registered first, published afterwards.
PauseAgain(e, n) ==
  /\ pause[e][n] = "driving" /\ MayPause(e)
  /\ pause' = [pause EXCEPT ![e][n] = "repausing", ![e][NewPause(e)] = "open"]
  /\ UNCHANGED <<view, clock, phase, launch, returned, signal, ended>>

PublishAgain(e, n) ==
  /\ pause[e][n] = "repausing"
  /\ RunResult(e, "replay", Paused(n + 1))
  /\ SetPause(e, n, "over")
  /\ UNCHANGED <<clock, phase, launch, returned, signal, ended>>

\* The resumed replay ends.  If its journal cannot be finalized nothing is published.
DriveEnds(e, n) ==
  /\ pause[e][n] = "driving"
  /\ \/ \E status \in Ends :
          /\ RunResult(e, "replay", Ended(status))
          /\ ended' = [ended EXCEPT ![e] = status]
     \/ ended' = [ended EXCEPT ![e] = "failure"] /\ UNCHANGED view
  /\ SetPause(e, n, "over")
  /\ UNCHANGED <<clock, phase, launch, returned, signal>>

\* The discovery caller that waits is woken.
Cancelled(e) ==
  [signal EXCEPT ![e] = IF launch[e] \in {"registered", "waiting"} THEN "cancel" ELSE @]

\* Mutant: the waiting discovery is woken before the end is published.
TerminateAndWake(e, n) ==
  /\ phase = "open"
  /\ pause[e][n] = "open"
  /\ SetPause(e, n, "terminated")
  /\ ended' = [ended EXCEPT ![e] = "terminated"]
  /\ signal' = Cancelled(e)
  /\ UNCHANGED <<view, clock, phase, launch, returned>>

\* terminate takes the wait and the feed of the run with it.
Terminate(e, n) ==
  /\ phase = "open"
  /\ pause[e][n] = "open"
  /\ SetPause(e, n, "terminated")
  /\ ended' = [ended EXCEPT ![e] = "terminated"]
  /\ UNCHANGED <<view, clock, phase, launch, returned, signal>>

PublishTermination(e, n) ==
  /\ pause[e][n] = "terminated"
  /\ RunResult(e, "any", Ended("terminated"))
  /\ SetPause(e, n, "published")
  /\ UNCHANGED <<clock, phase, launch, returned, signal, ended>>

\* The end is published before the discovery is woken and reports a failure.
CancelWait(e, n) ==
  /\ pause[e][n] = "published"
  /\ signal' = Cancelled(e)
  /\ SetPause(e, n, "over")
  /\ UNCHANGED <<view, clock, phase, launch, returned, ended>>

------------------------------------------------------------------------------
(***************************************************************************)
(* Shutdown: no request is in flight, waiting discoveries are cancelled    *)
(* and new ones cancel themselves; close waits for the pool and clears.    *)
(***************************************************************************)
InFlight == {"resolved", "driving", "repausing", "terminated", "published"}

Close ==
  /\ phase = "open"
  /\ \A e \in Executions, n \in PauseIds : pause[e][n] \notin InFlight
  /\ phase' = "closing"
  /\ signal' = [e \in Executions |->
                  IF launch[e] \in {"registered", "waiting"} THEN "cancel" ELSE signal[e]]
  /\ UNCHANGED <<view, clock, launch, returned, pause, ended>>

Clear ==
  /\ phase = "closing"
  /\ Busy = {} /\ Queued = {}
  /\ phase' = "closed"
  /\ Keep({})
  /\ UNCHANGED <<clock, threads>>

Operation(e) ==
  \/ Run(e) \/ ReplayPauses(e) \/ ReplayEnds(e) \/ DiscoveryPauses(e) \/ PublishPause(e)
  \/ Wake(e) \/ DiscoveryEnds(e) \/ Return(e)

Request(e, n) ==
  \/ ShowResumed(e, n) \/ PauseAgain(e, n) \/ PublishAgain(e, n) \/ DriveEnds(e, n)
  \/ PublishTermination(e, n) \/ CancelWait(e, n)

ViewerNext ==
  \/ Expire \/ Tick \/ Close \/ Clear
  \/ \E e \in Executions :
       \/ \E mode \in {"replay", "discovery"} : Start(e, mode)
       \/ Operation(e) \/ ValidationEnds(e)
       \/ \E n \in PauseIds : Resolve(e, n) \/ Terminate(e, n) \/ Request(e, n)

ViewerSpec == ViewerInit /\ [][ViewerNext]_viewerVars

\* Threads that have begun go on; nobody has to launch, resume or terminate.
FairSpec ==
  /\ ViewerSpec
  /\ \A e \in Executions : WF_viewerVars(Operation(e))
  /\ \A e \in Executions, n \in PauseIds : WF_viewerVars(Request(e, n))
  /\ WF_viewerVars(Clear)

------------------------------------------------------------------------------
(* Properties *)

Shown == Terminal \cup {"running", "paused"}
Results == [status : Terminal \cup {"paused"}, pause : 0..MaxPauses]

\* Records have the shape the code gives them, and one is finished exactly when
\* it shows a terminal state.
ViewsOK ==
  /\ Retained \subseteq Executions
  /\ \A e \in Retained :
       /\ view[e] \in [mode : {"replay", "discovery"}, state : Shown,
                        shown : 0..MaxPauses, finishedAt : {Nil} \cup 0..clock]
       /\ Finished(e) <=> view[e].state \in Terminal
  /\ clock \in 0..MaxTime /\ phase \in {"open", "closing", "closed"}
  /\ \A e \in Executions :
       /\ launch[e] \in {"none", "queued", "over"} \cup OnThread
       /\ returned[e] \in {Nil} \cup Results
       /\ signal[e] \in {"none", "resume", "cancel"}
       /\ ended[e] \in {Nil} \cup Terminal
       /\ \A n \in PauseIds : pause[e][n] \in {"none", "open", "over"} \cup InFlight

\* The limits hold with paused executions counted, although an execution may be
\* finished for the viewer while its operation still holds the thread.
WithinLimits ==
  /\ Cardinality(Retained) <= MaxExecutions
  /\ Cardinality({e \in Retained : ~Finished(e)}) <= MaxActive
  /\ Cardinality(Busy) <= MaxActive

\* An operation that is queued, runs or waits has its record, unless its run was
\* terminated: what it publishes is not lost.
OperationHasRecord ==
  \A e \in Executions :
    launch[e] \in {"queued", "running", "registered", "waiting"} /\ ended[e] = Nil =>
      e \in Active

\* What a finished execution shows is how its run ended, whichever of the threads
\* that report on it came first, however late the others are, and whatever records
\* the limits have pushed out in the meantime.
ShowsTheEnd ==
  /\ ViewsOK /\ WithinLimits /\ OperationHasRecord
  /\ \A e \in Retained : Finished(e) => view[e].state = ended[e]

\* The viewer closes: nothing that it waits for waits for somebody else, and it
\* leaves neither records nor operations behind.
CloseCompletes ==
  /\ phase = "closing" ~> phase = "closed"
  /\ [](phase = "closed" =>
          Retained = {} /\ Busy = {} /\ Queued = {})

\* Controls are shown for a live intervention only: the pause that a view shows has not
\* been resumed.
ShownPauseIsLive ==
  \A e \in Retained : phase = "open" /\ view[e].state = "paused" =>
    pause[e][view[e].shown] \in {"open", "resolved", "terminated", "published"}

\* A paused execution occupies the active slot until it is resumed or terminated, and
\* gives it up, and in time its view, when its run has come to an end.
EndedRunIsFinished ==
  \A e \in Executions : ended[e] # Nil ~> e \notin Active
=============================================================================
