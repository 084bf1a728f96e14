--------------------------- MODULE OperatorConsole ---------------------------
(***************************************************************************)
(* Operating a paused browser from the console: a tab of                   *)
(* apps/control-plane/app/interventions/console.tsx on one side, on the    *)
(* other the retained session and the operator requests of                 *)
(* runtime/composition.py (LiveBrowserSession, viewport, send_input), with *)
(* answers between them that are late, out of date or lost.  Other tabs,   *)
(* of the same operator or of others, send whatever the runtime accepts.   *)
(*                                                                         *)
(* One intervention is followed from its opening to its end.  A request is *)
(* served in one step, as the runtime lock is held for all of it;          *)
(* Interventions has the interleavings below that lock.  What a request    *)
(* carries is checked when it is served and names a version that passes,   *)
(* so it does not matter for how long it was under way: it is taken as     *)
(* sent when it is served.  A request that is refused changes nothing but  *)
(* that its tab loads the intervention again, like one that was lost.      *)
(* Answers do take time.  Of two loads only the later one's answer counts. *)
(***************************************************************************)
EXTENDS Integers, Sequences, SequencesExt

CONSTANTS
  Operators,
  Me,           \* the operator identity entered in the tab
  Looks,        \* what the page can look like
  MaxVersion,   \* bound: lease versions
  MaxInputs,    \* bound: inputs given to the browser
  MaxChanges,   \* bound: changes of the page that no input causes
  None

ASSUME BoundsAssumption == MaxVersion \in Nat \ {0} /\ MaxInputs \in Nat /\ MaxChanges \in Nat
ASSUME OperatorsAssumption == Me \in Operators /\ None \notin Operators

VARIABLES
  server,       \* the intervention: status, owner, lease version
  lapsed,       \* whether the lease has expired
  look,         \* the page
  changes,      \* how often it changed by itself
  frameSequence, latestFrame, lastClientSequence,  \* of LiveBrowserSession
  inputs,       \* the inputs given to the browser, with what was known of them
  shown,        \* the intervention as the tab displays it
  noticed,      \* whether it takes the displayed lease for expired
  frame,        \* the viewport displayed
  load, mutation, fetch  \* the answers under way to the tab

session == <<frameSequence, latestFrame, lastClientSequence>>
page == <<look, changes>>
display == <<shown, noticed, frame>>
requests == <<load, mutation, fetch>>
vars == <<server, lapsed, page, session, inputs, display, requests>>

Ended == {"resolved", "terminated"}

\* What a console derives from the displayed intervention and its own clock.
Mine(view) == view # None /\ view.status = "claimed" /\ view.owner = Me
Owned == Mine(shown) /\ ~noticed

Init ==
  /\ server = [status |-> "open", owner |-> None, version |-> 1]
  /\ lapsed = FALSE
  /\ look \in Looks /\ changes = 0
  /\ frameSequence = 0 /\ latestFrame = None /\ lastClientSequence = 0
  /\ inputs = <<>>
  /\ shown = None /\ noticed = FALSE
  /\ frame = None
  /\ load = None /\ mutation = None
  /\ fetch = None

------------------------------------------------------------------------------
(* The world: time, and pages that change by themselves *)

LeaseLapses ==
  /\ server.status = "claimed" /\ ~lapsed
  /\ lapsed' = TRUE
  /\ UNCHANGED <<server, page, session, inputs, display, requests>>

PageChanges ==
  /\ changes < MaxChanges
  /\ look' \in Looks \ {look}
  /\ changes' = changes + 1
  /\ UNCHANGED <<server, lapsed, session, inputs, display, requests>>

------------------------------------------------------------------------------
(***************************************************************************)
(* The effects that follow every change of the displayed intervention: a   *)
(* change of ownership drops the frame, a change of ownership or version   *)
(* makes the answer to a viewport request that is under way worthless.     *)
(***************************************************************************)
Display(view, expired) ==
  LET owned == Mine(view) /\ ~expired
      same == owned = Owned
  IN /\ shown' = view
     /\ noticed' = expired
     /\ frame' = IF same THEN frame ELSE None
     /\ fetch' = IF \/ fetch = None
                    \/ same /\ shown # None /\ shown.version = view.version
                   THEN fetch
                   ELSE [fetch EXCEPT !.wanted = FALSE]

\* The displayed lease expires by the tab's clock; a lease that has been replaced
\* may do so at any time.
NoticeExpiry ==
  /\ shown # None /\ shown.status = "claimed" /\ ~noticed
  /\ lapsed \/ shown.version < server.version
  /\ Display(shown, TRUE)
  /\ UNCHANGED <<server, lapsed, page, session, inputs, load, mutation>>

------------------------------------------------------------------------------
(* Loading the intervention: on selection, every three seconds, after an error *)


Poll ==
  /\ shown # None => shown.status \notin Ended
  /\ load' = server
  /\ UNCHANGED <<server, lapsed, page, session, inputs, display, mutation, fetch>>

\* An older version than the displayed one is not shown.
ReceiveLoad ==
  /\ load # None
  /\ load' = None
  /\ IF shown # None /\ shown.version > load.version
       THEN UNCHANGED <<display, fetch>>
       ELSE Display(load, noticed /\ shown.version = load.version)
  /\ UNCHANGED <<server, lapsed, page, session, inputs, mutation>>

LoseLoad ==
  /\ load # None
  /\ load' = None
  /\ UNCHANGED <<server, lapsed, page, session, inputs, display, mutation, fetch>>

------------------------------------------------------------------------------
(***************************************************************************)
(* Transitions of the lease, from the tab one at a time and with the       *)
(* displayed version.  Each one that succeeds invalidates the session's    *)
(* latest frame; those that end the intervention take the session away.    *)
(***************************************************************************)
Transitions == {"claim", "release", "heartbeat", "resume", "terminate"}

HeldBy(operator) == server.status = "claimed" /\ server.owner = operator /\ ~lapsed

After(operator, kind) ==
  [status |-> CASE kind \in {"claim", "heartbeat"} -> "claimed"
                [] kind = "release" -> "open"
                [] kind = "resume" -> "resolved"
                [] OTHER -> "terminated",
   owner |-> IF kind \in {"claim", "heartbeat"} THEN operator ELSE None,
   version |-> server.version + 1]

\* Mutant: a heartbeat leaves the frame of the former lease version in place.
ServeKeepingFrame(operator, kind) ==
  /\ server.version < MaxVersion
  /\ CASE kind = "claim" -> server.status = "open" \/ (server.status = "claimed" /\ lapsed)
       [] kind = "terminate" -> server.status = "open" \/ HeldBy(operator)
       [] OTHER -> HeldBy(operator)
  /\ server' = After(operator, kind) /\ lapsed' = FALSE
  /\ latestFrame' = IF kind = "heartbeat" THEN latestFrame ELSE None
  /\ UNCHANGED <<frameSequence, lastClientSequence>>

Serve(operator, kind) ==
  /\ server.version < MaxVersion
  /\ CASE kind = "claim" -> server.status = "open" \/ (server.status = "claimed" /\ lapsed)
       [] kind = "terminate" -> server.status = "open" \/ HeldBy(operator)
       [] OTHER -> HeldBy(operator)
  /\ server' = After(operator, kind) /\ lapsed' = FALSE
  /\ latestFrame' = None
  /\ UNCHANGED <<frameSequence, lastClientSequence>>

Transition(kind) ==
  /\ mutation = None
  /\ shown # None /\ shown.version = server.version
  /\ CASE kind = "claim" -> shown.status = "open" \/ (shown.status = "claimed" /\ noticed)
       [] kind = "terminate" -> Owned \/ shown.status = "open"
       [] OTHER -> Owned
  /\ Serve(Me, kind)
  /\ mutation' = After(Me, kind)
  /\ UNCHANGED <<page, inputs, display, load, fetch>>

TransitionElsewhere ==
  /\ \E operator \in Operators, kind \in Transitions : Serve(operator, kind)
  /\ UNCHANGED <<page, inputs, display, requests>>

Applied == [status |-> "applied"]

\* The answer is displayed as it is, even when a load has shown a later version
\* meanwhile.
ReceiveTransition ==
  /\ mutation \notin {None, Applied}
  /\ Display(mutation, FALSE)
  /\ mutation' = None
  /\ UNCHANGED <<server, lapsed, page, session, inputs, load>>

\* The answer of a transition or of an input is lost: the intervention is loaded
\* again, and what a load under way answers does not count.
LoseMutation ==
  /\ mutation # None
  /\ mutation' = None
  /\ load' = None
  /\ UNCHANGED <<server, lapsed, page, session, inputs, display, fetch>>

------------------------------------------------------------------------------
(***************************************************************************)
(* The viewport.  The session gives a page that looks the same the same    *)
(* frame, unless it was invalidated.  A frame carries, for the properties  *)
(* only, what had been done and which lease was in force when captured.    *)
(***************************************************************************)
MayAct == Owned /\ HeldBy(Me) /\ shown.version = server.version

Captured ==
  IF latestFrame # None /\ latestFrame.look = look THEN latestFrame
  ELSE [sequence |-> frameSequence + 1, look |-> look, next |-> lastClientSequence + 1,
        seen |-> Len(inputs), version |-> server.version]

Capture ==
  /\ latestFrame' = Captured
  /\ frameSequence' = Captured.sequence
  /\ UNCHANGED lastClientSequence

CaptureElsewhere ==
  /\ server.status = "claimed" /\ ~lapsed
  /\ Capture
  /\ UNCHANGED <<server, lapsed, page, inputs, display, requests>>

\* The request may have been sent before a mutation that has no answer yet.
FetchFrame ==
  /\ fetch = None
  /\ MayAct
  /\ Capture
  /\ fetch' = [frame |-> Captured, wanted |-> TRUE]
  /\ UNCHANGED <<server, lapsed, page, inputs, display, load, mutation>>

\* Mutant: an answer that came too late leaves the request marked as under way.
ReceiveFrameInFlight ==
  /\ fetch # None
  /\ fetch.wanted
  /\ frame' = fetch.frame
  /\ fetch' = None
  /\ UNCHANGED <<server, lapsed, page, session, inputs, shown, noticed, load, mutation>>

ReceiveFrame ==
  /\ fetch # None
  /\ frame' = IF fetch.wanted THEN fetch.frame ELSE frame
  /\ fetch' = None
  /\ UNCHANGED <<server, lapsed, page, session, inputs, shown, noticed, load, mutation>>

LoseFrame ==
  /\ fetch # None
  /\ fetch' = None
  /\ load' = IF fetch.wanted THEN None ELSE load
  /\ UNCHANGED <<server, lapsed, page, session, inputs, display, mutation>>

------------------------------------------------------------------------------
(***************************************************************************)
(* An input names the lease version, the frame the operator saw and the    *)
(* client sequence that frame asked for.  The number is spent and the      *)
(* frame invalid before the browser has it, whatever the browser answers.  *)
(***************************************************************************)
\* validate_input
ValidInput(f) ==
  /\ f.next = lastClientSequence + 1
  /\ latestFrame # None /\ f.sequence = latestFrame.sequence

\* Mutant: an input that the driver raises on does not count.
ApplyCounting(f) ==
  /\ ValidInput(f)
  /\ Len(inputs) < MaxInputs
  /\ inputs' = Append(inputs, [frame |-> f, version |-> server.version])
  /\ look' \in Looks
  /\ \/ lastClientSequence' = f.next /\ latestFrame' = None
     \/ UNCHANGED <<lastClientSequence, latestFrame>>
  /\ UNCHANGED <<server, lapsed, changes, frameSequence, display, load, fetch>>

Apply(f) ==
  /\ ValidInput(f)
  /\ Len(inputs) < MaxInputs
  /\ inputs' = Append(inputs, [frame |-> f, version |-> server.version])
  /\ look' \in Looks
  /\ lastClientSequence' = f.next /\ latestFrame' = None
  /\ UNCHANGED <<server, lapsed, changes, frameSequence, display, load, fetch>>

SendInput ==
  /\ mutation = None
  /\ MayAct
  /\ frame # None /\ Apply(frame)
  /\ mutation' = Applied

SendElsewhere ==
  /\ server.status = "claimed" /\ ~lapsed
  /\ latestFrame # None /\ Apply(latestFrame)
  /\ UNCHANGED mutation

ReceiveReceipt ==
  /\ mutation = Applied
  /\ frame' = None
  /\ mutation' = None
  /\ UNCHANGED <<server, lapsed, page, session, inputs, shown, noticed, load, fetch>>

------------------------------------------------------------------------------
Elsewhere == TransitionElsewhere \/ CaptureElsewhere \/ SendElsewhere

Next ==
  \/ LeaseLapses \/ PageChanges \/ Elsewhere
  \/ NoticeExpiry \/ Poll \/ ReceiveLoad \/ LoseLoad
  \/ \E kind \in Transitions : Transition(kind)
  \/ ReceiveTransition \/ LoseMutation
  \/ FetchFrame \/ ReceiveFrame \/ LoseFrame
  \/ SendInput \/ ReceiveReceipt

\* The console polls every few seconds, and of the answers to requests that are
\* made over and over some arrive.
Fairness ==
  /\ WF_vars(Poll) /\ SF_vars(ReceiveLoad)
  /\ WF_vars(ReceiveTransition \/ ReceiveReceipt \/ LoseMutation)
  /\ SF_vars(FetchFrame) /\ SF_vars(ReceiveFrame)

Spec == Init /\ [][Next]_vars /\ Fairness

------------------------------------------------------------------------------
(* Properties *)

TypeOK ==
  /\ server.status \in {"open", "claimed"} \cup Ended /\ server.version \in 1..MaxVersion
  /\ frameSequence \in Nat /\ lastClientSequence \in Nat
  /\ latestFrame # None => latestFrame.sequence <= frameSequence
  /\ frame # None => Owned

\* "Input is accepted once against the current lease and frame" (console.tsx:754):
\* however answers are lost and the input is tried again, and although the driver
\* may raise on it, the browser is given one input per client sequence, without a
\* gap, and no two that an operator decided on by the same frame.
AcceptedOnce ==
  /\ TypeOK
  /\ \A k \in 1..Len(inputs) : inputs[k].frame.next = k
  /\ \A j, k \in 1..Len(inputs) : inputs[j].frame.sequence = inputs[k].frame.sequence => j = k

\* The operator who sent an input had seen the latest frame, captured after every
\* earlier input and under the very lease version in force, so neither a claim, a
\* release nor a heartbeat came in between (validate_input, _invalidate_frame).
DecidedOnCurrentFrame ==
  \A k \in 1..Len(inputs) : /\ inputs[k].frame.seen = k - 1
                            /\ inputs[k].frame.version = inputs[k].version

\* The tab comes to display for good that its intervention has ended, whoever
\* ended it and whatever late answer it still gets.
ShowsTheEnd ==
  server.status \in Ended ~> [](shown # None /\ shown.status \in Ended)

\* An operator who holds the lease and sees that gets a frame to act on, or has
\* lost the lease by then.
OperatorGetsFrame ==
  MayAct ~> (frame # None \/ ~MayAct)
==============================================================================
