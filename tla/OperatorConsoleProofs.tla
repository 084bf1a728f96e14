------------------------ MODULE OperatorConsoleProofs ------------------------
(***************************************************************************)
(* Proofs about OperatorConsole, for any operators, any looks of the page  *)
(* and any bounds.                                                         *)
(***************************************************************************)
EXTENDS OperatorConsole, TLAPS

Statuses == {"open", "claimed", "resolved", "terminated"}
Views == [status : Statuses, owner : Operators \cup {None}, version : 1 .. MaxVersion]
Frames == [sequence : Nat, look : Looks, next : Nat, seen : Nat, version : 1 .. MaxVersion]
Inputs == [frame : Frames, version : 1 .. MaxVersion]

(***************************************************************************)
(* The inductive invariant.                                                *)
(***************************************************************************)
Typed ==
  /\ server \in Views
  /\ look \in Looks /\ noticed \in BOOLEAN
  /\ frameSequence \in Nat /\ lastClientSequence \in Nat
  /\ {latestFrame, frame} \subseteq Frames \cup {None}
  /\ fetch \in [frame : Frames, wanted : BOOLEAN] \cup {None}
  /\ inputs \in Seq(Inputs)

\* The session's frame is of this moment: every input and every transition since
\* its capture would have invalidated it.
LatestIsCurrent ==
  /\ lastClientSequence = Len(inputs)
  /\ latestFrame # None =>
       /\ latestFrame.sequence = frameSequence
       /\ latestFrame.next = lastClientSequence + 1
       /\ latestFrame.seen = Len(inputs)
       /\ latestFrame.version = server.version

\* A frame with the number of the session's is the session's.
Genuine(f) ==
  /\ f.sequence <= frameSequence
  /\ latestFrame # None /\ f.sequence = latestFrame.sequence => f = latestFrame

SeenIsGenuine ==
  /\ frame # None => Genuine(frame)
  /\ fetch # None => Genuine(fetch.frame)

\* The frames of past inputs have numbers of their own, all behind the session's.
InputsAreGenuine ==
  /\ \A k \in 1 .. Len(inputs) :
       /\ inputs[k].frame.next = k
       /\ inputs[k].frame.seen = k - 1
       /\ inputs[k].frame.version = inputs[k].version
       /\ inputs[k].frame.sequence <= frameSequence
       /\ latestFrame # None => inputs[k].frame.sequence < latestFrame.sequence
  /\ \A j, k \in 1 .. Len(inputs) : inputs[j].frame.sequence = inputs[k].frame.sequence => j = k

\* Only a tab that may act has a frame, or waits for one that it will display.
FramesAreOwned ==
  /\ frame # None => Owned
  /\ fetch # None /\ fetch.wanted => Owned

IInv == Typed /\ LatestIsCurrent /\ SeenIsGenuine /\ InputsAreGenuine /\ FramesAreOwned

------------------------------------------------------------------------------
LEMMA InputsAreTyped ==
  ASSUME inputs \in Seq(Inputs), NEW k \in 1 .. Len(inputs)
  PROVE  inputs[k] \in Inputs /\ inputs[k].frame \in Frames /\ inputs[k].frame.sequence \in Nat
<1>1. inputs[k] \in Inputs
  OBVIOUS
<1>2. inputs[k].frame \in Frames
  BY <1>1 DEF Inputs
<1> QED BY <1>1, <1>2 DEF Frames

LEMMA InitInv == Init => IInv
<1> SUFFICES ASSUME Init PROVE IInv
  OBVIOUS
<1>1. server \in Views
  BY BoundsAssumption DEF Init, Views, Statuses
<1>2. Typed
  <2>1. <<>> \in Seq(Inputs)
    OBVIOUS
  <2> QED BY <1>1, <2>1 DEF Init, Typed
<1>3. LatestIsCurrent /\ SeenIsGenuine /\ InputsAreGenuine /\ FramesAreOwned
  BY DEF Init, LatestIsCurrent, SeenIsGenuine, InputsAreGenuine, FramesAreOwned
<1> QED BY <1>2, <1>3 DEF IInv

------------------------------------------------------------------------------
(* Steps of the tab alone: it displays what it had or was about to display. *)

Quiet ==
  /\ UNCHANGED <<server, session, inputs>>
  /\ look' \in Looks /\ noticed' \in BOOLEAN
  /\ frame' = frame \/ frame' = None \/ (fetch # None /\ frame' = fetch.frame)
  /\ fetch' = fetch \/ fetch' = None \/ (fetch # None /\ fetch' = [fetch EXCEPT !.wanted = FALSE])
  /\ FramesAreOwned'

LEMMA DisplayIsQuiet ==
  ASSUME IInv, NEW view, NEW expired \in BOOLEAN, Display(view, expired),
         UNCHANGED <<server, page, session, inputs>>
  PROVE  Quiet
<1> DEFINE owned == Mine(view) /\ ~expired
           same == owned = Owned
<1>1. /\ shown' = view /\ noticed' = expired
      /\ frame' = IF same THEN frame ELSE None
      /\ fetch' = IF \/ fetch = None
                     \/ same /\ shown # None /\ shown.version = view.version
                    THEN fetch
                    ELSE [fetch EXCEPT !.wanted = FALSE]
  BY DEF Display
<1>2. Owned' = owned
  BY <1>1 DEF Owned, Mine
<1>3. look' \in Looks
  BY DEF IInv, Typed, page
<1>4. frame' # None => Owned'
  BY <1>1, <1>2 DEF IInv, FramesAreOwned
<1>5. CASE fetch' = fetch
  <2>1. ASSUME fetch # None, fetch.wanted
        PROVE  same
    <3>1. fetch = [fetch EXCEPT !.wanted = FALSE] => fetch.wanted = FALSE
      BY <2>1 DEF IInv, Typed
    <3> QED BY <1>1, <1>5, <2>1, <3>1
  <2>2. fetch' # None /\ fetch'.wanted => Owned'
    BY <1>2, <1>5, <2>1 DEF IInv, FramesAreOwned
  <2> QED BY <1>1, <1>3, <1>4, <1>5, <2>2 DEF Quiet, FramesAreOwned, session
<1>6. CASE fetch # None /\ fetch' = [fetch EXCEPT !.wanted = FALSE]
  <2>1. fetch'.wanted = FALSE
    BY <1>6 DEF IInv, Typed
  <2> QED BY <1>1, <1>3, <1>4, <1>6, <2>1 DEF Quiet, FramesAreOwned, session
<1> QED BY <1>1, <1>5, <1>6

LEMMA QuietInv ==
  ASSUME IInv, Quiet
  PROVE  IInv'
<1>1. /\ UNCHANGED <<server, frameSequence, latestFrame, lastClientSequence, inputs>>
      /\ look' \in Looks /\ noticed' \in BOOLEAN
      /\ frame' = frame \/ frame' = None \/ (fetch # None /\ frame' = fetch.frame)
      /\ fetch' = fetch \/ fetch' = None
           \/ (fetch # None /\ fetch' = [fetch EXCEPT !.wanted = FALSE])
  BY DEF Quiet, session
<1>2. fetch' \in [frame : Frames, wanted : BOOLEAN] \cup {None}
      /\ (fetch' # None => fetch # None /\ fetch'.frame = fetch.frame)
  BY <1>1 DEF IInv, Typed
<1>3. Typed'
  BY <1>1, <1>2 DEF IInv, Typed
<1>4. LatestIsCurrent' /\ InputsAreGenuine'
  BY <1>1 DEF IInv, LatestIsCurrent, InputsAreGenuine
<1>5. SeenIsGenuine'
  BY <1>1, <1>2 DEF IInv, SeenIsGenuine, Genuine
<1> QED BY <1>3, <1>4, <1>5 DEF IInv, Quiet

LEMMA TabIsQuiet ==
  ASSUME IInv,
         \/ LeaseLapses \/ PageChanges \/ NoticeExpiry \/ Poll \/ ReceiveLoad \/ LoseLoad
         \/ ReceiveTransition \/ LoseMutation \/ ReceiveFrame \/ LoseFrame \/ ReceiveReceipt
  PROVE  Quiet
<1> USE DEF page, session, display, IInv, Typed
<1>0. ASSUME UNCHANGED <<server, session, inputs, shown, noticed, frame>>, look' \in Looks,
             fetch' = fetch \/ fetch' = None
      PROVE  Quiet
  BY <1>0 DEF Quiet, FramesAreOwned, Owned, Mine
<1>1. CASE LeaseLapses BY <1>0, <1>1 DEF LeaseLapses, requests
<1>2. CASE PageChanges BY <1>0, <1>2 DEF PageChanges, requests
<1>3. CASE NoticeExpiry BY <1>3, DisplayIsQuiet DEF NoticeExpiry
<1>4. CASE Poll BY <1>0, <1>4 DEF Poll
<1>5. CASE ReceiveLoad
  <2>1. CASE shown # None /\ shown.version > load.version
    BY <1>0, <1>5, <2>1 DEF ReceiveLoad
  <2>2. CASE ~(shown # None /\ shown.version > load.version)
    BY <1>5, <2>2, DisplayIsQuiet DEF ReceiveLoad
  <2> QED BY <2>1, <2>2
<1>6. CASE LoseLoad BY <1>0, <1>6 DEF LoseLoad
<1>7. CASE ReceiveTransition BY <1>7, DisplayIsQuiet DEF ReceiveTransition
<1>8. CASE LoseMutation BY <1>0, <1>8 DEF LoseMutation
<1>9. CASE ReceiveFrame BY <1>9 DEF ReceiveFrame, Quiet, FramesAreOwned, Owned, Mine
<1>10. CASE LoseFrame BY <1>0, <1>10 DEF LoseFrame
<1>11. CASE ReceiveReceipt BY <1>11 DEF ReceiveReceipt, Quiet, FramesAreOwned, Owned, Mine
<1> QED BY <1>1, <1>2, <1>3, <1>4, <1>5, <1>6, <1>7, <1>8, <1>9, <1>10, <1>11

------------------------------------------------------------------------------
(* Steps of the session *)

LEMMA ServeInv ==
  ASSUME IInv, NEW operator \in Operators, NEW kind \in Transitions, Serve(operator, kind),
         UNCHANGED <<page, inputs, display, fetch>>
  PROVE  IInv'
<1>1. server' \in Views
  BY BoundsAssumption DEF Serve, After, IInv, Typed, Views, Statuses, Transitions
<1>2. /\ latestFrame' = None
      /\ UNCHANGED <<look, changes, inputs, shown, noticed, frame, fetch, frameSequence,
                     lastClientSequence>>
  BY DEF Serve, page, display
<1> QED BY <1>1, <1>2
        DEF IInv, Typed, LatestIsCurrent, SeenIsGenuine, Genuine, InputsAreGenuine,
            FramesAreOwned, Owned, Mine

\* What a capture returns is a frame of this moment, behind all that was used.
LEMMA CaptureIsCurrent ==
  ASSUME IInv
  PROVE  /\ Captured \in Frames
         /\ \/ Captured = latestFrame /\ latestFrame # None /\ Captured.sequence = frameSequence
            \/ Captured.sequence = frameSequence + 1
         /\ Captured.next = lastClientSequence + 1 /\ Captured.seen = Len(inputs)
         /\ Captured.version = server.version
<1>1. /\ frameSequence \in Nat /\ lastClientSequence \in Nat /\ Len(inputs) \in Nat
      /\ server.version \in 1 .. MaxVersion /\ look \in Looks
  BY DEF IInv, Typed, Views
<1>2. CASE latestFrame # None /\ latestFrame.look = look
  BY <1>2 DEF Captured, IInv, Typed, LatestIsCurrent
<1>3. CASE ~(latestFrame # None /\ latestFrame.look = look)
  <2>1. Captured = [sequence |-> frameSequence + 1, look |-> look, next |-> lastClientSequence + 1,
                    seen |-> Len(inputs), version |-> server.version]
    BY <1>3 DEF Captured
  <2> QED BY <1>1, <2>1 DEF Frames
<1> QED BY <1>2, <1>3

LEMMA CaptureInv ==
  ASSUME IInv, Capture, UNCHANGED <<server, page, inputs, display>>,
         \/ UNCHANGED fetch
         \/ fetch' = [frame |-> Captured, wanted |-> TRUE] /\ Owned
  PROVE  IInv'
<1>1. /\ latestFrame' = Captured /\ frameSequence' = Captured.sequence
      /\ UNCHANGED <<lastClientSequence, server, look, inputs, shown, noticed, frame>>
  BY DEF Capture, page, display
<1>2. Captured \in Frames /\ Captured.sequence \in Nat
  BY CaptureIsCurrent DEF Frames
<1>3. fetch' \in [frame : Frames, wanted : BOOLEAN] \cup {None}
  <2>1. [frame |-> Captured, wanted |-> TRUE] \in [frame : Frames, wanted : BOOLEAN]
    BY <1>2
  <2> QED BY <2>1 DEF IInv, Typed
<1>4. Typed'
  BY <1>1, <1>2, <1>3 DEF IInv, Typed
<1>5. LatestIsCurrent'
  BY <1>1, <1>2, CaptureIsCurrent DEF IInv, LatestIsCurrent
<1>6. ASSUME NEW f \in Frames, Genuine(f)
      PROVE  /\ f.sequence <= frameSequence'
             /\ f.sequence = Captured.sequence => f = Captured
  BY <1>1, <1>6, CaptureIsCurrent DEF Genuine, Frames, IInv, Typed
<1>7. SeenIsGenuine'
  <2>1. ASSUME frame' # None
        PROVE  Genuine(frame)'
    BY <1>1, <1>6, <2>1 DEF IInv, Typed, SeenIsGenuine, Genuine
  <2>2. ASSUME fetch' # None
        PROVE  Genuine(fetch.frame)'
    <3>1. CASE UNCHANGED fetch
      BY <1>1, <1>6, <2>2, <3>1 DEF IInv, Typed, SeenIsGenuine, Genuine
    <3>2. CASE fetch' = [frame |-> Captured, wanted |-> TRUE]
      BY <1>1, <1>2, <3>2 DEF Genuine
    <3> QED BY <3>1, <3>2
  <2> QED BY <2>1, <2>2 DEF SeenIsGenuine
<1>8. InputsAreGenuine'
  <2>1. ASSUME NEW k \in 1 .. Len(inputs)
        PROVE  inputs[k].frame.sequence \in Nat
    BY InputsAreTyped DEF IInv, Typed
  <2> QED BY <1>1, <2>1, CaptureIsCurrent DEF IInv, Typed, InputsAreGenuine
<1>9. FramesAreOwned'
  BY <1>1 DEF IInv, FramesAreOwned, Owned, Mine
<1> QED BY <1>4, <1>5, <1>7, <1>8, <1>9 DEF IInv

\* An input that is valid was decided on by the session's own frame.
LEMMA ApplyInv ==
  ASSUME IInv, NEW f, f = latestFrame \/ (f = frame /\ frame # None), Apply(f)
  PROVE  IInv'
<1>1. /\ latestFrame # None /\ f.sequence = latestFrame.sequence
      /\ inputs' = Append(inputs, [frame |-> f, version |-> server.version])
      /\ look' \in Looks
      /\ lastClientSequence' = f.next /\ latestFrame' = None
      /\ UNCHANGED <<server, frameSequence, shown, noticed, frame, fetch>>
  BY DEF Apply, ValidInput, display
<1>2. f = latestFrame
  BY <1>1 DEF IInv, SeenIsGenuine, Genuine
<1>3. /\ f \in Frames /\ f.sequence = frameSequence /\ f.next = Len(inputs) + 1
      /\ f.seen = Len(inputs) /\ f.version = server.version
  BY <1>1, <1>2 DEF IInv, Typed, LatestIsCurrent
<1>4. [frame |-> f, version |-> server.version] \in Inputs
  BY <1>3 DEF IInv, Typed, Inputs, Views
<1>5. /\ inputs' \in Seq(Inputs) /\ Len(inputs') = Len(inputs) + 1
      /\ inputs'[Len(inputs) + 1].frame = f
      /\ inputs'[Len(inputs) + 1].version = server.version
      /\ \A k \in 1 .. Len(inputs) : inputs'[k] = inputs[k]
  BY <1>1, <1>4 DEF IInv, Typed
<1>6. Typed'
  BY <1>1, <1>3, <1>5 DEF IInv, Typed
<1>7. LatestIsCurrent' /\ SeenIsGenuine' /\ FramesAreOwned'
  BY <1>1, <1>3, <1>5 DEF IInv, Typed, LatestIsCurrent, SeenIsGenuine, Genuine, FramesAreOwned,
                          Owned, Mine
<1>8. InputsAreGenuine'
  <2>1. ASSUME NEW k \in 1 .. Len(inputs)
        PROVE  /\ inputs'[k] = inputs[k]
               /\ inputs[k].frame.next = k /\ inputs[k].frame.seen = k - 1
               /\ inputs[k].frame.version = inputs[k].version
               /\ inputs[k].frame.sequence < f.sequence
               /\ inputs[k].frame.sequence \in Nat
    BY <1>1, <1>2, <1>5, InputsAreTyped DEF IInv, Typed, InputsAreGenuine
  <2>2. \A k \in 1 .. Len(inputs') : k \in 1 .. Len(inputs) \/ k = Len(inputs) + 1
    BY <1>5 DEF IInv, Typed
  <2>3. \A k \in 1 .. Len(inputs') :
          /\ inputs'[k].frame.next = k /\ inputs'[k].frame.seen = k - 1
          /\ inputs'[k].frame.version = inputs'[k].version
          /\ inputs'[k].frame.sequence <= frameSequence'
    BY <1>1, <1>3, <1>5, <2>1, <2>2 DEF IInv, Typed
  <2>4. ASSUME NEW j \in 1 .. Len(inputs'), NEW k \in 1 .. Len(inputs'),
               inputs'[j].frame.sequence = inputs'[k].frame.sequence
        PROVE  j = k
    <3>1. f.sequence \in Nat
      BY <1>3 DEF Frames
    <3>2. CASE j \in 1 .. Len(inputs) /\ k \in 1 .. Len(inputs)
      BY <2>1, <2>4, <3>2 DEF IInv, InputsAreGenuine
    <3>3. CASE ~(j \in 1 .. Len(inputs) /\ k \in 1 .. Len(inputs))
      BY <1>5, <2>1, <2>2, <2>4, <3>1, <3>3
    <3> QED BY <3>2, <3>3
  <2> QED BY <1>1, <2>3, <2>4 DEF InputsAreGenuine
<1> QED BY <1>6, <1>7, <1>8 DEF IInv

LEMMA NextInv ==
  ASSUME IInv, [Next]_vars
  PROVE  IInv'
<1>1. CASE UNCHANGED vars
  BY <1>1 DEF vars, page, session, display, requests, IInv, Typed, LatestIsCurrent, SeenIsGenuine,
              Genuine, InputsAreGenuine, FramesAreOwned, Owned, Mine
<1>2. CASE \/ LeaseLapses \/ PageChanges \/ NoticeExpiry \/ Poll \/ ReceiveLoad \/ LoseLoad
           \/ ReceiveTransition \/ LoseMutation \/ ReceiveFrame \/ LoseFrame \/ ReceiveReceipt
  BY <1>2, TabIsQuiet, QuietInv
<1>3. CASE \E kind \in Transitions : Transition(kind)
  BY <1>3, ServeInv, OperatorsAssumption DEF Transition
<1>4. CASE TransitionElsewhere
  BY <1>4, ServeInv DEF TransitionElsewhere, requests
<1>5. CASE CaptureElsewhere
  BY <1>5, CaptureInv DEF CaptureElsewhere, requests
<1>6. CASE FetchFrame
  BY <1>6, CaptureInv DEF FetchFrame, MayAct
<1>7. CASE SendInput
  BY <1>7, ApplyInv DEF SendInput
<1>8. CASE SendElsewhere
  BY <1>8, ApplyInv DEF SendElsewhere
<1> QED BY <1>1, <1>2, <1>3, <1>4, <1>5, <1>6, <1>7, <1>8 DEF Next, Elsewhere

------------------------------------------------------------------------------
(* Theorems *)

\* The invariant the properties follow from: the session's latest frame is of this
\* moment, and a frame with its number is that frame wherever it is.
THEOREM InductiveInvariant == Spec => []IInv
BY InitInv, NextInv, PTL DEF Spec

\* The browser is given one input per client sequence, and none twice by the same
\* frame (validate_input, "Input is accepted once against the current lease and
\* frame" of console.tsx).
THEOREM AlwaysAcceptedOnce == Spec => []AcceptedOnce
<1>1. ASSUME IInv
      PROVE  AcceptedOnce
  BY <1>1 DEF IInv, Typed, Views, Statuses, Ended, LatestIsCurrent, InputsAreGenuine,
              FramesAreOwned, AcceptedOnce, TypeOK
<1> QED BY <1>1, InductiveInvariant, PTL

\* Whoever sent an input had seen the latest frame, captured after every earlier
\* input and under the lease version in force (validate_input, _invalidate_frame).
THEOREM AlwaysDecidedOnCurrentFrame == Spec => []DecidedOnCurrentFrame
<1>1. ASSUME IInv
      PROVE  DecidedOnCurrentFrame
  BY <1>1 DEF IInv, InputsAreGenuine, DecidedOnCurrentFrame
<1> QED BY <1>1, InductiveInvariant, PTL
==============================================================================
