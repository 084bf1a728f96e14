------------------------ MODULE DiscoveryEngineProofs ------------------------
(***************************************************************************)
(* Proofs about DiscoveryEngine, for any screens, operations, conditions   *)
(* and policy layers and any budgets.                                      *)
(***************************************************************************)
EXTENDS DiscoveryEngine, TLAPS

(***************************************************************************)
(* The inductive invariant.  Where the loop is tells how far the budgets   *)
(* are used up: every model call but the planner's belongs to a step of    *)
(* its own, and so does every recording.                                   *)
(***************************************************************************)
Budgets ==
  /\ pc \in {"opening", "planning"} => calls = 0 /\ step = 0
  /\ calls <= step + 1
  /\ pc = "deciding" => calls <= step
  /\ pc \in {"deciding", "acting", "verifying"} => Len(recordings) < step
  /\ pc \notin {"pausing", "paused", "resuming"} =>
       repeatedState < MaxRepeatedState /\ repeatedAction < MaxRepeatedAction

\* What the loop has in its hands where it is.
Holding ==
  /\ pc \in {"deciding", "acting", "verifying", "pausing"} => previous # None
  /\ pc \in {"acting", "verifying"} =>
       /\ proposal \in Proposals
       /\ proposal.marks => \E condition \in Conditions : proposal.op = Assertion(condition)

Typed == TypeOK /\ Budgets /\ Holding

\* The first n operations done are the last n recorded.
Recorded(n) ==
  /\ n <= Len(recordings)
  /\ \A i \in 1 .. n : recordings[Len(recordings) - n + i].op = done[i]

\* Only the operation whose effect is being verified is done and not recorded.
DoneIsRecorded ==
  /\ pc \in {"opening", "planning", "looking", "deciding", "acting", "completing"}
       \/ result = "success" => Recorded(Len(done))
  /\ pc = "verifying" =>
       /\ done # <<>> /\ done[Len(done)] = proposal.op
       /\ Recorded(Len(done) - 1)

OutputsAreRead ==
  /\ \A output \in outputs :
       \E i \in DOMAIN done : done[i].kind = "extract" /\ done[i].output = output
  /\ result = "success" => Required \subseteq outputs

\* Not all of the last n operations tried are op.
Varied(n, op) ==
  Len(tried) >= n => \E j \in Len(tried) - n + 1 .. Len(tried) : tried[j] # op

\* previousAction and repeatedAction describe the end of what was tried: at most
\* repeatedAction + 1 times the same.
TriedIsCounted ==
  /\ \A i \in 1 .. Len(tried) - MaxRepeatedAction :
       \E j \in i + 1 .. i + MaxRepeatedAction : tried[j] # tried[i]
  /\ pc \in {"opening", "planning", "looking", "deciding", "verifying", "completing"} =>
       /\ tried # <<>> => tried[Len(tried)] = previousAction
       /\ Varied(repeatedAction + 2, previousAction)
  /\ pc = "acting" =>
       /\ previousAction = proposal.op
       /\ Varied(repeatedAction + 1, previousAction)

\* The marker is the assertion of its condition, which was verified when it was
\* recorded, behind a prefix; a scenario that is no recovery stops at it.
Marked ==
  branch # None =>
    /\ branch.after > 0 /\ branch.after < Len(recordings)
    /\ recordings[branch.after + 1].op = Assertion(branch.condition)
    /\ branch.condition \in Range(recordings[branch.after + 1].verified)
    /\ scenario # "recovery" => Len(recordings) = branch.after + 1 /\ pc \in {"completing", "over"}

\* A proposal still has its condition to verify, or it is verified.
ProposalIsSound ==
  pc \in {"acting", "verifying"} =>
    /\ proposal.op.condition # None =>
         proposal.op.condition \in Range(proposal.verified) \cup Range(proposal.pending)
    /\ proposal.marks => branch = None /\ recordings # <<>>

BranchIsProven ==
  /\ Marked /\ ProposalIsSound
  /\ result = "success" /\ scenario # None =>
       /\ branch # None
       /\ scenario = "recovery" =>
            \E i \in branch.after + 2 .. Len(recordings) :
              \E condition \in Range(recordings[i].verified) \ {branch.condition} :
                IsSurface(condition)

SessionIsKept ==
  /\ pc = "opening" => session = "none"
  /\ pc \notin {"opening", "over"} => session = "open"
  /\ pc = "over" => session # "open"
  /\ pc = "over" <=> result # None
  /\ pc = "paused" => continuation # None

IInv ==
  /\ Typed /\ DoneIsRecorded /\ OutputsAreRead /\ TriedIsCounted /\ BranchIsProven
  /\ SessionIsKept /\ WithinEveryLayer
------------------------------------------------------------------------------
(* The steps that end a run are alike. *)

Ending ==
  \/ StepsExhausted \/ CallsExhausted \/ FailCall \/ Deny \/ Unverified \/ PauseUnrecorded
  \/ Cancel \/ Incomplete \/ Abort

Quits ==
  /\ pc # "over" /\ pc' = "over" /\ result' \in {"failure", "raised"}
  /\ session' = IF session = "none" THEN "none" ELSE "closed"
  /\ Forget
  /\ calls' \in 0 .. MaxCalls /\ calls' <= step + 1
  /\ continuation' \in Screens \cup {None}

LEMMA EndingQuits ==
  ASSUME Typed, Ending
  PROVE  Quits
<1> USE DiscoveryAssumption DEF Quits, End, Fail, Typed, TypeOK, Budgets
<1>1. CASE StepsExhausted BY <1>1 DEF StepsExhausted
<1>2. CASE CallsExhausted BY <1>2 DEF CallsExhausted
<1>3. CASE FailCall BY <1>3 DEF FailCall
<1>4. CASE Deny BY <1>4 DEF Deny
<1>5. CASE Unverified BY <1>5 DEF Unverified
<1>6. CASE PauseUnrecorded BY <1>6 DEF PauseUnrecorded
<1>7. CASE Cancel BY <1>7 DEF Cancel
<1>8. CASE Incomplete BY <1>8 DEF Incomplete
<1>9. CASE Abort BY <1>9 DEF Abort
<1> QED BY <1>1, <1>2, <1>3, <1>4, <1>5, <1>6, <1>7, <1>8, <1>9 DEF Ending

\* A proposal is an act proposal or the claim of a branch.
Proposes ==
  \/ \E op \in Proposable, expects \in Expectations \cup {None}, confident \in BOOLEAN :
       Propose(op, expects, confident, FALSE)
  \/ \E condition \in Conditions : MarkBranch(condition)

\* What the loop does besides.
Other ==
  \/ Open \/ Plan \/ Look \/ Escalate \/ ClaimCompletion \/ Interrupt
  \/ Pause \/ Resume \/ RejectCompletion \/ Complete \/ ScreenChanges

LEMMA NextByKind ==
  ASSUME Next
  PROVE  \/ Ending \/ Proposes \/ Other
         \/ Reject \/ Dispatch \/ Verify \/ Record \/ Continue
BY DEF Next, Ending, Proposes, Other

------------------------------------------------------------------------------
(* Types *)

LEMMA OptionalIsTyped ==
  ASSUME NEW condition \in Conditions \cup Expectations \cup {None}
  PROVE  Optional(condition) \in Seq(Conditions \cup Expectations)
<1>1. CASE condition = None
  BY <1>1 DEF Optional
<1>2. CASE condition # None
  <2>1. condition \in Conditions \cup Expectations
    BY <1>2
  <2>2. <<condition>> \in Seq(Conditions \cup Expectations)
    BY <2>1
  <2> QED BY <1>2, <2>2 DEF Optional
<1> QED BY <1>1, <1>2

LEMMA AssertionIsOfItsCondition ==
  ASSUME NEW condition
  PROVE  Assertion(condition).condition = condition
BY DEF Assertion

LEMMA PendingIsTyped ==
  ASSUME NEW op \in Proposable, NEW expects \in Expectations \cup {None}
  PROVE  /\ op.condition \in Conditions \cup {None}
         /\ Optional(op.condition) \o Optional(expects) \in Verified
         /\ op.condition # None =>
              op.condition \in Range(Optional(op.condition) \o Optional(expects))
<1>1. op.condition \in Conditions \cup {None}
  BY DiscoveryAssumption DEF Proposable, Assertion
<1>2. /\ Optional(op.condition) \in Seq(Conditions \cup Expectations)
      /\ Optional(expects) \in Seq(Conditions \cup Expectations)
  BY <1>1, OptionalIsTyped
<1>3. Optional(op.condition) \o Optional(expects) \in Verified
  BY <1>2 DEF Verified
<1>4. ASSUME op.condition # None
      PROVE  op.condition \in Range(Optional(op.condition) \o Optional(expects))
  <2>1. Optional(op.condition) = <<op.condition>>
    BY <1>4 DEF Optional
  <2>2. /\ 1 \in DOMAIN (<<op.condition>> \o Optional(expects))
        /\ (<<op.condition>> \o Optional(expects))[1] = op.condition
    BY <1>2
  <2> QED BY <2>1, <2>2 DEF Range
<1> QED BY <1>1, <1>3, <1>4

LEMMA RiskIsTyped ==
  ASSUME NEW op \in Proposable
  PROVE  EffectiveRisk(Context(op)) \in Risks
<1>1. op.declared \in Risks /\ op.words \in Risks \cup {None} /\ op.registered \in Risks \cup {None}
  BY DiscoveryAssumption DEF Proposable, Assertion, Risks, RISK_RANK
<1>2. InferredRisk(Context(op)) \in Risks
  BY <1>1 DEF InferredRisk, Context, Risks, RISK_RANK
<1> QED BY <1>1, <1>2 DEF EffectiveRisk, Worse, Context

LEMMA InitTyped == Init => Typed
BY DiscoveryAssumption
   DEF Init, Typed, TypeOK, Budgets, Holding

LEMMA QuitsTyped ==
  ASSUME Typed, Quits
  PROVE  Typed'
BY DiscoveryAssumption DEF Quits, Forget, Typed, TypeOK, Budgets, Holding

LEMMA ProposesTyped ==
  ASSUME Typed, Proposes
  PROVE  Typed'
<1>1. PICK op \in Proposable, expects \in Expectations \cup {None}, confident \in BOOLEAN,
           marks \in BOOLEAN :
        /\ Propose(op, expects, confident, marks)
        /\ marks => \E condition \in Conditions : op = Assertion(condition)
  BY DEF Proposes, MarkBranch, Proposable
<1>2. [op |-> op, marks |-> marks, verified |-> <<>>,
       pending |-> Optional(op.condition) \o Optional(expects)] \in Proposals
  BY PendingIsTyped DEF Proposals, Verified
<1>3. /\ Decided /\ previousAction' = op
      /\ repeatedAction' = IF op = previousAction THEN repeatedAction + 1 ELSE 0
      /\ \/ pc' = "pausing" /\ UNCHANGED proposal
         \/ /\ pc' = "acting" /\ repeatedAction' < MaxRepeatedAction
            /\ proposal' \in Proposals
            /\ proposal'.op = op /\ proposal'.marks = marks
  <2>1. CASE repeatedAction' >= MaxRepeatedAction \/ ~confident
    BY <1>1, <2>1 DEF Propose, Handoff
  <2>2. CASE ~(repeatedAction' >= MaxRepeatedAction \/ ~confident)
    <3>1. /\ pc' = "acting"
          /\ proposal' \in Proposals
          /\ proposal'.op = op /\ proposal'.marks = marks
      <4>1. /\ pc' = "acting"
            /\ proposal' = [op |-> op, marks |-> marks, verified |-> <<>>,
                            pending |-> Optional(op.condition) \o Optional(expects)]
        BY <1>1, <2>2 DEF Propose
      <4> QED BY <1>2, <4>1
    <3>2. repeatedAction' \in Nat
      BY <1>1 DEF Propose, Typed, TypeOK
    <3> QED BY <1>1, <2>2, <3>1, <3>2, DiscoveryAssumption DEF Propose
  <2> QED BY <2>1, <2>2
<1>4. TypeOK'
  BY <1>3, DiscoveryAssumption DEF Decided, request, trace, history, Typed, TypeOK, Budgets
<1>5. Budgets'
  BY <1>3, DiscoveryAssumption DEF Decided, request, trace, history, Typed, TypeOK, Budgets
<1>6. Holding'
  BY <1>1, <1>3 DEF Decided, Typed, Holding
<1> QED BY <1>4, <1>5, <1>6 DEF Typed

LEMMA OtherTyped ==
  ASSUME Typed, Other
  PROVE  Typed'
<1> USE DiscoveryAssumption DEF request, trace, history, counters, Handoff, Typed, TypeOK, Budgets, Holding
<1>1. CASE Open BY <1>1 DEF Open
<1>2. CASE Plan BY <1>2 DEF Plan
<1>3. CASE Look BY <1>3 DEF Look
<1>4. CASE Escalate BY <1>4 DEF Escalate, Decided
<1>5. CASE ClaimCompletion BY <1>5 DEF ClaimCompletion, Decided
<1>6. CASE Interrupt BY <1>6 DEF Interrupt
<1>7. CASE Pause BY <1>7 DEF Pause
<1>8. CASE Resume BY <1>8 DEF Resume
<1>9. CASE RejectCompletion BY <1>9 DEF RejectCompletion
<1>10. CASE Complete BY <1>10 DEF Complete, End
<1>11. CASE ScreenChanges BY <1>11 DEF ScreenChanges
<1> QED BY <1>1, <1>2, <1>3, <1>4, <1>5, <1>6, <1>7, <1>8, <1>9, <1>10, <1>11 DEF Other

LEMMA RejectTyped ==
  ASSUME Typed, Reject
  PROVE  Typed'
BY DiscoveryAssumption
   DEF Reject, request, trace, Typed, TypeOK, Budgets, Holding, Proposals

LEMMA DispatchTyped ==
  ASSUME Typed, Dispatch
  PROVE  Typed'
<1>1. proposal.op \in Proposable
  BY DEF Dispatch, Typed, Holding, Proposals
<1>2. screen' \in Screens /\ outputs' \subseteq Outputs
  BY DEF Dispatch, Unready, Typed, TypeOK
<1>3. tried' \in Seq(Proposable) /\ done' \in Seq(Proposable)
  BY <1>1 DEF Dispatch, Typed, TypeOK
<1> QED BY <1>2, <1>3 DEF Dispatch, request, counters, Typed, TypeOK, Budgets, Holding

LEMMA VerifyTyped ==
  ASSUME Typed, Verify
  PROVE  /\ Typed'
         /\ proposal'.op = proposal.op /\ proposal'.marks = proposal.marks
         /\ proposal'.verified = Append(proposal.verified, Head(proposal.pending))
         /\ proposal'.pending = Tail(proposal.pending)
<1>1. /\ proposal.op \in Proposable /\ proposal.marks \in BOOLEAN
      /\ proposal.verified \in Verified /\ proposal.pending \in Verified
      /\ proposal.pending # <<>>
  BY DEF Verify, Typed, Holding, Proposals
<1>2. proposal' = [op |-> proposal.op, marks |-> proposal.marks,
                   verified |-> Append(proposal.verified, Head(proposal.pending)),
                   pending |-> Tail(proposal.pending)]
  BY DEF Verify, Typed, Holding, Proposals
<1>3. proposal' \in Proposals
  BY <1>1, <1>2 DEF Proposals, Verified
<1> QED BY <1>2, <1>3 DEF Verify, request, counters, trace, history, Typed, TypeOK, Budgets, Holding

LEMMA RecordTyped ==
  ASSUME Typed, Record
  PROVE  Typed'
<1>1. /\ proposal.op \in Proposable /\ proposal.marks \in BOOLEAN /\ proposal.verified \in Verified
  BY DEF Record, Typed, Holding, Proposals
<1>2. [op |-> proposal.op, risk |-> EffectiveRisk(Context(proposal.op)),
       onRoute |-> LocationAllowed(policy, screen), verified |-> proposal.verified] \in Recordings
  BY <1>1, RiskIsTyped DEF Recordings, LocationAllowed
<1>3. recordings' \in Seq(Recordings) /\ Len(recordings') = Len(recordings) + 1
  BY <1>2 DEF Record, Typed, TypeOK
<1>4. ASSUME proposal.marks
      PROVE  proposal.op.condition \in Conditions
  BY <1>4, AssertionIsOfItsCondition DEF Record, Typed, Holding
<1>5. branch' \in [after : Nat, condition : Conditions] \cup {None}
  BY <1>1, <1>4 DEF Record, Typed, TypeOK
<1>6. /\ pc' \in {"completing", "looking"} /\ previous' \in {screen, previous} /\ proposal' = None
      /\ UNCHANGED <<scenario, session, continuation, result, screen, repeatedState,
                     previousAction, repeatedAction, step, calls, outputs, tried, done>>
  BY DEF Record, request, history
<1>7. Len(recordings) < step
  BY DEF Record, Typed, Budgets
<1>8. TypeOK'
  BY <1>3, <1>5, <1>6, <1>7 DEF Typed, TypeOK
<1> QED BY <1>3, <1>8, DiscoveryAssumption DEF Record, request, Typed, TypeOK, Budgets, Holding

LEMMA ContinueTyped ==
  ASSUME Typed, Continue
  PROVE  Typed'
BY DiscoveryAssumption DEF Continue, request, Typed, TypeOK, Budgets, Holding

LEMMA NextTyped ==
  ASSUME Typed, [Next]_vars
  PROVE  Typed'
<1>1. CASE UNCHANGED vars
  BY <1>1 DEF vars, Typed, TypeOK, Budgets, Holding
<1>2. CASE Next
  BY <1>2, NextByKind, EndingQuits, QuitsTyped, ProposesTyped, OtherTyped, RejectTyped,
     DispatchTyped, VerifyTyped, RecordTyped, ContinueTyped
<1> QED BY <1>1, <1>2

------------------------------------------------------------------------------
(* What proposals and the other steps leave alone. *)

LEMMA ProposesMoves ==
  ASSUME Typed, Proposes
  PROVE  /\ UNCHANGED <<request, screen, previous, trace, history>>
         /\ pc = "deciding" /\ pc' \in {"acting", "pausing"}
         /\ \E op \in Proposable, expects \in Expectations \cup {None}, marks \in BOOLEAN :
              /\ repeatedAction' = IF op = previousAction THEN repeatedAction + 1 ELSE 0
              /\ previousAction' = op
              /\ marks => scenario # None /\ branch = None /\ recordings # <<>>
              /\ pc' = "acting" =>
                   proposal' = [op |-> op, marks |-> marks, verified |-> <<>>,
                                pending |-> Optional(op.condition) \o Optional(expects)]
<1>1. PICK op \in Proposable, expects \in Expectations \cup {None}, confident \in BOOLEAN,
           marks \in BOOLEAN :
        /\ Propose(op, expects, confident, marks)
        /\ marks => scenario # None /\ branch = None /\ recordings # <<>>
  BY DEF Proposes, MarkBranch, Proposable
<1>2. /\ Decided /\ pc' \in {"acting", "pausing"}
      /\ repeatedAction' = IF op = previousAction THEN repeatedAction + 1 ELSE 0
      /\ previousAction' = op
      /\ pc' = "acting" =>
           proposal' = [op |-> op, marks |-> marks, verified |-> <<>>,
                        pending |-> Optional(op.condition) \o Optional(expects)]
  <2>1. CASE repeatedAction' >= MaxRepeatedAction \/ ~confident
    BY <1>1, <2>1 DEF Propose, Handoff
  <2>2. CASE ~(repeatedAction' >= MaxRepeatedAction \/ ~confident)
    BY <1>1, <2>2 DEF Propose
  <2> QED BY <2>1, <2>2
<1> QED BY <1>1, <1>2 DEF Decided

LEMMA OtherMoves ==
  ASSUME Other
  PROVE  /\ UNCHANGED <<scenario, trace, history, previousAction, repeatedAction>>
         /\ pc # "over"
         /\ pc' \in {"opening", "planning", "looking", "deciding", "acting", "completing", "over"} =>
              pc \in {"opening", "planning", "looking", "deciding", "completing"}
         /\ pc' # "acting"
         /\ pc' = "verifying" => pc = "verifying" /\ proposal' = proposal
         /\ pc = "completing" =>
              pc' = "over" \/ scenario = "recovery"
         /\ \/ UNCHANGED result /\ pc' # "over"
            \/ Complete /\ result' = "success" /\ pc = "completing" /\ pc' = "over"
<1> USE DEF request, trace, history, counters, Handoff
<1>1. CASE Open BY <1>1 DEF Open
<1>2. CASE Plan BY <1>2 DEF Plan
<1>3. CASE Look BY <1>3 DEF Look
<1>4. CASE Escalate BY <1>4 DEF Escalate, Decided
<1>5. CASE ClaimCompletion BY <1>5 DEF ClaimCompletion, Decided
<1>6. CASE Interrupt BY <1>6 DEF Interrupt
<1>7. CASE Pause BY <1>7 DEF Pause
<1>8. CASE Resume BY <1>8 DEF Resume
<1>9. CASE RejectCompletion BY <1>9 DEF RejectCompletion
<1>10. CASE Complete BY <1>10 DEF Complete, End
<1>11. CASE ScreenChanges BY <1>11 DEF ScreenChanges
<1> QED BY <1>1, <1>2, <1>3, <1>4, <1>5, <1>6, <1>7, <1>8, <1>9, <1>10, <1>11 DEF Other

------------------------------------------------------------------------------
(* The browser and the run *)

LEMMA NextSessionIsKept ==
  ASSUME Typed, SessionIsKept, [Next]_vars
  PROVE  SessionIsKept'
<1> USE DiscoveryAssumption DEF SessionIsKept
<1>1. CASE UNCHANGED vars BY <1>1 DEF vars
<1>2. CASE Ending BY <1>2, EndingQuits DEF Quits, Typed, TypeOK
<1>3. CASE Proposes BY <1>3, ProposesMoves DEF request
<1>4. CASE Reject BY <1>4 DEF Reject, request
<1>5. CASE Dispatch BY <1>5 DEF Dispatch, request
<1>6. CASE Verify BY <1>6 DEF Verify, request
<1>7. CASE Record BY <1>7 DEF Record, request
<1>8. CASE Continue BY <1>8 DEF Continue, request
<1>9. CASE Other
  <2> USE DEF request, Handoff
  <2>1. CASE Open BY <2>1 DEF Open
  <2>2. CASE Plan BY <2>2 DEF Plan
  <2>3. CASE Look BY <2>3 DEF Look
  <2>4. CASE Escalate BY <2>4 DEF Escalate, Decided
  <2>5. CASE ClaimCompletion BY <2>5 DEF ClaimCompletion, Decided
  <2>6. CASE Interrupt BY <2>6 DEF Interrupt
  <2>7. CASE Pause BY <2>7 DEF Pause, Typed, Holding
  <2>8. CASE Resume BY <2>8 DEF Resume
  <2>9. CASE RejectCompletion BY <2>9 DEF RejectCompletion
  <2>10. CASE Complete BY <2>10 DEF Complete, End
  <2>11. CASE ScreenChanges BY <2>11 DEF ScreenChanges
  <2> QED BY <1>9, <2>1, <2>2, <2>3, <2>4, <2>5, <2>6, <2>7, <2>8, <2>9, <2>10, <2>11 DEF Other
<1> QED BY <1>1, <1>2, <1>3, <1>4, <1>5, <1>6, <1>7, <1>8, <1>9, NextByKind

------------------------------------------------------------------------------
(* The trace and what was done *)

LEMMA NextDoneIsRecorded ==
  ASSUME Typed, SessionIsKept, DoneIsRecorded, [Next]_vars
  PROVE  DoneIsRecorded'
<1>0. recordings \in Seq(Recordings) /\ done \in Seq(Proposable)
  BY DEF Typed, TypeOK
<1>1. CASE UNCHANGED vars
  BY <1>1 DEF vars, DoneIsRecorded, Recorded
<1>2. CASE Ending
  BY <1>2, EndingQuits DEF Quits, Forget, DoneIsRecorded, Recorded
<1>3. CASE Proposes
  BY <1>3, ProposesMoves DEF request, trace, history, DoneIsRecorded, Recorded
<1>4. CASE Other
  BY <1>4, OtherMoves DEF request, trace, history, DoneIsRecorded, Recorded
<1>5. CASE Reject
  BY <1>5 DEF Reject, request, trace, DoneIsRecorded, Recorded
<1>6. CASE Dispatch
  <2>1. /\ pc = "acting" /\ pc' = "verifying" /\ result' = result /\ recordings' = recordings
        /\ proposal' = proposal /\ done' = Append(done, proposal.op)
    BY <1>6 DEF Dispatch, request
  <2>2. Recorded(Len(done))
    BY <2>1 DEF DoneIsRecorded
  <2>3. /\ done' # <<>> /\ Len(done') = Len(done) + 1 /\ done'[Len(done')] = proposal.op
        /\ \A i \in 1 .. Len(done) : done'[i] = done[i]
    BY <1>0, <2>1
  <2>4. Recorded(Len(done) - 1)'
    BY <1>0, <2>1, <2>2, <2>3 DEF Recorded
  <2>5. result' # "success"
    BY <2>1, DiscoveryAssumption DEF SessionIsKept
  <2> QED BY <2>1, <2>3, <2>4, <2>5 DEF DoneIsRecorded
<1>7. CASE Verify
  BY <1>7, VerifyTyped DEF Verify, request, trace, history, DoneIsRecorded, Recorded
<1>8. CASE Record
  <2>1. /\ pc = "verifying" /\ pc' \in {"looking", "completing"} /\ done' = done
        /\ recordings' = Append(recordings,
             [op |-> proposal.op, risk |-> EffectiveRisk(Context(proposal.op)),
              onRoute |-> LocationAllowed(policy, screen), verified |-> proposal.verified])
    BY <1>8 DEF Record, history
  <2>2. /\ Len(recordings') = Len(recordings) + 1
        /\ recordings'[Len(recordings) + 1].op = proposal.op
        /\ \A i \in 1 .. Len(recordings) : recordings'[i] = recordings[i]
    BY <1>0, <2>1
  <2>3. done # <<>> /\ done[Len(done)] = proposal.op /\ Recorded(Len(done) - 1)
    BY <2>1 DEF DoneIsRecorded
  <2>4. \A i \in 1 .. Len(done) : recordings'[Len(recordings') - Len(done) + i].op = done[i]
    <3> SUFFICES ASSUME NEW i \in 1 .. Len(done)
                 PROVE  recordings'[Len(recordings') - Len(done) + i].op = done[i]
      OBVIOUS
    <3>1. CASE i = Len(done)
      BY <1>0, <2>2, <2>3, <3>1
    <3>2. CASE i # Len(done)
      <4>1. i \in 1 .. Len(done) - 1
        BY <1>0, <3>2
      <4>2. /\ Len(recordings') - Len(done) + i = Len(recordings) - (Len(done) - 1) + i
            /\ Len(recordings) - (Len(done) - 1) + i \in 1 .. Len(recordings)
        BY <1>0, <2>2, <2>3, <4>1 DEF Recorded
      <4> QED BY <2>2, <2>3, <4>1, <4>2 DEF Recorded
    <3> QED BY <3>1, <3>2
  <2>5. Recorded(Len(done))'
    BY <1>0, <2>1, <2>2, <2>3, <2>4 DEF Recorded
  <2> QED BY <2>1, <2>5 DEF DoneIsRecorded
<1>9. CASE Continue
  BY <1>0, <1>9 DEF Continue, request, DoneIsRecorded, Recorded
<1> QED BY <1>1, <1>2, <1>3, <1>4, <1>5, <1>6, <1>7, <1>8, <1>9, NextByKind

LEMMA NextOutputsAreRead ==
  ASSUME Typed, SessionIsKept, OutputsAreRead, [Next]_vars
  PROVE  OutputsAreRead'
<1>0. done \in Seq(Proposable)
  BY DEF Typed, TypeOK
<1>1. CASE UNCHANGED vars
  BY <1>1 DEF vars, OutputsAreRead, Required
<1>2. CASE Ending
  BY <1>2, EndingQuits DEF Quits, Forget, OutputsAreRead
<1>3. CASE Proposes
  BY <1>3, ProposesMoves DEF request, trace, history, OutputsAreRead, Required
<1>4. CASE Other
  <2>1. UNCHANGED <<scenario, outputs, done>>
    BY <1>4, OtherMoves DEF trace, history
  <2>2. CASE UNCHANGED result
    BY <2>1, <2>2 DEF OutputsAreRead, Required
  <2>3. CASE Complete
    BY <2>1, <2>3 DEF Complete, Completes, OutputsAreRead, Required
  <2> QED BY <1>4, <2>2, <2>3, OtherMoves
<1>5. CASE Reject
  BY <1>5 DEF Reject, request, trace, OutputsAreRead, Required
<1>6. CASE Dispatch
  <2>1. /\ pc # "over" /\ result' = result /\ done' = Append(done, proposal.op)
        /\ outputs' = IF proposal.op.kind = "extract" THEN outputs \cup {proposal.op.output}
                                                      ELSE outputs
    BY <1>6 DEF Dispatch, request
  <2>2. /\ Len(done) + 1 \in DOMAIN done' /\ done'[Len(done) + 1] = proposal.op
        /\ \A i \in DOMAIN done : i \in DOMAIN done' /\ done'[i] = done[i]
    BY <1>0, <2>1
  <2>3. ASSUME NEW output \in outputs'
        PROVE  \E i \in DOMAIN done' : done'[i].kind = "extract" /\ done'[i].output = output
    <3>1. CASE output \in outputs
      BY <2>2, <3>1 DEF OutputsAreRead
    <3>2. CASE output \notin outputs
      BY <2>1, <2>2, <3>2
    <3> QED BY <3>1, <3>2
  <2>4. result' # "success"
    BY <2>1, DiscoveryAssumption DEF SessionIsKept
  <2> QED BY <2>3, <2>4 DEF OutputsAreRead
<1>7. CASE Verify
  BY <1>7 DEF Verify, request, trace, history, OutputsAreRead, Required
<1>8. CASE Record
  BY <1>8 DEF Record, request, history, OutputsAreRead, Required
<1>9. CASE Continue
  BY <1>9, DiscoveryAssumption DEF Continue, request, OutputsAreRead, SessionIsKept
<1> QED BY <1>1, <1>2, <1>3, <1>4, <1>5, <1>6, <1>7, <1>8, <1>9, NextByKind

------------------------------------------------------------------------------
(* The count of repeated actions *)

\* What a try adds to a counted history, tried before it.
LEMMA TryIsCounted ==
  ASSUME NEW op \in Proposable, tried \in Seq(Proposable), tried' = Append(tried, op),
         repeatedAction \in Nat, repeatedAction < MaxRepeatedAction,
         Varied(repeatedAction + 1, op),
         \A i \in 1 .. Len(tried) - MaxRepeatedAction :
           \E j \in i + 1 .. i + MaxRepeatedAction : tried[j] # tried[i]
  PROVE  /\ Len(tried') >= repeatedAction + 2 =>
              \E j \in Len(tried') - (repeatedAction + 2) + 1 .. Len(tried') : tried'[j] # op
         /\ tried' # <<>> /\ tried'[Len(tried')] = op
         /\ \A i \in 1 .. Len(tried') - MaxRepeatedAction :
              \E j \in i + 1 .. i + MaxRepeatedAction : tried'[j] # tried'[i]
<1>1. /\ Len(tried) \in Nat /\ Len(tried') = Len(tried) + 1 /\ tried'[Len(tried) + 1] = op
      /\ \A i \in 1 .. Len(tried) : tried'[i] = tried[i]
  OBVIOUS
<1>2. MaxRepeatedAction \in Nat
  BY DiscoveryAssumption
<1>3. ASSUME Len(tried') >= repeatedAction + 2
      PROVE  \E j \in Len(tried') - (repeatedAction + 2) + 1 .. Len(tried') : tried'[j] # op
  <2>1. PICK j \in Len(tried) - (repeatedAction + 1) + 1 .. Len(tried) : tried[j] # op
    BY <1>1, <1>3 DEF Varied
  <2>2. /\ j \in Len(tried') - (repeatedAction + 2) + 1 .. Len(tried')
        /\ j \in 1 .. Len(tried)
    BY <1>1, <1>3, <2>1
  <2> QED BY <1>1, <2>1, <2>2
<1>4. ASSUME NEW i \in 1 .. Len(tried') - MaxRepeatedAction
      PROVE  \E j \in i + 1 .. i + MaxRepeatedAction : tried'[j] # tried'[i]
  <2>1. CASE i <= Len(tried) - MaxRepeatedAction
    <3>0. i \in 1 .. Len(tried) - MaxRepeatedAction
      BY <1>1, <1>2, <2>1
    <3>1. PICK j \in i + 1 .. i + MaxRepeatedAction : tried[j] # tried[i]
      BY <3>0
    <3>2. i \in 1 .. Len(tried) /\ j \in 1 .. Len(tried)
      BY <1>1, <1>2, <2>1, <3>1
    <3> QED BY <1>1, <3>1, <3>2
  <2>2. CASE i > Len(tried) - MaxRepeatedAction
    <3>0. Len(tried) \in Nat /\ Len(tried') = Len(tried) + 1
      BY <1>1
    <3>1. i \in Int /\ i + MaxRepeatedAction = Len(tried')
      BY <1>2, <2>2, <3>0
    <3>2. CASE tried'[i] # op
      <4>1. Len(tried') \in i + 1 .. i + MaxRepeatedAction
        BY <1>2, <3>0, <3>1, DiscoveryAssumption
      <4>2. tried'[Len(tried')] = op
        BY <1>1
      <4> QED BY <3>2, <4>1, <4>2
    <3>3. CASE tried'[i] = op
      <4>1. Len(tried') >= repeatedAction + 2
        BY <1>1, <1>2, <3>1
      <4>2. PICK j \in Len(tried') - (repeatedAction + 2) + 1 .. Len(tried') : tried'[j] # op
        BY <1>3, <4>1
      <4>3. j >= i
        BY <1>1, <1>2, <3>1, <4>2
      <4>4. j # i
        BY <3>3, <4>2
      <4> QED BY <1>1, <1>2, <3>1, <3>3, <4>2, <4>3, <4>4
    <3> QED BY <3>2, <3>3
  <2>3. Len(tried) \in Nat /\ Len(tried') = Len(tried) + 1
    BY <1>1
  <2>4. i \in Int
    BY <1>2, <2>3
  <2>5. i <= Len(tried) - MaxRepeatedAction \/ i > Len(tried) - MaxRepeatedAction
    BY <1>2, <2>3, <2>4
  <2> QED BY <2>1, <2>2, <2>5
<1>5. tried' # <<>> /\ tried'[Len(tried')] = op
  BY <1>1
<1> QED BY <1>3, <1>4, <1>5

LEMMA NextTriedIsCounted ==
  ASSUME Typed, TriedIsCounted, [Next]_vars
  PROVE  TriedIsCounted'
<1>0. /\ tried \in Seq(Proposable) /\ repeatedAction \in Nat
      /\ Len(tried) \in Nat
  BY DEF Typed, TypeOK
<1>1. CASE UNCHANGED vars
  BY <1>1 DEF vars, TriedIsCounted, Varied
<1>2. CASE Ending
  BY <1>2, EndingQuits, DiscoveryAssumption DEF Quits, Forget, TriedIsCounted
<1>3. CASE Proposes
  <2>1. PICK op \in Proposable :
          /\ repeatedAction' = IF op = previousAction THEN repeatedAction + 1 ELSE 0
          /\ previousAction' = op
          /\ pc' = "acting" => proposal'.op = op
    BY <1>3, ProposesMoves
  <2>2. pc = "deciding" /\ pc' \in {"acting", "pausing"} /\ tried' = tried
    BY <1>3, ProposesMoves DEF history
  <2>3. /\ tried # <<>> => tried[Len(tried)] = previousAction
        /\ Varied(repeatedAction + 2, previousAction)
    BY <2>2 DEF TriedIsCounted
  <2>4. Varied(repeatedAction + 1, previousAction)'
    <3>1. CASE op = previousAction
      BY <1>0, <2>1, <2>2, <2>3, <3>1 DEF Varied
    <3>2. CASE op # previousAction
      BY <1>0, <2>1, <2>2, <2>3, <3>2 DEF Varied
    <3> QED BY <3>1, <3>2
  <2> QED BY <2>1, <2>2, <2>4 DEF TriedIsCounted
<1>4. CASE Other
  BY <1>4, OtherMoves DEF history, TriedIsCounted, Varied
<1>5. CASE Reject \/ Dispatch
  <2>1. /\ pc = "acting" /\ pc' \in {"looking", "verifying"}
        /\ tried' = Append(tried, proposal.op) /\ UNCHANGED <<previousAction, repeatedAction>>
    BY <1>5 DEF Reject, Dispatch, counters
  <2>2. proposal.op \in Proposable /\ repeatedAction < MaxRepeatedAction
    BY <2>1 DEF Typed, Budgets, Holding, Proposals
  <2>3. previousAction = proposal.op /\ Varied(repeatedAction + 1, proposal.op)
    BY <2>1 DEF TriedIsCounted
  <2>4. /\ Len(tried') >= repeatedAction + 2 =>
             \E j \in Len(tried') - (repeatedAction + 2) + 1 .. Len(tried') :
               tried'[j] # proposal.op
        /\ tried' # <<>> /\ tried'[Len(tried')] = proposal.op
        /\ \A i \in 1 .. Len(tried') - MaxRepeatedAction :
             \E j \in i + 1 .. i + MaxRepeatedAction : tried'[j] # tried'[i]
    BY <1>0, <2>1, <2>2, <2>3, TryIsCounted DEF TriedIsCounted
  <2> QED BY <2>1, <2>3, <2>4 DEF TriedIsCounted, Varied
<1>6. CASE Verify
  BY <1>6 DEF Verify, counters, history, TriedIsCounted, Varied
<1>7. CASE Record
  BY <1>7 DEF Record, history, TriedIsCounted, Varied
<1>8. CASE Continue
  BY <1>8, DiscoveryAssumption DEF Continue, TriedIsCounted, Varied
<1> QED BY <1>1, <1>2, <1>3, <1>4, <1>5, <1>6, <1>7, <1>8, NextByKind

------------------------------------------------------------------------------
(* The branch of a scenario *)

LEMMA NextBranchIsProven ==
  ASSUME Typed, SessionIsKept, BranchIsProven, [Next]_vars
  PROVE  BranchIsProven'
<1>0. recordings \in Seq(Recordings)
  BY DEF Typed, TypeOK
<1>1. CASE UNCHANGED vars
  BY <1>1 DEF vars, BranchIsProven, Marked, ProposalIsSound
<1>2. CASE Ending
  BY <1>2, EndingQuits DEF Quits, Forget, BranchIsProven, Marked, ProposalIsSound
<1>3. CASE Proposes
  <2>1. PICK op \in Proposable, expects \in Expectations \cup {None}, marks \in BOOLEAN :
          /\ marks => branch = None /\ recordings # <<>>
          /\ pc' = "acting" =>
               proposal' = [op |-> op, marks |-> marks, verified |-> <<>>,
                            pending |-> Optional(op.condition) \o Optional(expects)]
    BY <1>3, ProposesMoves
  <2>2. /\ UNCHANGED <<scenario, result, recordings, branch>>
        /\ pc = "deciding" /\ pc' \in {"acting", "pausing"}
    BY <1>3, ProposesMoves DEF request, trace
  <2>3. ProposalIsSound'
    <3>1. ASSUME pc' = "acting"
          PROVE  /\ proposal'.op = op /\ proposal'.marks = marks
                 /\ proposal'.pending = Optional(op.condition) \o Optional(expects)
      BY <2>1, <3>1
    <3> QED BY <2>1, <2>2, <3>1, PendingIsTyped DEF ProposalIsSound
  <2>4. Marked'
    BY <2>2 DEF BranchIsProven, Marked
  <2>5. result' # "success"
    BY <2>2, DiscoveryAssumption DEF SessionIsKept
  <2> QED BY <2>3, <2>4, <2>5 DEF BranchIsProven
<1>4. CASE Other
  <2>1. /\ UNCHANGED <<scenario, recordings, branch>>
        /\ pc' # "acting" /\ (pc' = "verifying" => pc = "verifying" /\ proposal' = proposal)
        /\ pc # "over" /\ (pc = "completing" => pc' = "over" \/ scenario = "recovery")
    BY <1>4, OtherMoves DEF trace
  <2>2. Marked' /\ ProposalIsSound'
    BY <2>1 DEF BranchIsProven, Marked, ProposalIsSound
  <2>3. CASE UNCHANGED result
    BY <2>1, <2>2, <2>3 DEF BranchIsProven
  <2>4. CASE Complete
    <3>1. /\ scenario # None => branch # None
          /\ scenario = "recovery" => Restored
      BY <2>4 DEF Complete, Completes
    <3> QED BY <2>1, <2>2, <3>1 DEF BranchIsProven, Restored
  <2> QED BY <1>4, <2>3, <2>4, OtherMoves
<1>5. CASE Reject
  BY <1>5 DEF Reject, request, trace, BranchIsProven, Marked, ProposalIsSound
<1>6. CASE Dispatch
  BY <1>6 DEF Dispatch, request, BranchIsProven, Marked, ProposalIsSound
<1>7. CASE Verify
  <2>1. /\ UNCHANGED <<pc, scenario, result, recordings, branch>> /\ pc = "verifying"
        /\ proposal.pending # <<>>
    BY <1>7 DEF Verify, request, trace
  <2>2. /\ proposal.verified \in Verified /\ proposal.pending \in Verified
    BY <2>1 DEF Typed, Holding, Proposals
  <2>3. /\ proposal'.op = proposal.op /\ proposal'.marks = proposal.marks
        /\ proposal'.verified = Append(proposal.verified, Head(proposal.pending))
        /\ proposal'.pending = Tail(proposal.pending)
    BY <1>7, VerifyTyped
  <2>4. Range(proposal.verified) \cup Range(proposal.pending)
          \subseteq Range(proposal'.verified) \cup Range(proposal'.pending)
    <3>1. ASSUME NEW i \in DOMAIN proposal.verified
          PROVE  proposal.verified[i] \in Range(proposal'.verified)
      <4>1. i \in DOMAIN proposal'.verified /\ proposal'.verified[i] = proposal.verified[i]
        BY <2>2, <2>3 DEF Verified
      <4> QED BY <4>1 DEF Range
    <3>2. ASSUME NEW i \in DOMAIN proposal.pending
          PROVE  proposal.pending[i] \in Range(proposal'.verified) \cup Range(proposal'.pending)
      <4>1. CASE i = 1
        <5>1. /\ Len(proposal.verified) + 1 \in DOMAIN proposal'.verified
              /\ proposal'.verified[Len(proposal.verified) + 1] = proposal.pending[i]
          BY <2>2, <2>3, <4>1 DEF Verified
        <5> QED BY <5>1 DEF Range
      <4>2. CASE i # 1
        <5>1. i - 1 \in DOMAIN proposal'.pending /\ proposal'.pending[i - 1] = proposal.pending[i]
          BY <2>1, <2>2, <2>3, <4>2 DEF Verified
        <5> QED BY <5>1 DEF Range
      <4> QED BY <4>1, <4>2
    <3> QED BY <3>1, <3>2 DEF Range
  <2> QED BY <2>1, <2>3, <2>4 DEF BranchIsProven, Marked, ProposalIsSound
<1>8. CASE Record
  <2>1. /\ pc = "verifying" /\ pc' \in {"looking", "completing"}
        /\ UNCHANGED <<scenario, result>> /\ proposal.pending = <<>>
        /\ recordings' = Append(recordings,
             [op |-> proposal.op, risk |-> EffectiveRisk(Context(proposal.op)),
              onRoute |-> LocationAllowed(policy, screen), verified |-> proposal.verified])
        /\ branch' = IF proposal.marks
                       THEN [after |-> Len(recordings), condition |-> proposal.op.condition]
                       ELSE branch
        /\ proposal.marks /\ scenario # "recovery" => pc' = "completing"
    BY <1>8 DEF Record, request
  <2>2. /\ Len(recordings') = Len(recordings) + 1 /\ Len(recordings) \in Nat
        /\ recordings'[Len(recordings) + 1].op = proposal.op
        /\ recordings'[Len(recordings) + 1].verified = proposal.verified
        /\ \A i \in 1 .. Len(recordings) : recordings'[i] = recordings[i]
    BY <1>0, <2>1
  <2>3. result' # "success"
    BY <2>1, DiscoveryAssumption DEF SessionIsKept
  <2>4. CASE proposal.marks
    <3>1. PICK condition \in Conditions : proposal.op = Assertion(condition)
      BY <2>1, <2>4 DEF Typed, Holding
    <3>2. proposal.op.condition = condition /\ condition # None
      BY <3>1, AssertionIsOfItsCondition, DiscoveryAssumption
    <3>3. Range(proposal.pending) = {}
      BY <2>1 DEF Range
    <3>4. condition \in Range(proposal.verified) /\ recordings # <<>>
      BY <2>1, <2>4, <3>2, <3>3 DEF BranchIsProven, ProposalIsSound
    <3>5. branch'.after = Len(recordings) /\ branch'.condition = condition
      BY <2>1, <2>4, <3>2
    <3>6. Len(recordings) > 0
      BY <1>0, <3>4
    <3>7. Marked'
      BY <2>1, <2>2, <2>4, <3>1, <3>4, <3>5, <3>6 DEF Marked, Assertion
    <3> QED BY <2>1, <2>3, <3>7 DEF BranchIsProven, ProposalIsSound
  <2>5. CASE ~proposal.marks
    <3>1. branch' = branch
      BY <2>1, <2>5
    <3>2. ASSUME branch # None
          PROVE  /\ branch.after + 1 \in 1 .. Len(recordings) /\ scenario = "recovery"
                 /\ branch.after \in Nat /\ branch.after > 0
                 /\ recordings[branch.after + 1].op = Assertion(branch.condition)
                 /\ branch.condition \in Range(recordings[branch.after + 1].verified)
      <4>1. branch.after \in Nat
        BY <3>2 DEF Typed, TypeOK
      <4>2. /\ branch.after > 0 /\ branch.after < Len(recordings)
            /\ recordings[branch.after + 1].op = Assertion(branch.condition)
            /\ branch.condition \in Range(recordings[branch.after + 1].verified)
        BY <3>2 DEF BranchIsProven, Marked
      <4>3. Len(recordings) \in Nat /\ branch.after + 1 \in 1 .. Len(recordings)
        BY <1>0, <4>1, <4>2
      <4>4. scenario = "recovery"
        BY <2>1, <3>2 DEF BranchIsProven, Marked
      <4> QED BY <4>1, <4>2, <4>3, <4>4
    <3>3. ASSUME branch # None
          PROVE  /\ branch.after > 0 /\ branch.after < Len(recordings')
                 /\ recordings'[branch.after + 1] = recordings[branch.after + 1]
      BY <2>2, <3>2, <3>3
    <3>4. Marked'
      BY <2>1, <3>1, <3>2, <3>3 DEF Marked, Assertion
    <3> QED BY <2>1, <2>3, <3>4 DEF BranchIsProven, ProposalIsSound
  <2> QED BY <2>4, <2>5
<1>9. CASE Continue
  <2>1. /\ UNCHANGED <<scenario, result, recordings, branch>> /\ pc = "resuming"
        /\ pc' = "looking"
    BY <1>9 DEF Continue, request
  <2>2. result' # "success"
    BY <2>1, DiscoveryAssumption DEF SessionIsKept
  <2> QED BY <2>1, <2>2 DEF BranchIsProven, Marked, ProposalIsSound
<1> QED BY <1>1, <1>2, <1>3, <1>4, <1>5, <1>6, <1>7, <1>8, <1>9, NextByKind

------------------------------------------------------------------------------
(* What the policy allows *)

\* There is a least ceiling, so the intersection has one of its layers' ceilings
\* and none above any layer's.
LEMMA CeilingIsLeast ==
  /\ policy.ceiling \in Risks
  /\ \A layer \in Layers : RISK_RANK[policy.ceiling] <= RISK_RANK[layer.ceiling]
<1> DEFINE Ceilings == {layer.ceiling : layer \in Layers}
           Least(risk) == \A layer \in Layers : RISK_RANK[risk] <= RISK_RANK[layer.ceiling]
<1>1. Ceilings # {} /\ Ceilings \subseteq Risks
  BY DiscoveryAssumption
<1>2. \E risk \in Ceilings : Least(risk)
  <2>1. Risks = {"read_only", "reversible", "sensitive", "irreversible"}
    BY DEF Risks, RISK_RANK
  <2>2. \A layer \in Layers : layer.ceiling \in Risks /\ layer.ceiling \in Ceilings
    BY DiscoveryAssumption
  <2> QED BY <1>1, <2>1, <2>2 DEF RISK_RANK
<1>3. policy.ceiling = CHOOSE risk \in Ceilings : Least(risk)
  BY DEF policy, Intersect
<1>4. policy.ceiling \in Ceilings /\ Least(policy.ceiling)
  BY <1>2, <1>3
<1> QED BY <1>1, <1>4

LEMMA IntersectionAllowsLess ==
  ASSUME NEW layer \in Layers
  PROVE  policy.actions \subseteq layer.actions /\ layer.forbidden \subseteq policy.forbidden
BY DEF policy, Intersect

\* Whether every layer allows an operation does not depend on the state.
Allowed(op) ==
  \A layer \in Layers :
    /\ op.kind \in layer.actions
    /\ op.field \notin layer.forbidden
    /\ LET risk == EffectiveRisk([principal |-> "automation", owner |-> "automation",
                     mode |-> "discovery", route |-> None, kind |-> op.kind, words |-> op.words,
                     registered |-> op.registered, declared |-> op.declared, field |-> op.field])
       IN RISK_RANK[risk] <= RISK_RANK[layer.ceiling] /\ RISK_RANK[risk] < RISK_RANK["sensitive"]

LEMMA WithinIsAllowed ==
  /\ WithinEveryLayer <=> \A i \in DOMAIN done : Allowed(done[i])
  /\ WithinEveryLayer' <=> \A i \in DOMAIN done' : Allowed(done'[i])
<1>1. \A op : [Context(op) EXCEPT !.route = None] =
         [principal |-> "automation", owner |-> "automation", mode |-> "discovery",
          route |-> None, kind |-> op.kind, words |-> op.words, registered |-> op.registered,
          declared |-> op.declared, field |-> op.field]
  BY DEF Context
<1>2. \A op : [Context(op)' EXCEPT !.route = None] =
         [principal |-> "automation", owner |-> "automation", mode |-> "discovery",
          route |-> None, kind |-> op.kind, words |-> op.words, registered |-> op.registered,
          declared |-> op.declared, field |-> op.field]
  BY DEF Context
<1> QED BY <1>1, <1>2 DEF WithinEveryLayer, Allowed, Context

LEMMA RulingIsAllowed ==
  ASSUME NEW op \in Proposable, Ruling(op) = "allow"
  PROVE  Allowed(op)
<1>1. Permitted(policy, Context(op)) /\ EffectiveRisk(Context(op)) # "sensitive"
  BY DEF Ruling, Evaluate
<1>2. EffectiveRisk(Context(op)) \in {"read_only", "reversible"}
  BY <1>1, RiskIsTyped DEF Permitted, Risks, RISK_RANK
<1>3. EffectiveRisk(Context(op)) =
        EffectiveRisk([principal |-> "automation", owner |-> "automation",
                     mode |-> "discovery", route |-> None, kind |-> op.kind, words |-> op.words,
                     registered |-> op.registered, declared |-> op.declared, field |-> op.field])
  BY DEF Context, EffectiveRisk, Worse, InferredRisk
<1>4. /\ op.kind \in policy.actions /\ op.field \notin policy.forbidden
      /\ RISK_RANK[EffectiveRisk(Context(op))] <= RISK_RANK[policy.ceiling]
  BY <1>1 DEF Permitted, Context
<1>5. ASSUME NEW layer \in Layers
      PROVE  /\ op.kind \in layer.actions
             /\ op.field \notin layer.forbidden
             /\ RISK_RANK[EffectiveRisk(Context(op))] <= RISK_RANK[layer.ceiling]
  <2>1. policy.ceiling \in Risks /\ layer.ceiling \in Risks
    BY CeilingIsLeast, DiscoveryAssumption
  <2> QED BY <1>2, <1>4, <2>1, CeilingIsLeast, IntersectionAllowsLess DEF Risks, RISK_RANK
<1>6. RISK_RANK[EffectiveRisk(Context(op))] < RISK_RANK["sensitive"]
  BY <1>2 DEF RISK_RANK
<1> QED BY <1>3, <1>5, <1>6 DEF Allowed

LEMMA NextWithinEveryLayer ==
  ASSUME Typed, WithinEveryLayer, [Next]_vars
  PROVE  WithinEveryLayer'
<1>1. ASSUME done' = done
      PROVE  WithinEveryLayer'
  BY <1>1, WithinIsAllowed
<1>2. ASSUME done' = <<>>
      PROVE  WithinEveryLayer'
  BY <1>2, WithinIsAllowed
<1>3. CASE UNCHANGED vars BY <1>1, <1>3 DEF vars
<1>4. CASE Ending BY <1>2, <1>4, EndingQuits DEF Quits, Forget
<1>5. CASE Proposes BY <1>1, <1>5, ProposesMoves DEF history
<1>6. CASE Other BY <1>1, <1>6, OtherMoves DEF history
<1>7. CASE Reject BY <1>1, <1>7 DEF Reject
<1>8. CASE Dispatch
  <2>1. proposal.op \in Proposable /\ done \in Seq(Proposable)
    BY <1>8 DEF Dispatch, Typed, TypeOK, Holding, Proposals
  <2>2. Allowed(proposal.op)
    BY <1>8, <2>1, RulingIsAllowed DEF Dispatch
  <2>3. done' = Append(done, proposal.op)
    BY <1>8 DEF Dispatch
  <2>4. \A i \in DOMAIN done' : done'[i] = proposal.op \/ (i \in DOMAIN done /\ done'[i] = done[i])
    BY <2>1, <2>3
  <2> QED BY <2>2, <2>4, WithinIsAllowed
<1>9. CASE Verify BY <1>1, <1>9 DEF Verify, history
<1>10. CASE Record BY <1>1, <1>10 DEF Record, history
<1>11. CASE Continue BY <1>2, <1>11 DEF Continue
<1> QED BY <1>3, <1>4, <1>5, <1>6, <1>7, <1>8, <1>9, <1>10, <1>11, NextByKind

------------------------------------------------------------------------------
(* Theorems *)

LEMMA InitInv == Init => IInv
<1> SUFFICES ASSUME Init PROVE IInv
  OBVIOUS
<1>1. Typed
  BY InitTyped
<1>2. DoneIsRecorded /\ OutputsAreRead /\ BranchIsProven /\ SessionIsKept
  BY DiscoveryAssumption
     DEF Init, DoneIsRecorded, Recorded, OutputsAreRead, BranchIsProven, Marked, ProposalIsSound,
         SessionIsKept
<1>3. TriedIsCounted
  BY DiscoveryAssumption DEF Init, TriedIsCounted, Varied
<1>4. WithinEveryLayer
  BY WithinIsAllowed DEF Init
<1> QED BY <1>1, <1>2, <1>3, <1>4 DEF IInv

\* The invariant the properties follow from: what the budgets and the proposal are
\* where the loop of _run is, what of the trace was done and read since a human had
\* the surface, and how a marker got into it.
THEOREM InductiveInvariant == Spec => []IInv
<1>1. ASSUME IInv, [Next]_vars
      PROVE  IInv'
  BY <1>1, NextTyped, NextDoneIsRecorded, NextOutputsAreRead, NextTriedIsCounted,
     NextBranchIsProven, NextSessionIsKept, NextWithinEveryLayer DEF IInv
<1> QED BY InitInv, <1>1, PTL DEF Spec

\* What was done to the surface is the end of the recorded trace whenever the loop
\* decides on, and in every artifact (_act, the except clauses of _run, handoff).
THEOREM TraceIsAlwaysWhole == Spec => []TraceIsWhole
<1>1. ASSUME IInv
      PROVE  TraceIsWhole
  BY <1>1 DEF IInv, DoneIsRecorded, Recorded, TraceIsWhole
<1> QED BY <1>1, InductiveInvariant, PTL

\* The outputs of a success were read after the human's last turn (handoff's
\* outputs.clear, _complete).
THEOREM OutputsAreAlwaysFresh == Spec => []OutputsAreFresh
<1>1. ASSUME IInv
      PROVE  OutputsAreFresh
  BY <1>1 DEF IInv, OutputsAreRead, OutputsAreFresh
<1> QED BY <1>1, InductiveInvariant, PTL

\* A scenario that succeeds is a branch that _merge_scenarios can merge (the branch
\* case of _run, proves_distinct_surface).
THEOREM ScenarioIsAlwaysBranch == Spec => []ScenarioIsBranch
<1>1. ASSUME IInv
      PROVE  ScenarioIsBranch
  BY <1>1 DEF IInv, BranchIsProven, Marked, ScenarioIsBranch
<1> QED BY <1>1, InductiveInvariant, PTL

\* The budgets are those of one run, whatever the number of human turns, and no
\* operation is tried more often in a row than allowed (repeated_action, _calls_made).
THEOREM EffortIsAlwaysBounded == Spec => []EffortIsBounded
<1>1. ASSUME IInv
      PROVE  EffortIsBounded
  BY <1>1, DiscoveryAssumption DEF IInv, Typed, TypeOK, Budgets, TriedIsCounted, EffortIsBounded
<1> QED BY <1>1, InductiveInvariant, PTL

\* A suspended run keeps its browser and its continuation, and a run that is over
\* has no browser (_advance, the finally clause of _run).
THEOREM SessionAlwaysFollowsRun == Spec => []SessionFollowsRun
<1>1. ASSUME IInv
      PROVE  SessionFollowsRun
  BY <1>1, DiscoveryAssumption DEF IInv, SessionIsKept, SessionFollowsRun
<1> QED BY <1>1, InductiveInvariant, PTL

\* What reached the surface is within every layer of the policy, for any layers
\* (EffectivePolicy.intersect, PolicyEvaluator.evaluate, _act).
THEOREM AlwaysWithinEveryLayer == Spec => []WithinEveryLayer
<1>1. IInv => WithinEveryLayer
  BY DEF IInv
<1> QED BY <1>1, InductiveInvariant, PTL
==============================================================================
