------------------------- MODULE ReplayEngineProofs -------------------------
(***************************************************************************)
(* Proofs about ReplayEngine, for any artifact: any steps, recoveries and  *)
(* limits, and any bound on resumptions.                                   *)
(***************************************************************************)
EXTENDS ReplayEngine, TLAPS

(***************************************************************************)
(* The inductive invariant, part by part.                                  *)
(***************************************************************************)
\* Where the engine is: a recovery suspends a main step, and only the end of
\* the main steps is no step.
PlaceInv ==
  /\ pc \in {"fresh", "begin"} => at = 1 /\ block = Main /\ attempt = 1 /\ retained = None
  /\ pc \in InStep \cup {"retain", "paused"} => at \in MainSteps
  /\ pc \in InStep \cup {"fresh", "begin"} /\ InMain => index = at
  /\ pc = "checkpoint" => at = Length[Main] + 1
  /\ pc \in {"retain", "paused"} => retained # None /\ retained.at = at

\* Attempts and uses that are carried over keep within their limits.
BudgetInv ==
  /\ retained # None => retained.attempt <= MaxAttempts[<<Main, retained.at>>]
  /\ \A r \in Recoveries : uses[r] <= MaxUses[r]

\* The lease, and the browser with it.
LeaseInv ==
  /\ HoldsCurrentLease
  /\ pc \in {"retain", "paused"} => lease.owner = "automation_paused"
  /\ pc \in Running \cup {"retain", "paused"} => session = "open"
  /\ pc = "fresh" => session = "none"
  /\ pc = "done" => session # "open"
  /\ pc = "raised" /\ session = "open" => lease.owner = "automation_paused"

\* Every step before the present one is settled.
OwedInv ==
  /\ pc \in {"fresh"} \cup Running \cup {"retain", "paused"} => owed \subseteq at..Length[Main]
  /\ result.status = "success" =>
       owed = {} /\ Required \subseteq outputs \cap fresh /\ pc = "done"

\* What has been read is current; what has been identified is this step's record.
FreshInv ==
  /\ pc \in {"fresh"} \cup Running => outputs \subseteq fresh
  /\ pc \in {"outcome", "recovery", "effects", "mismatch"} => verified
  /\ result.status = "business_outcome" => verified /\ pc = "done"

\* The attempt in execution has not touched the page, as far as is known.
Untouched ==
  \/ pc \in {"prepare", "act"}
  \/ pc \in InStep /\ ~dispatched
  \/ pc = "error" /\ error.retry

\* Nothing ahead of the engine has had an effect, in its block or in the main one.
NoneFrom(b, i) == \A p \in effect : p[1] = b => p[2] < i

\* Effects lie behind the engine, and behind the step that a pause lets it retry.
EffectInv ==
  /\ pc \in {"fresh", "begin"} => effect = {}
  /\ pc = "act" => ~dispatched
  /\ pc \in InStep => /\ NoneFrom(Main, at + 1)
                      /\ NoneFrom(block, index + 1)
                      /\ Untouched => NoneFrom(block, index)
  /\ pc \in {"retain", "paused"} => /\ NoneFrom(Main, at + 1)
                                    /\ retained.retry => NoneFrom(Main, at)

IInv == TypeOK /\ PlaceInv /\ BudgetInv /\ LeaseInv /\ OwedInv /\ FreshInv /\ EffectInv

(***************************************************************************)
(* The conjuncts of TypeOK, in groups small enough for the provers.        *)
(***************************************************************************)
FlagsOK ==
  /\ attended \in BOOLEAN /\ dispatched \in BOOLEAN /\ expired \in BOOLEAN
  /\ verified \in BOOLEAN /\ error \in Errors

ControlOK ==
  /\ lease \in [owner : {"none", "automation", "automation_paused"}, version : Nat]
  /\ carried \in Nat
  /\ session \in {"none", "open", "closed"}
  /\ result \in [status : {"none", "failure", "business_outcome", "success"},
                 shown : SUBSET Signs]

PlaceOK ==
  /\ pc \in Running \cup {"fresh", "retain", "paused", "done", "raised"}
  /\ at \in Nat \ {0} /\ block \in Blocks /\ index \in Nat \ {0}

DataOK ==
  /\ outputs \subseteq Outputs /\ fresh \subseteq Outputs
  /\ uses \in [Recoveries -> 0..3]
  /\ retained \in {None} \cup Continuations
  /\ effect \subseteq Positions /\ owed \subseteq MainSteps

USE DEF Blocks, MainSteps

\* A position is a block and a place in it.
LEMMA PositionsAre ==
  \A b, i : <<b, i>> \in Positions <=> b \in Blocks /\ i \in 1..Length[b]
  BY DEF Positions

\* Every step may be attempted one to five times.
LEMMA AttemptsAre ==
  /\ \A p \in Positions : MaxAttempts[p] \in 1..5
  /\ \A i \in MainSteps : <<Main, i>> \in Positions /\ MaxAttempts[<<Main, i>>] \in 1..5
  /\ \A r \in Recoveries : <<r, 1>> \in Positions
<1>1. \A i \in MainSteps : <<Main, i>> \in Positions
  BY PositionsAre
<1>2. \A r \in Recoveries : <<r, 1>> \in Positions
  BY PositionsAre, LengthAssumption
<1> QED
  BY <1>1, <1>2, StepsAssumption

\* What else the artifact guarantees.
LEMMA ConstantsAre ==
  /\ 1 \in MainSteps /\ Main \notin Recoveries
  /\ \A r \in Recoveries : MaxUses[r] \in 1..3 /\ ResumeAt[r] \in MainSteps
  /\ \A i \in MainSteps : Needs[i] \subseteq Outputs /\ Refs[i] \subseteq Recoveries
<1>1. 1 \in MainSteps
  BY LengthAssumption
<1> QED
  BY <1>1, LengthAssumption, RecoveriesAssumption, NeedsAssumption

\* The errors of conditions and observations are errors.
LEMMA TerminalIs == Terminal \in Errors
  BY DEF Terminal, Errors

\* What a finished run has been shown.
LEMMA SignsAre ==
  /\ {} \in SUBSET Signs
  /\ \A other \in SUBSET {"failure"} : {"outcome"} \cup other \in SUBSET Signs
  BY DEF Signs

\* The step in execution, and its attempt.
LEMMA HereIs ==
  TypeOK /\ PlaceInv /\ pc \in InStep =>
    Here \in Positions /\ at \in MainSteps /\ attempt \in 1..5
  BY AttemptsAre DEF TypeOK, StepOK, PlaceInv

\* What a pause point records.
LEMMA PauseOK ==
  ASSUME TypeOK, at \in MainSteps,
         NEW retryStep \in BOOLEAN, NEW spent \in 1..5, Pause(retryStep, spent)
  PROVE  retained' \in {None} \cup Continuations
  BY DEF Pause, TypeOK, Continuations

\* What is recorded after the failure of a step.
LEMMA SurfaceFailureOK ==
  ASSUME TypeOK, at \in MainSteps, attempt \in 1..5,
         NEW eligible \in BOOLEAN, NEW retryStep \in BOOLEAN,
         SurfaceFailure(eligible, retryStep)
  PROVE  retained' \in {None} \cup Continuations
  BY PauseOK DEF SurfaceFailure, TypeOK

\* A recovery is counted, and only its own steps may be repeated.
LEMMA EnterData ==
  ASSUME TypeOK, BudgetInv, NEW r \in Recoveries, Enter(r)
  PROVE  /\ uses' \in [Recoveries -> 0..3]
         /\ \A q \in Recoveries : uses'[q] <= MaxUses[q]
         /\ effect' \subseteq effect
<1>1. MaxUses[r] \in 1..3 /\ uses[r] \in 0..3
  BY RecoveriesAssumption DEF TypeOK
<1>2. CASE uses[r] >= MaxUses[r]
  BY <1>2 DEF Enter, TypeOK, BudgetInv
<1>3. CASE ~(uses[r] >= MaxUses[r])
  <2>1. /\ uses' = [uses EXCEPT ![r] = uses[r] + 1]
        /\ uses[r] + 1 \in 0..3 /\ uses[r] + 1 <= MaxUses[r]
    BY <1>1, <1>3 DEF Enter
  <2>2. effect' \subseteq effect
    BY <1>3 DEF Enter
  <2> QED
    BY <2>1, <2>2 DEF TypeOK, BudgetInv
<1> QED
  BY <1>2, <1>3

\* Entering a main step: it is a position, and the attempts spent there are
\* within its limit.
LEMMA GoToOK ==
  ASSUME TypeOK, BudgetInv, NEW i \in Nat, GoTo(i)
  PROVE  StepOK'
<1> SUFFICES ASSUME i \in MainSteps
             PROVE  /\ at' \in MainSteps /\ Here' \in Positions
                    /\ attempt' \in 1..MaxAttempts[Here']
  BY DEF GoTo, Go, StepOK, InStep
<1>1. Here' = <<Main, i>> /\ at' = i
  BY DEF GoTo, Here
<1>2. <<Main, i>> \in Positions /\ MaxAttempts[<<Main, i>>] \in 1..5
  BY AttemptsAre
<1>3. AttemptAt(i) \in 1..MaxAttempts[<<Main, i>>]
  <2>1. CASE retained # None /\ retained.at = i
    <3>1. retained.attempt \in 1..5
      BY <2>1 DEF TypeOK, Continuations
    <3> QED
      BY <1>2, <2>1, <3>1 DEF AttemptAt, BudgetInv
  <2>2. CASE ~(retained # None /\ retained.at = i)
    BY <1>2, <2>2 DEF AttemptAt
  <2> QED
    BY <2>1, <2>2
<1> QED
  BY <1>1, <1>2, <1>3 DEF GoTo

\* Entering a recovery: at its first step, for the first time.
LEMMA EnterOK ==
  ASSUME TypeOK, PlaceInv, pc \in InStep, NEW r \in Recoveries, Enter(r)
  PROVE  StepOK'
<1>1. CASE uses[r] >= MaxUses[r]
  BY <1>1 DEF Enter, Fail, Finish, StepOK, InStep
<1>2. CASE ~(uses[r] >= MaxUses[r])
  <2>1. <<r, 1>> \in Positions
    BY AttemptsAre
  <2>2. Here' = <<r, 1>> /\ at' = at /\ attempt' = 1 /\ at \in MainSteps
    BY <1>2 DEF Enter, Here, PlaceInv
  <2> QED
    BY <2>1, <2>2, AttemptsAre DEF StepOK, InStep
<1> QED
  BY <1>1, <1>2

\* Entering a main step, or the end of them.
LEMMA GoToPlace ==
  ASSUME TypeOK, NEW i \in 1..(Length[Main] + 1), GoTo(i)
  PROVE  PlaceInv'
<1>1. CASE i \in MainSteps
  BY <1>1 DEF GoTo, Go, PlaceInv, InStep, InMain
<1>2. CASE i \notin MainSteps
  <2>1. i = Length[Main] + 1
    BY <1>2, LengthAssumption
  <2> QED
    BY <1>2, <2>1 DEF GoTo, Go, PlaceInv, InStep, InMain
<1> QED
  BY <1>1, <1>2

\* Entering a recovery leaves the main step where it is.
LEMMA EnterPlace ==
  ASSUME TypeOK, PlaceInv, pc \in InStep, NEW r \in Recoveries, Enter(r)
  PROVE  PlaceInv'
<1>1. r # Main /\ at \in MainSteps
  BY LengthAssumption DEF PlaceInv
<1>2. CASE uses[r] >= MaxUses[r]
  BY <1>2 DEF Enter, Fail, Finish, PlaceInv, InStep
<1>3. CASE ~(uses[r] >= MaxUses[r])
  BY <1>1, <1>3 DEF Enter, Go, PlaceInv, InStep, InMain
<1> QED
  BY <1>2, <1>3

\* A pause leaves the main step where it is and keeps its continuation.
LEMMA PausePlace ==
  ASSUME PlaceInv, pc \in InStep, UNCHANGED at,
         NEW retryStep \in BOOLEAN, NEW spent \in 1..5, Pause(retryStep, spent)
  PROVE  PlaceInv'
<1>1. at \in MainSteps
  BY DEF PlaceInv
<1>2. CASE attended
  <2>1. retained' \in Continuations /\ retained'.at = at
    BY <1>1, <1>2 DEF Pause, Continuations
  <2> QED
    BY <1>1, <1>2, <2>1, NoneAssumption DEF Pause, Go, PlaceInv, InStep
<1>3. CASE ~attended
  BY <1>3 DEF Pause, Fail, Finish, PlaceInv, InStep
<1> QED
  BY <1>2, <1>3

\* The failure of a step does not move the engine.
LEMMA SurfaceFailurePlace ==
  ASSUME PlaceInv, pc \in InStep, UNCHANGED at, attempt \in 1..5,
         NEW eligible, NEW retryStep \in BOOLEAN, SurfaceFailure(eligible, retryStep)
  PROVE  PlaceInv'
  BY PausePlace DEF SurfaceFailure, Fail, Finish, PlaceInv, InStep

\* A pause keeps an attempt that the step allows.
LEMMA PauseBudget ==
  ASSUME BudgetInv, NEW retryStep, NEW spent \in Int, spent <= MaxAttempts[<<Main, at>>],
         Pause(retryStep, spent)
  PROVE  retained' # None => retained'.attempt <= MaxAttempts[<<Main, retained'.at>>]
  BY DEF Pause, BudgetInv

\* So does the failure of a step: inside a recovery it does not pause.
LEMMA SurfaceFailureBudget ==
  ASSUME TypeOK, PlaceInv, BudgetInv, pc \in InStep,
         NEW eligible, NEW retryStep, SurfaceFailure(eligible, retryStep)
  PROVE  retained' # None => retained'.attempt <= MaxAttempts[<<Main, retained'.at>>]
<1>1. CASE InMain
  <2>1. Here = <<Main, at>> /\ at \in MainSteps
    BY <1>1 DEF Here, InMain, PlaceInv
  <2>2. attempt \in Int /\ attempt <= MaxAttempts[<<Main, at>>]
    BY <2>1, AttemptsAre DEF TypeOK, StepOK
  <2> QED
    BY <2>2, PauseBudget DEF SurfaceFailure, BudgetInv
<1>2. CASE ~InMain
  BY <1>2 DEF SurfaceFailure, BudgetInv
<1> QED
  BY <1>1, <1>2

\* A step that stays where it is.
LEMMA SamePlace ==
  ASSUME StepOK, UNCHANGED place, pc' \in InStep => pc \in InStep
  PROVE  StepOK'
  BY DEF StepOK, place, Here

\* The history of effects, at the same step.
LEMMA SameEffect ==
  ASSUME EffectInv, pc \in InStep, pc' \in InStep, UNCHANGED <<at, block, index, effect>>,
         Untouched' => Untouched, pc' = "act" => ~dispatched'
  PROVE  EffectInv'
  BY DEF EffectInv, NoneFrom, InStep

\* At a step that nothing from there on has reached.
LEMMA GoToEffect ==
  ASSUME NEW i \in Nat, GoTo(i), effect' \subseteq Positions,
         \A p \in effect' : p[1] = Main => p[2] < i
  PROVE  EffectInv'
<1>1. \A p \in effect' : p[2] \in Nat
  BY LengthAssumption DEF Positions
<1>2. (NoneFrom(Main, at + 1) /\ NoneFrom(block, index) /\ NoneFrom(block, index + 1))'
  BY <1>1 DEF NoneFrom, GoTo
<1>3. pc' \in {"prepare", "checkpoint"}
  BY DEF GoTo, Go
<1> QED
  BY <1>2, <1>3 DEF EffectInv

\* A recovery is entered with none of its steps executed.
LEMMA EnterEffect ==
  ASSUME PlaceInv, EffectInv, pc \in InStep, effect \subseteq Positions,
         NEW r \in Recoveries, Enter(r)
  PROVE  EffectInv'
<1>1. CASE uses[r] >= MaxUses[r]
  BY <1>1 DEF Enter, Fail, Finish, EffectInv, InStep
<1>2. CASE ~(uses[r] >= MaxUses[r])
  <2>1. NoneFrom(Main, at + 1)' /\ \A j : NoneFrom(r, j)'
    BY <1>2 DEF Enter, EffectInv, NoneFrom
  <2>2. pc' = "prepare" /\ block' = r
    BY <1>2 DEF Enter, Go
  <2> QED
    BY <2>1, <2>2 DEF EffectInv
<1> QED
  BY <1>1, <1>2

\* A pause at a main step; it may be retried only if it was not executed.
LEMMA PauseEffect ==
  ASSUME PlaceInv, EffectInv, pc \in InStep, InMain, UNCHANGED <<at, effect>>,
         NEW retryStep \in BOOLEAN, NEW spent \in 1..5, retryStep => Untouched,
         Pause(retryStep, spent)
  PROVE  EffectInv'
<1>1. at \in MainSteps /\ index = at /\ block = Main
  BY DEF PlaceInv, InMain
<1>2. NoneFrom(Main, at + 1)' /\ (retryStep => NoneFrom(Main, at)')
  BY <1>1 DEF EffectInv, NoneFrom
<1>3. (pc' = "retain" /\ retained'.retry = retryStep) \/ pc' = "done"
  BY DEF Pause, Go, Fail, Finish
<1> QED
  BY <1>2, <1>3 DEF EffectInv, InStep

\* The step in execution exists, and its attempts keep within its limit.
LEMMA StepOKStep == IInv /\ [Next]_vars => StepOK'
<1> SUFFICES ASSUME IInv, [Next]_vars PROVE StepOK'
  OBVIOUS
<1> USE DEF IInv
<1>a. UNCHANGED place /\ (pc' \in InStep => pc \in InStep) => StepOK'
  BY SamePlace DEF TypeOK
<1>1. CASE Refuse
  BY <1>1 DEF Refuse, Fail, Finish, StepOK, InStep
<1>2. CASE Open
  BY <1>2 DEF Open, StepOK, InStep
<1>3. CASE Begin
  <2>1. CASE Go("prepare")
    BY <1>3, <2>1, ConstantsAre, AttemptsAre
       DEF Begin, Go, place, Here, StepOK, PlaceInv, InMain
  <2>2. CASE Fail
    BY <1>3, <2>2, <1>a DEF Begin, Fail, Finish, InStep
  <2> QED
    BY <1>3, <2>1, <2>2 DEF Begin
<1>4. CASE Prepare
  BY <1>4, <1>a DEF Prepare, Go, Fail, Finish, Raise, Pause, InStep
<1>5. CASE Dispatch
  BY <1>5, <1>a DEF Dispatch, Go, Raise, InStep
<1>6. CASE Extract
  BY <1>6, <1>a DEF Extract, Go, Raise, InStep
<1>7. CASE Check
  BY <1>7, <1>a DEF Check, Go, Raise, InStep
<1>8. CASE Identity
  BY <1>8, <1>a DEF Identity, Go, Fail, Finish, InStep
<1>9. CASE Outcome
  BY <1>9, <1>a DEF Outcome, Go, Fail, Finish, Raise, InStep
<1>10. CASE Recovery
  <2>0. Here \in Positions /\ at \in MainSteps /\ attempt \in 1..5
    BY <1>10, HereIs DEF Recovery, InStep
  <2>a. \A r \in Triggered : r \in Recoveries
    BY <2>0, RecoveriesAssumption DEF Triggered
  <2>1. CASE \E r \in Triggered : Enter(r)
    BY <1>10, <2>a, <2>1, EnterOK DEF Recovery, InStep
  <2> QED
    BY <1>10, <2>1, <1>a DEF Recovery, Go, Raise, InStep
<1>11. CASE Effects
  BY <1>11, <1>a DEF Effects, Go, Finish, Raise, InStep
<1>12. CASE Mismatch
  <2>0. Here \in Positions /\ at \in MainSteps /\ attempt \in 1..5
    BY <1>12, HereIs DEF Mismatch, InStep
  <2>a. \A r \in Triggered : r \in Recoveries
    BY <2>0, RecoveriesAssumption DEF Triggered
  <2>1. CASE \E r \in Triggered : Enter(r)
    BY <1>12, <2>a, <2>1, EnterOK DEF Mismatch, InStep
  <2> QED
    BY <1>12, <2>1, <1>a DEF Mismatch, InStep
<1>13. CASE Retry
  <2>0. Here \in Positions /\ at \in MainSteps /\ attempt \in 1..5
    BY <1>13, HereIs DEF Retry, InStep
  <2>1. MaxAttempts[Here] \in 1..5
    BY <2>0, AttemptsAre
  <2> QED
    BY <1>13, <2>0, <2>1 DEF Retry, CanRetry, StepOK, Here
<1>14. CASE HandleError
  <2>0. Here \in Positions /\ at \in MainSteps /\ attempt \in 1..5
    BY <1>14, HereIs DEF HandleError, InStep
  <2>a. \A r \in Triggered : r \in Recoveries
    BY <2>0, RecoveriesAssumption DEF Triggered
  <2>1. CASE \E r \in Triggered : Enter(r)
    BY <1>14, <2>a, <2>1, EnterOK DEF HandleError, InStep
  <2> QED
    BY <1>14, <2>1, <1>a DEF HandleError, InStep
<1>15. CASE NextStep
  BY <1>15, GoToOK DEF NextStep, TypeOK
<1>16. CASE NextRepairStep
  <2>0. Here \in Positions /\ at \in MainSteps /\ attempt \in 1..5
    BY <1>16, HereIs DEF NextRepairStep, InStep
  <2>1. index \in 1..Length[block] /\ block \in Blocks
    BY <2>0, PositionsAre DEF Here
  <2>2. Here' \in Positions /\ Here' = <<block, index + 1>>
    BY <1>16, <2>1, PositionsAre, LengthAssumption DEF NextRepairStep, Here
  <2>3. MaxAttempts[Here'] \in 1..5
    BY <2>2, AttemptsAre
  <2> QED
    BY <1>16, <2>0, <2>2, <2>3 DEF NextRepairStep, StepOK
<1>17. CASE Return
  <2>1. ResumeAt[block] \in Nat
    BY <1>17, RecoveriesAssumption DEF Return, InMain, TypeOK
  <2> QED
    BY <1>17, <2>1, GoToOK DEF Return
<1>18. CASE Complete
  BY <1>18, <1>a DEF Complete, Fail, Finish, InStep
<1>19. CASE Retain
  BY <1>19, <1>a DEF Retain, Go, Fail, Finish, InStep
<1>20. CASE Crash
  BY <1>20, <1>a DEF Crash, InStep
<1>21. CASE Expire
  BY <1>21, <1>a DEF Expire, InStep
<1>22. CASE RejectResume
  BY <1>22, <1>a DEF RejectResume, InStep
<1>23. CASE ResumeStep
  <2>1. retained.at \in Nat
    BY <1>23 DEF ResumeStep, Accepted, PlaceInv
  <2> QED
    BY <1>23, <2>1, GoToOK DEF ResumeStep
<1>24. CASE ResumeAfter
  <2>1. retained.at + 1 \in Nat
    BY <1>24 DEF ResumeAfter, Accepted, PlaceInv
  <2> QED
    BY <1>24, <2>1, GoToOK DEF ResumeAfter
<1>25. CASE ResumeWithOutcome
  BY <1>25 DEF ResumeWithOutcome, Finish, StepOK, InStep
<1>26. CASE UNCHANGED vars
  BY <1>26, <1>a DEF vars, InStep
<1> QED
  BY <1>1, <1>2, <1>3, <1>4, <1>5, <1>6, <1>7, <1>8, <1>9, <1>10, <1>11, <1>12, <1>13,
     <1>14, <1>15, <1>16, <1>17, <1>18, <1>19, <1>20, <1>21, <1>22, <1>23, <1>24,
     <1>25, <1>26
     DEF Next, Engine, Environment

\* Flags and errors keep their types.
LEMMA FlagsOKStep == IInv /\ [Next]_vars => FlagsOK'
<1> SUFFICES ASSUME IInv, [Next]_vars PROVE FlagsOK'
  OBVIOUS
<1> USE DEF IInv, InStep, Running, Here, InMain, place, control, history
<1>1. CASE Refuse
  BY <1>1, TerminalIs DEF Refuse, Fail, Finish, TypeOK, FlagsOK
<1>2. CASE Open
  BY <1>2, TerminalIs DEF Open, TypeOK, FlagsOK
<1>3. CASE Begin
  BY <1>3, TerminalIs DEF Begin, Go, Fail, Finish, TypeOK, FlagsOK
<1>4. CASE Prepare
  BY <1>4, TerminalIs
     DEF Prepare, MayAct, Go, Fail, Finish, Raise, Pause, InMain, TypeOK, FlagsOK
<1>5. CASE Dispatch
  BY <1>5, TerminalIs DEF Dispatch, Go, Raise, TypeOK, FlagsOK
<1>6. CASE Extract
  BY <1>6, TerminalIs DEF Extract, Go, Raise, TypeOK, FlagsOK
<1>7. CASE Check
  BY <1>7, TerminalIs DEF Check, Go, Raise, TypeOK, FlagsOK
<1>8. CASE Identity
  BY <1>8, TerminalIs DEF Identity, Go, Fail, Finish, TypeOK, FlagsOK
<1>9. CASE Outcome
  BY <1>9, TerminalIs DEF Outcome, Go, Fail, Finish, Raise, TypeOK, FlagsOK
<1>10. CASE Recovery
  BY <1>10, TerminalIs
     DEF Recovery, Go, Fail, Finish, Raise, Enter, Triggered, Renew, MayAct, InMain,
         TypeOK, FlagsOK
<1>11. CASE Effects
  BY <1>11, TerminalIs DEF Effects, Go, Finish, Raise, TypeOK, FlagsOK
<1>12. CASE Mismatch
  BY <1>12, TerminalIs
     DEF Mismatch, Go, Fail, Finish, Raise, Enter, Triggered, Renew, MayAct, InMain,
         SurfaceFailure, Pause, TypeOK, FlagsOK
<1>13. CASE Retry
  BY <1>13, TerminalIs DEF Retry, CanRetry, Go, TypeOK, FlagsOK
<1>14. CASE HandleError
  BY <1>14, TerminalIs
     DEF HandleError, CanRetry, Go, Fail, Finish, Enter, Triggered, Renew, MayAct,
         InMain, SurfaceFailure, Pause, TypeOK, FlagsOK
<1>15. CASE NextStep
  BY <1>15, TerminalIs
     DEF NextStep, Renew, MayAct, GoTo, Go, AttemptAt, InMain, TypeOK, FlagsOK
<1>16. CASE NextRepairStep
  BY <1>16, TerminalIs DEF NextRepairStep, Renew, MayAct, Go, InMain, TypeOK, FlagsOK
<1>17. CASE Return
  BY <1>17, TerminalIs
     DEF Return, Renew, MayAct, GoTo, Go, AttemptAt, InMain, TypeOK, FlagsOK
<1>18. CASE Complete
  BY <1>18, TerminalIs DEF Complete, Fail, Finish, TypeOK, FlagsOK
<1>19. CASE Retain
  BY <1>19, TerminalIs DEF Retain, Go, Fail, Finish, TypeOK, FlagsOK
<1>20. CASE Crash
  BY <1>20, TerminalIs DEF Crash, TypeOK, FlagsOK
<1>21. CASE Expire
  BY <1>21, TerminalIs DEF Expire, TypeOK, FlagsOK
<1>22. CASE RejectResume
  BY <1>22, TerminalIs DEF RejectResume, TypeOK, FlagsOK
<1>23. CASE ResumeStep
  BY <1>23, TerminalIs DEF ResumeStep, Accepted, GoTo, Go, AttemptAt, TypeOK, FlagsOK
<1>24. CASE ResumeAfter
  BY <1>24, TerminalIs DEF ResumeAfter, Accepted, GoTo, Go, AttemptAt, TypeOK, FlagsOK
<1>25. CASE ResumeWithOutcome
  BY <1>25, TerminalIs DEF ResumeWithOutcome, Accepted, Finish, TypeOK, FlagsOK
<1>26. CASE UNCHANGED vars
  BY <1>26 DEF vars, TypeOK, FlagsOK
<1> QED
  BY <1>1, <1>2, <1>3, <1>4, <1>5, <1>6, <1>7, <1>8, <1>9, <1>10, <1>11, <1>12, <1>13,
     <1>14, <1>15, <1>16, <1>17, <1>18, <1>19, <1>20, <1>21, <1>22, <1>23, <1>24,
     <1>25, <1>26
     DEF Next, Engine, Environment

\* So do the lease, the session and the result,
LEMMA ControlOKStep == IInv /\ [Next]_vars => ControlOK'
<1> SUFFICES ASSUME IInv, [Next]_vars PROVE ControlOK'
  OBVIOUS
<1> USE DEF IInv, InStep, Running, Here, InMain, place, control, history
<1>1. CASE Refuse
  BY <1>1, SignsAre DEF Refuse, Fail, Finish, TypeOK, ControlOK
<1>2. CASE Open
  BY <1>2, SignsAre DEF Open, TypeOK, ControlOK
<1>3. CASE Begin
  BY <1>3, SignsAre DEF Begin, Go, Fail, Finish, TypeOK, ControlOK
<1>4. CASE Prepare
  BY <1>4, SignsAre
     DEF Prepare, MayAct, Go, Fail, Finish, Raise, Pause, InMain, TypeOK, ControlOK
<1>5. CASE Dispatch
  BY <1>5, SignsAre DEF Dispatch, Go, Raise, TypeOK, ControlOK
<1>6. CASE Extract
  BY <1>6, SignsAre DEF Extract, Go, Raise, TypeOK, ControlOK
<1>7. CASE Check
  BY <1>7, SignsAre DEF Check, Go, Raise, TypeOK, ControlOK
<1>8. CASE Identity
  BY <1>8, SignsAre DEF Identity, Go, Fail, Finish, TypeOK, ControlOK
<1>9. CASE Outcome
  BY <1>9, SignsAre DEF Outcome, Go, Fail, Finish, Raise, TypeOK, ControlOK
<1>10. CASE Recovery
  BY <1>10, SignsAre
     DEF Recovery, Go, Fail, Finish, Raise, Enter, Triggered, Renew, MayAct, InMain,
         TypeOK, ControlOK
<1>11. CASE Effects
  <2>1. CASE \E other \in SUBSET {"failure"} :
               Finish("business_outcome", {"outcome"} \cup other)
    BY <1>11, <2>1, SignsAre DEF Effects, Finish, TypeOK, ControlOK
  <2>2. CASE UNCHANGED <<session, result>>
    BY <1>11, <2>2 DEF Effects, TypeOK, ControlOK
  <2> QED
    BY <1>11, <2>1, <2>2 DEF Effects, Go, Raise
<1>12. CASE Mismatch
  BY <1>12, SignsAre
     DEF Mismatch, Go, Fail, Finish, Raise, Enter, Triggered, Renew, MayAct, InMain,
         SurfaceFailure, Pause, TypeOK, ControlOK
<1>13. CASE Retry
  BY <1>13, SignsAre DEF Retry, CanRetry, Go, TypeOK, ControlOK
<1>14. CASE HandleError
  BY <1>14, SignsAre
     DEF HandleError, CanRetry, Go, Fail, Finish, Enter, Triggered, Renew, MayAct,
         InMain, SurfaceFailure, Pause, TypeOK, ControlOK
<1>15. CASE NextStep
  BY <1>15, SignsAre
     DEF NextStep, Renew, MayAct, GoTo, Go, AttemptAt, InMain, TypeOK, ControlOK
<1>16. CASE NextRepairStep
  BY <1>16, SignsAre DEF NextRepairStep, Renew, MayAct, Go, InMain, TypeOK, ControlOK
<1>17. CASE Return
  BY <1>17, SignsAre
     DEF Return, Renew, MayAct, GoTo, Go, AttemptAt, InMain, TypeOK, ControlOK
<1>18. CASE Complete
  BY <1>18, SignsAre DEF Complete, Fail, Finish, TypeOK, ControlOK
<1>19. CASE Retain
  BY <1>19, SignsAre DEF Retain, Go, Fail, Finish, TypeOK, ControlOK
<1>20. CASE Crash
  BY <1>20, SignsAre DEF Crash, TypeOK, ControlOK
<1>21. CASE Expire
  BY <1>21, SignsAre DEF Expire, TypeOK, ControlOK
<1>22. CASE RejectResume
  BY <1>22, SignsAre DEF RejectResume, TypeOK, ControlOK
<1>23. CASE ResumeStep
  BY <1>23, SignsAre DEF ResumeStep, Accepted, GoTo, Go, AttemptAt, TypeOK, ControlOK
<1>24. CASE ResumeAfter
  BY <1>24, SignsAre DEF ResumeAfter, Accepted, GoTo, Go, AttemptAt, TypeOK, ControlOK
<1>25. CASE ResumeWithOutcome
  BY <1>25, SignsAre DEF ResumeWithOutcome, Accepted, Finish, TypeOK, ControlOK
<1>26. CASE UNCHANGED vars
  BY <1>26 DEF vars, TypeOK, ControlOK
<1> QED
  BY <1>1, <1>2, <1>3, <1>4, <1>5, <1>6, <1>7, <1>8, <1>9, <1>10, <1>11, <1>12, <1>13,
     <1>14, <1>15, <1>16, <1>17, <1>18, <1>19, <1>20, <1>21, <1>22, <1>23, <1>24,
     <1>25, <1>26
     DEF Next, Engine, Environment

\* the program counter and the position,
LEMMA PlaceOKStep == IInv /\ [Next]_vars => PlaceOK'
<1> SUFFICES ASSUME IInv, [Next]_vars PROVE PlaceOK'
  OBVIOUS
<1> USE DEF IInv, InStep, Running, Here, InMain, place, control, history
<1>1. CASE Refuse
  BY <1>1, ConstantsAre DEF Refuse, Fail, Finish, TypeOK, PlaceInv, PlaceOK
<1>2. CASE Open
  BY <1>2, ConstantsAre DEF Open, TypeOK, PlaceInv, PlaceOK
<1>3. CASE Begin
  BY <1>3, ConstantsAre DEF Begin, Go, Fail, Finish, TypeOK, PlaceInv, PlaceOK
<1>4. CASE Prepare
  BY <1>4, ConstantsAre
     DEF Prepare, MayAct, Go, Fail, Finish, Raise, Pause, InMain, TypeOK, PlaceInv,
         PlaceOK
<1>5. CASE Dispatch
  BY <1>5, ConstantsAre DEF Dispatch, Go, Raise, TypeOK, PlaceInv, PlaceOK
<1>6. CASE Extract
  BY <1>6, ConstantsAre DEF Extract, Go, Raise, TypeOK, PlaceInv, PlaceOK
<1>7. CASE Check
  BY <1>7, ConstantsAre DEF Check, Go, Raise, TypeOK, PlaceInv, PlaceOK
<1>8. CASE Identity
  BY <1>8, ConstantsAre DEF Identity, Go, Fail, Finish, TypeOK, PlaceInv, PlaceOK
<1>9. CASE Outcome
  BY <1>9, ConstantsAre DEF Outcome, Go, Fail, Finish, Raise, TypeOK, PlaceInv, PlaceOK
<1>10. CASE Recovery
  BY <1>10, ConstantsAre
     DEF Recovery, Go, Fail, Finish, Raise, Enter, Triggered, Renew, MayAct, InMain,
         TypeOK, PlaceInv, PlaceOK
<1>11. CASE Effects
  BY <1>11, ConstantsAre DEF Effects, Go, Finish, Raise, TypeOK, PlaceInv, PlaceOK
<1>12. CASE Mismatch
  BY <1>12, ConstantsAre
     DEF Mismatch, Go, Fail, Finish, Raise, Enter, Triggered, Renew, MayAct, InMain,
         SurfaceFailure, Pause, TypeOK, PlaceInv, PlaceOK
<1>13. CASE Retry
  BY <1>13, ConstantsAre DEF Retry, CanRetry, Go, TypeOK, PlaceInv, PlaceOK
<1>14. CASE HandleError
  BY <1>14, ConstantsAre
     DEF HandleError, CanRetry, Go, Fail, Finish, Enter, Triggered, Renew, MayAct,
         InMain, SurfaceFailure, Pause, TypeOK, PlaceInv, PlaceOK
<1>15. CASE NextStep
  BY <1>15, ConstantsAre
     DEF NextStep, Renew, MayAct, GoTo, Go, AttemptAt, InMain, TypeOK, PlaceInv,
         PlaceOK
<1>16. CASE NextRepairStep
  BY <1>16, ConstantsAre
     DEF NextRepairStep, Renew, MayAct, Go, InMain, TypeOK, PlaceInv, PlaceOK
<1>17. CASE Return
  BY <1>17, ConstantsAre
     DEF Return, Renew, MayAct, GoTo, Go, AttemptAt, InMain, TypeOK, PlaceInv, PlaceOK
<1>18. CASE Complete
  BY <1>18, ConstantsAre DEF Complete, Fail, Finish, TypeOK, PlaceInv, PlaceOK
<1>19. CASE Retain
  BY <1>19, ConstantsAre DEF Retain, Go, Fail, Finish, TypeOK, PlaceInv, PlaceOK
<1>20. CASE Crash
  BY <1>20, ConstantsAre DEF Crash, TypeOK, PlaceInv, PlaceOK
<1>21. CASE Expire
  BY <1>21, ConstantsAre DEF Expire, TypeOK, PlaceInv, PlaceOK
<1>22. CASE RejectResume
  BY <1>22, ConstantsAre DEF RejectResume, TypeOK, PlaceInv, PlaceOK
<1>23. CASE ResumeStep
  BY <1>23, ConstantsAre
     DEF ResumeStep, Accepted, GoTo, Go, AttemptAt, TypeOK, PlaceInv, PlaceOK
<1>24. CASE ResumeAfter
  BY <1>24, ConstantsAre
     DEF ResumeAfter, Accepted, GoTo, Go, AttemptAt, TypeOK, PlaceInv, PlaceOK
<1>25. CASE ResumeWithOutcome
  BY <1>25, ConstantsAre
     DEF ResumeWithOutcome, Accepted, Finish, TypeOK, PlaceInv, PlaceOK
<1>26. CASE UNCHANGED vars
  BY <1>26 DEF vars, TypeOK, PlaceInv, PlaceOK
<1> QED
  BY <1>1, <1>2, <1>3, <1>4, <1>5, <1>6, <1>7, <1>8, <1>9, <1>10, <1>11, <1>12, <1>13,
     <1>14, <1>15, <1>16, <1>17, <1>18, <1>19, <1>20, <1>21, <1>22, <1>23, <1>24,
     <1>25, <1>26
     DEF Next, Engine, Environment

\* and outputs, uses, continuation and history.
LEMMA DataOKStep == IInv /\ [Next]_vars => DataOK'
<1> SUFFICES ASSUME IInv, [Next]_vars PROVE DataOK'
  OBVIOUS
<1> USE DEF IInv, InStep, Running, Here, InMain, place, control, history
<1>1. CASE Refuse
  BY <1>1, ConstantsAre, HereIs DEF Refuse, Fail, Finish, TypeOK, PlaceInv, DataOK
<1>2. CASE Open
  BY <1>2, ConstantsAre, HereIs DEF Open, TypeOK, PlaceInv, DataOK
<1>3. CASE Begin
  BY <1>3, ConstantsAre, HereIs DEF Begin, Go, Fail, Finish, TypeOK, PlaceInv, DataOK
<1>4. CASE Prepare
  <2>0. Here \in Positions /\ at \in MainSteps /\ attempt \in 1..5
    BY <1>4, HereIs DEF Prepare, InStep
  <2>1. retained' \in {None} \cup Continuations
    <3>1. CASE Pause(FALSE, 1)
      BY <2>0, <3>1, PauseOK, FALSE \in BOOLEAN, 1 \in 1..5
    <3>2. CASE UNCHANGED retained
      BY <3>2 DEF TypeOK
    <3> QED
      BY <1>4, <3>1, <3>2 DEF Prepare
  <2> QED
    BY <1>4, <2>1 DEF Prepare, TypeOK, DataOK
<1>5. CASE Dispatch
  BY <1>5, ConstantsAre, HereIs DEF Dispatch, Go, Raise, TypeOK, PlaceInv, DataOK
<1>6. CASE Extract
  <2>0. Here \in Positions /\ at \in MainSteps /\ attempt \in 1..5
    BY <1>6, HereIs DEF Extract, InStep
  <2> QED
    BY <1>6, <2>0 DEF Extract, Outputs, Go, Raise, TypeOK, DataOK
<1>7. CASE Check
  BY <1>7, ConstantsAre, HereIs DEF Check, Go, Raise, TypeOK, PlaceInv, DataOK
<1>8. CASE Identity
  BY <1>8, ConstantsAre, HereIs DEF Identity, Go, Fail, Finish, TypeOK, PlaceInv, DataOK
<1>9. CASE Outcome
  BY <1>9, ConstantsAre, HereIs
     DEF Outcome, Go, Fail, Finish, Raise, TypeOK, PlaceInv, DataOK
<1>10. CASE Recovery
  BY <1>10, ConstantsAre, HereIs
     DEF Recovery, Go, Fail, Finish, Raise, Enter, Triggered, Renew, MayAct, InMain,
         TypeOK, PlaceInv, DataOK
<1>11. CASE Effects
  BY <1>11, ConstantsAre, HereIs DEF Effects, Go, Finish, Raise, TypeOK, PlaceInv, DataOK
<1>12. CASE Mismatch
  <2>0. Here \in Positions /\ at \in MainSteps /\ attempt \in 1..5
    BY <1>12, HereIs DEF Mismatch, InStep
  <2>a. \A r \in Triggered : r \in Recoveries
    BY <2>0, RecoveriesAssumption DEF Triggered
  <2>1. retained' \in {None} \cup Continuations
    BY <1>12, <2>0, SurfaceFailureOK DEF Mismatch, TypeOK
  <2>2. uses' \in [Recoveries -> 0..3] /\ effect' \subseteq effect
    BY <1>12, <2>a, EnterData DEF Mismatch, TypeOK
  <2> QED
    BY <1>12, <2>1, <2>2 DEF Mismatch, TypeOK, DataOK
<1>13. CASE Retry
  BY <1>13, ConstantsAre, HereIs DEF Retry, CanRetry, Go, TypeOK, PlaceInv, DataOK
<1>14. CASE HandleError
  <2>0. Here \in Positions /\ at \in MainSteps /\ attempt \in 1..5
    BY <1>14, HereIs DEF HandleError, InStep
  <2>a. \A r \in Triggered : r \in Recoveries
    BY <2>0, RecoveriesAssumption DEF Triggered
  <2>1. retained' \in {None} \cup Continuations
    BY <1>14, <2>0, SurfaceFailureOK DEF HandleError, TypeOK, Errors
  <2>2. uses' \in [Recoveries -> 0..3] /\ effect' \subseteq effect
    BY <1>14, <2>a, EnterData DEF HandleError, TypeOK
  <2> QED
    BY <1>14, <2>1, <2>2 DEF HandleError, TypeOK, DataOK
<1>15. CASE NextStep
  BY <1>15, ConstantsAre, HereIs
     DEF NextStep, Renew, MayAct, GoTo, Go, AttemptAt, InMain, TypeOK, PlaceInv, DataOK
<1>16. CASE NextRepairStep
  BY <1>16, ConstantsAre, HereIs
     DEF NextRepairStep, Renew, MayAct, Go, InMain, TypeOK, PlaceInv, DataOK
<1>17. CASE Return
  BY <1>17, ConstantsAre, HereIs
     DEF Return, Renew, MayAct, GoTo, Go, AttemptAt, InMain, TypeOK, PlaceInv, DataOK
<1>18. CASE Complete
  BY <1>18, ConstantsAre, HereIs DEF Complete, Fail, Finish, TypeOK, PlaceInv, DataOK
<1>19. CASE Retain
  BY <1>19, ConstantsAre, HereIs DEF Retain, Go, Fail, Finish, TypeOK, PlaceInv, DataOK
<1>20. CASE Crash
  BY <1>20, ConstantsAre, HereIs DEF Crash, TypeOK, PlaceInv, DataOK
<1>21. CASE Expire
  BY <1>21, ConstantsAre, HereIs DEF Expire, TypeOK, PlaceInv, DataOK
<1>22. CASE RejectResume
  BY <1>22, ConstantsAre, HereIs DEF RejectResume, TypeOK, PlaceInv, DataOK
<1>23. CASE ResumeStep
  BY <1>23, ConstantsAre, HereIs
     DEF ResumeStep, Accepted, GoTo, Go, AttemptAt, TypeOK, PlaceInv, DataOK
<1>24. CASE ResumeAfter
  BY <1>24, ConstantsAre, HereIs
     DEF ResumeAfter, Accepted, GoTo, Go, AttemptAt, TypeOK, PlaceInv, DataOK
<1>25. CASE ResumeWithOutcome
  BY <1>25, ConstantsAre, HereIs
     DEF ResumeWithOutcome, Accepted, Finish, TypeOK, PlaceInv, DataOK
<1>26. CASE UNCHANGED vars
  BY <1>26 DEF vars, TypeOK, PlaceInv, DataOK
<1> QED
  BY <1>1, <1>2, <1>3, <1>4, <1>5, <1>6, <1>7, <1>8, <1>9, <1>10, <1>11, <1>12, <1>13,
     <1>14, <1>15, <1>16, <1>17, <1>18, <1>19, <1>20, <1>21, <1>22, <1>23, <1>24,
     <1>25, <1>26
     DEF Next, Engine, Environment

\* No action loses the engine's place, however it moves.
LEMMA PlaceInvStep == IInv /\ [Next]_vars => PlaceInv'
<1> SUFFICES ASSUME IInv, [Next]_vars PROVE PlaceInv'
  OBVIOUS
<1> USE DEF IInv, InStep, Running, Here, InMain, place, control, history
<1>1. CASE Refuse
  BY <1>1 DEF Refuse, Fail, Finish, TypeOK, PlaceInv
<1>2. CASE Open
  BY <1>2 DEF Open, TypeOK, PlaceInv
<1>3. CASE Begin
  BY <1>3, ConstantsAre DEF Begin, Go, Fail, Finish, TypeOK, PlaceInv
<1>4. CASE Prepare
  <2>0. Here \in Positions /\ at \in MainSteps /\ attempt \in 1..5
    BY <1>4, HereIs DEF Prepare, InStep
  <2>1. CASE Pause(FALSE, 1)
    <3>1. UNCHANGED at /\ pc \in InStep /\ FALSE \in BOOLEAN /\ 1 \in 1..5
      BY <1>4 DEF Prepare
    <3> QED
      BY <2>1, <3>1, PausePlace
  <2>2. CASE ~Pause(FALSE, 1)
    BY <1>4, <2>2 DEF Prepare, Go, Fail, Finish, Raise, PlaceInv
  <2> QED
    BY <2>1, <2>2
<1>5. CASE Dispatch
  BY <1>5 DEF Dispatch, Go, Raise, TypeOK, PlaceInv
<1>6. CASE Extract
  BY <1>6 DEF Extract, Go, Raise, TypeOK, PlaceInv
<1>7. CASE Check
  BY <1>7 DEF Check, Go, Raise, TypeOK, PlaceInv
<1>8. CASE Identity
  BY <1>8 DEF Identity, Go, Fail, Finish, TypeOK, PlaceInv
<1>9. CASE Outcome
  BY <1>9 DEF Outcome, Go, Fail, Finish, Raise, TypeOK, PlaceInv
<1>10. CASE Recovery
  <2>0. Here \in Positions /\ at \in MainSteps /\ attempt \in 1..5
    BY <1>10, HereIs DEF Recovery, InStep
  <2>a. \A r \in Triggered : r \in Recoveries
    BY <2>0, RecoveriesAssumption DEF Triggered
  <2>1. CASE \E r \in Triggered : Enter(r)
    BY <1>10, <2>a, <2>1, EnterPlace DEF Recovery
  <2>2. CASE ~\E r \in Triggered : Enter(r)
    BY <1>10, <2>2 DEF Recovery, Go, Raise, PlaceInv
  <2> QED
    BY <2>1, <2>2
<1>11. CASE Effects
  BY <1>11 DEF Effects, Go, Finish, Raise, TypeOK, PlaceInv
<1>12. CASE Mismatch
  <2>0. Here \in Positions /\ at \in MainSteps /\ attempt \in 1..5
    BY <1>12, HereIs DEF Mismatch, InStep
  <2>a. \A r \in Triggered : r \in Recoveries
    BY <2>0, RecoveriesAssumption DEF Triggered
  <2>1. CASE \E r \in Triggered : Enter(r)
    BY <1>12, <2>a, <2>1, EnterPlace DEF Mismatch
  <2>2. CASE SurfaceFailure(dispatched, FALSE) /\ UNCHANGED place
    BY <1>12, <2>0, <2>2, SurfaceFailurePlace DEF Mismatch
  <2>3. CASE UNCHANGED <<place, retained>> /\ pc' \in {"done", "error"}
    BY <1>12, <2>3 DEF Mismatch, PlaceInv
  <2> QED
    BY <1>12, <2>1, <2>2, <2>3 DEF Mismatch, Finish, Raise, Go
<1>13. CASE Retry
  BY <1>13 DEF Retry, CanRetry, Go, TypeOK, PlaceInv
<1>14. CASE HandleError
  <2>0. Here \in Positions /\ at \in MainSteps /\ attempt \in 1..5
    BY <1>14, HereIs DEF HandleError, InStep
  <2>a. \A r \in Triggered : r \in Recoveries
    BY <2>0, RecoveriesAssumption DEF Triggered
  <2>1. CASE \E r \in Triggered : Enter(r)
    BY <1>14, <2>a, <2>1, EnterPlace DEF HandleError
  <2>2. CASE SurfaceFailure(error.eligible, ~dispatched) /\ UNCHANGED place
    BY <1>14, <2>0, <2>2, SurfaceFailurePlace DEF HandleError, TypeOK
  <2> QED
    BY <1>14, <2>1, <2>2 DEF HandleError
<1>15. CASE NextStep
  <2>1. at \in MainSteps /\ Length[Main] \in Nat
    BY <1>15, LengthAssumption DEF NextStep, PlaceInv
  <2> QED
    BY <1>15, <2>1, GoToPlace DEF NextStep
<1>16. CASE NextRepairStep
  BY <1>16 DEF NextRepairStep, Renew, MayAct, Go, InMain, TypeOK, PlaceInv
<1>17. CASE Return
  <2>1. ResumeAt[block] \in MainSteps /\ Length[Main] \in Nat
    BY <1>17, LengthAssumption, RecoveriesAssumption DEF Return, TypeOK
  <2> QED
    BY <1>17, <2>1, GoToPlace DEF Return
<1>18. CASE Complete
  BY <1>18 DEF Complete, Fail, Finish, TypeOK, PlaceInv
<1>19. CASE Retain
  BY <1>19 DEF Retain, Go, Fail, Finish, TypeOK, PlaceInv
<1>20. CASE Crash
  BY <1>20 DEF Crash, TypeOK, PlaceInv
<1>21. CASE Expire
  BY <1>21 DEF Expire, TypeOK, PlaceInv
<1>22. CASE RejectResume
  BY <1>22 DEF RejectResume, TypeOK, PlaceInv
<1>23. CASE ResumeStep
  <2>1. retained.at \in MainSteps /\ Length[Main] \in Nat
    BY <1>23, LengthAssumption DEF ResumeStep, Accepted, PlaceInv
  <2> QED
    BY <1>23, <2>1, GoToPlace DEF ResumeStep
<1>24. CASE ResumeAfter
  <2>1. retained.at \in MainSteps /\ Length[Main] \in Nat
    BY <1>24, LengthAssumption DEF ResumeAfter, Accepted, PlaceInv
  <2> QED
    BY <1>24, <2>1, GoToPlace DEF ResumeAfter
<1>25. CASE ResumeWithOutcome
  BY <1>25 DEF ResumeWithOutcome, Accepted, Finish, TypeOK, PlaceInv
<1>26. CASE UNCHANGED vars
  BY <1>26 DEF vars, TypeOK, PlaceInv
<1> QED
  BY <1>1, <1>2, <1>3, <1>4, <1>5, <1>6, <1>7, <1>8, <1>9, <1>10, <1>11, <1>12, <1>13,
     <1>14, <1>15, <1>16, <1>17, <1>18, <1>19, <1>20, <1>21, <1>22, <1>23, <1>24,
     <1>25, <1>26
     DEF Next, Engine, Environment

\* No action spends more attempts or uses than there are.
LEMMA BudgetInvStep == IInv /\ [Next]_vars => BudgetInv'
<1> SUFFICES ASSUME IInv, [Next]_vars PROVE BudgetInv'
  OBVIOUS
<1> USE DEF IInv, InStep, Running, Here, InMain, place, control, history
<1>1. CASE Refuse
  BY <1>1, ConstantsAre DEF Refuse, Fail, Finish, TypeOK, PlaceInv, BudgetInv
<1>2. CASE Open
  BY <1>2, ConstantsAre DEF Open, TypeOK, PlaceInv, BudgetInv
<1>3. CASE Begin
  BY <1>3, ConstantsAre DEF Begin, Go, Fail, Finish, TypeOK, PlaceInv, BudgetInv
<1>4. CASE Prepare
  <2>0. Here \in Positions /\ at \in MainSteps /\ attempt \in 1..5
    BY <1>4, HereIs DEF Prepare, InStep
  <2>1. retained' # None => retained'.attempt <= MaxAttempts[<<Main, retained'.at>>]
    <3>1. CASE Pause(FALSE, 1)
      <4>1. 1 \in Int /\ 1 <= MaxAttempts[<<Main, at>>]
        BY <2>0, AttemptsAre
      <4> QED
        BY <3>1, <4>1, PauseBudget
    <3> QED
      BY <1>4, <3>1 DEF Prepare, BudgetInv
  <2> QED
    BY <1>4, <2>1 DEF Prepare, BudgetInv
<1>5. CASE Dispatch
  BY <1>5, ConstantsAre DEF Dispatch, Go, Raise, TypeOK, PlaceInv, BudgetInv
<1>6. CASE Extract
  BY <1>6, ConstantsAre DEF Extract, Go, Raise, TypeOK, PlaceInv, BudgetInv
<1>7. CASE Check
  BY <1>7, ConstantsAre DEF Check, Go, Raise, TypeOK, PlaceInv, BudgetInv
<1>8. CASE Identity
  BY <1>8, ConstantsAre DEF Identity, Go, Fail, Finish, TypeOK, PlaceInv, BudgetInv
<1>9. CASE Outcome
  BY <1>9, ConstantsAre DEF Outcome, Go, Fail, Finish, Raise, TypeOK, PlaceInv, BudgetInv
<1>10. CASE Recovery
  BY <1>10, ConstantsAre
     DEF Recovery, Go, Fail, Finish, Raise, Enter, Triggered, Renew, MayAct, InMain,
         TypeOK, PlaceInv, BudgetInv
<1>11. CASE Effects
  BY <1>11, ConstantsAre DEF Effects, Go, Finish, Raise, TypeOK, PlaceInv, BudgetInv
<1>12. CASE Mismatch
  <2>0. Here \in Positions /\ at \in MainSteps /\ attempt \in 1..5
    BY <1>12, HereIs DEF Mismatch, InStep
  <2>a. \A r \in Triggered : r \in Recoveries
    BY <2>0, RecoveriesAssumption DEF Triggered
  <2>1. retained' # None => retained'.attempt <= MaxAttempts[<<Main, retained'.at>>]
    BY <1>12, SurfaceFailureBudget DEF Mismatch, BudgetInv
  <2>2. \A q \in Recoveries : uses'[q] <= MaxUses[q]
    BY <1>12, <2>a, EnterData DEF Mismatch, BudgetInv
  <2> QED
    BY <2>1, <2>2 DEF BudgetInv
<1>13. CASE Retry
  BY <1>13, ConstantsAre DEF Retry, CanRetry, Go, TypeOK, PlaceInv, BudgetInv
<1>14. CASE HandleError
  <2>0. Here \in Positions /\ at \in MainSteps /\ attempt \in 1..5
    BY <1>14, HereIs DEF HandleError, InStep
  <2>a. \A r \in Triggered : r \in Recoveries
    BY <2>0, RecoveriesAssumption DEF Triggered
  <2>1. retained' # None => retained'.attempt <= MaxAttempts[<<Main, retained'.at>>]
    BY <1>14, SurfaceFailureBudget DEF HandleError, BudgetInv
  <2>2. \A q \in Recoveries : uses'[q] <= MaxUses[q]
    BY <1>14, <2>a, EnterData DEF HandleError, BudgetInv
  <2> QED
    BY <2>1, <2>2 DEF BudgetInv
<1>15. CASE NextStep
  BY <1>15, ConstantsAre
     DEF NextStep, Renew, MayAct, GoTo, Go, AttemptAt, InMain, TypeOK, PlaceInv,
         BudgetInv
<1>16. CASE NextRepairStep
  BY <1>16, ConstantsAre
     DEF NextRepairStep, Renew, MayAct, Go, InMain, TypeOK, PlaceInv, BudgetInv
<1>17. CASE Return
  BY <1>17, ConstantsAre
     DEF Return, Renew, MayAct, GoTo, Go, AttemptAt, InMain, TypeOK, PlaceInv,
         BudgetInv
<1>18. CASE Complete
  BY <1>18, ConstantsAre DEF Complete, Fail, Finish, TypeOK, PlaceInv, BudgetInv
<1>19. CASE Retain
  BY <1>19, ConstantsAre DEF Retain, Go, Fail, Finish, TypeOK, PlaceInv, BudgetInv
<1>20. CASE Crash
  BY <1>20, ConstantsAre DEF Crash, TypeOK, PlaceInv, BudgetInv
<1>21. CASE Expire
  BY <1>21, ConstantsAre DEF Expire, TypeOK, PlaceInv, BudgetInv
<1>22. CASE RejectResume
  BY <1>22, ConstantsAre DEF RejectResume, TypeOK, PlaceInv, BudgetInv
<1>23. CASE ResumeStep
  BY <1>23, ConstantsAre
     DEF ResumeStep, Accepted, GoTo, Go, AttemptAt, TypeOK, PlaceInv, BudgetInv
<1>24. CASE ResumeAfter
  BY <1>24, ConstantsAre
     DEF ResumeAfter, Accepted, GoTo, Go, AttemptAt, TypeOK, PlaceInv, BudgetInv
<1>25. CASE ResumeWithOutcome
  BY <1>25, ConstantsAre
     DEF ResumeWithOutcome, Accepted, Finish, TypeOK, PlaceInv, BudgetInv
<1>26. CASE UNCHANGED vars
  BY <1>26 DEF vars, TypeOK, PlaceInv, BudgetInv
<1> QED
  BY <1>1, <1>2, <1>3, <1>4, <1>5, <1>6, <1>7, <1>8, <1>9, <1>10, <1>11, <1>12, <1>13,
     <1>14, <1>15, <1>16, <1>17, <1>18, <1>19, <1>20, <1>21, <1>22, <1>23, <1>24,
     <1>25, <1>26
     DEF Next, Engine, Environment

\* No action loses the lease, or leaves the browser behind.
LEMMA LeaseInvStep == IInv /\ [Next]_vars => LeaseInv'
<1> SUFFICES ASSUME IInv, [Next]_vars PROVE LeaseInv'
  OBVIOUS
<1> USE DEF IInv, InStep, Running, Here, InMain, place, control, history
<1>1. CASE Refuse
  BY <1>1 DEF Refuse, Fail, Finish, TypeOK, LeaseInv, HoldsCurrentLease
<1>2. CASE Open
  BY <1>2 DEF Open, TypeOK, LeaseInv, HoldsCurrentLease
<1>3. CASE Begin
  BY <1>3 DEF Begin, Go, Fail, Finish, TypeOK, LeaseInv, HoldsCurrentLease
<1>4. CASE Prepare
  BY <1>4
     DEF Prepare, MayAct, Go, Fail, Finish, Raise, Pause, InMain, TypeOK, LeaseInv,
         HoldsCurrentLease
<1>5. CASE Dispatch
  BY <1>5 DEF Dispatch, Go, Raise, TypeOK, LeaseInv, HoldsCurrentLease
<1>6. CASE Extract
  BY <1>6 DEF Extract, Go, Raise, TypeOK, LeaseInv, HoldsCurrentLease
<1>7. CASE Check
  BY <1>7 DEF Check, Go, Raise, TypeOK, LeaseInv, HoldsCurrentLease
<1>8. CASE Identity
  BY <1>8 DEF Identity, Go, Fail, Finish, TypeOK, LeaseInv, HoldsCurrentLease
<1>9. CASE Outcome
  BY <1>9 DEF Outcome, Go, Fail, Finish, Raise, TypeOK, LeaseInv, HoldsCurrentLease
<1>10. CASE Recovery
  BY <1>10
     DEF Recovery, Go, Fail, Finish, Raise, Enter, Triggered, Renew, MayAct, InMain,
         TypeOK, LeaseInv, HoldsCurrentLease
<1>11. CASE Effects
  BY <1>11 DEF Effects, Go, Finish, Raise, TypeOK, LeaseInv, HoldsCurrentLease
<1>12. CASE Mismatch
  BY <1>12
     DEF Mismatch, Go, Fail, Finish, Raise, Enter, Triggered, Renew, MayAct, InMain,
         SurfaceFailure, Pause, TypeOK, LeaseInv, HoldsCurrentLease
<1>13. CASE Retry
  BY <1>13 DEF Retry, CanRetry, Go, TypeOK, LeaseInv, HoldsCurrentLease
<1>14. CASE HandleError
  BY <1>14
     DEF HandleError, CanRetry, Go, Fail, Finish, Enter, Triggered, Renew, MayAct,
         InMain, SurfaceFailure, Pause, TypeOK, LeaseInv, HoldsCurrentLease
<1>15. CASE NextStep
  BY <1>15
     DEF NextStep, Renew, MayAct, GoTo, Go, AttemptAt, InMain, TypeOK, LeaseInv,
         HoldsCurrentLease
<1>16. CASE NextRepairStep
  BY <1>16
     DEF NextRepairStep, Renew, MayAct, Go, InMain, TypeOK, LeaseInv, HoldsCurrentLease
<1>17. CASE Return
  BY <1>17
     DEF Return, Renew, MayAct, GoTo, Go, AttemptAt, InMain, TypeOK, LeaseInv,
         HoldsCurrentLease
<1>18. CASE Complete
  BY <1>18 DEF Complete, Fail, Finish, TypeOK, LeaseInv, HoldsCurrentLease
<1>19. CASE Retain
  BY <1>19 DEF Retain, Go, Fail, Finish, TypeOK, LeaseInv, HoldsCurrentLease
<1>20. CASE Crash
  BY <1>20 DEF Crash, TypeOK, LeaseInv, HoldsCurrentLease
<1>21. CASE Expire
  BY <1>21 DEF Expire, TypeOK, LeaseInv, HoldsCurrentLease
<1>22. CASE RejectResume
  BY <1>22 DEF RejectResume, TypeOK, LeaseInv, HoldsCurrentLease
<1>23. CASE ResumeStep
  BY <1>23
     DEF ResumeStep, Accepted, GoTo, Go, AttemptAt, TypeOK, LeaseInv, HoldsCurrentLease
<1>24. CASE ResumeAfter
  BY <1>24
     DEF ResumeAfter, Accepted, GoTo, Go, AttemptAt, TypeOK, LeaseInv,
         HoldsCurrentLease
<1>25. CASE ResumeWithOutcome
  BY <1>25 DEF ResumeWithOutcome, Accepted, Finish, TypeOK, LeaseInv, HoldsCurrentLease
<1>26. CASE UNCHANGED vars
  BY <1>26 DEF vars, TypeOK, LeaseInv, HoldsCurrentLease
<1> QED
  BY <1>1, <1>2, <1>3, <1>4, <1>5, <1>6, <1>7, <1>8, <1>9, <1>10, <1>11, <1>12, <1>13,
     <1>14, <1>15, <1>16, <1>17, <1>18, <1>19, <1>20, <1>21, <1>22, <1>23, <1>24,
     <1>25, <1>26
     DEF Next, Engine, Environment

\* No step is passed before it is settled.
LEMMA OwedInvStep == IInv /\ [Next]_vars => OwedInv'
<1> SUFFICES ASSUME IInv, [Next]_vars PROVE OwedInv'
  OBVIOUS
<1> USE DEF IInv, InStep, Running, Here, InMain, place, control, history
<1>1. CASE Refuse
  BY <1>1 DEF Refuse, Fail, Finish, TypeOK, PlaceInv, FreshInv, OwedInv
<1>2. CASE Open
  BY <1>2 DEF Open, TypeOK, PlaceInv, FreshInv, OwedInv
<1>3. CASE Begin
  BY <1>3 DEF Begin, Go, Fail, Finish, TypeOK, PlaceInv, FreshInv, OwedInv
<1>4. CASE Prepare
  BY <1>4
     DEF Prepare, MayAct, Go, Fail, Finish, Raise, Pause, InMain, TypeOK, PlaceInv,
         FreshInv, OwedInv
<1>5. CASE Dispatch
  BY <1>5 DEF Dispatch, Go, Raise, TypeOK, PlaceInv, FreshInv, OwedInv
<1>6. CASE Extract
  BY <1>6 DEF Extract, Go, Raise, TypeOK, PlaceInv, FreshInv, OwedInv
<1>7. CASE Check
  BY <1>7 DEF Check, Go, Raise, TypeOK, PlaceInv, FreshInv, OwedInv
<1>8. CASE Identity
  BY <1>8 DEF Identity, Go, Fail, Finish, TypeOK, PlaceInv, FreshInv, OwedInv
<1>9. CASE Outcome
  BY <1>9 DEF Outcome, Go, Fail, Finish, Raise, TypeOK, PlaceInv, FreshInv, OwedInv
<1>10. CASE Recovery
  BY <1>10
     DEF Recovery, Go, Fail, Finish, Raise, Enter, Triggered, Renew, MayAct, InMain,
         TypeOK, PlaceInv, FreshInv, OwedInv
<1>11. CASE Effects
  BY <1>11 DEF Effects, Go, Finish, Raise, TypeOK, PlaceInv, FreshInv, OwedInv
<1>12. CASE Mismatch
  BY <1>12
     DEF Mismatch, Go, Fail, Finish, Raise, Enter, Triggered, Renew, MayAct, InMain,
         SurfaceFailure, Pause, TypeOK, PlaceInv, FreshInv, OwedInv
<1>13. CASE Retry
  BY <1>13 DEF Retry, CanRetry, Go, TypeOK, PlaceInv, FreshInv, OwedInv
<1>14. CASE HandleError
  BY <1>14
     DEF HandleError, CanRetry, Go, Fail, Finish, Enter, Triggered, Renew, MayAct,
         InMain, SurfaceFailure, Pause, TypeOK, PlaceInv, FreshInv, OwedInv
<1>15. CASE NextStep
  BY <1>15
     DEF NextStep, Renew, MayAct, GoTo, Go, AttemptAt, InMain, TypeOK, PlaceInv,
         FreshInv, OwedInv
<1>16. CASE NextRepairStep
  BY <1>16
     DEF NextRepairStep, Renew, MayAct, Go, InMain, TypeOK, PlaceInv, FreshInv, OwedInv
<1>17. CASE Return
  BY <1>17
     DEF Return, Renew, MayAct, GoTo, Go, AttemptAt, InMain, TypeOK, PlaceInv,
         FreshInv, OwedInv
<1>18. CASE Complete
  <2>1. owed = {} /\ outputs \subseteq fresh
    BY <1>18, LengthAssumption DEF Complete, PlaceInv, OwedInv, FreshInv
  <2> QED
    BY <1>18, <2>1 DEF Complete, Fail, Finish, OwedInv
<1>19. CASE Retain
  BY <1>19 DEF Retain, Go, Fail, Finish, TypeOK, PlaceInv, FreshInv, OwedInv
<1>20. CASE Crash
  BY <1>20 DEF Crash, TypeOK, PlaceInv, FreshInv, OwedInv
<1>21. CASE Expire
  BY <1>21 DEF Expire, TypeOK, PlaceInv, FreshInv, OwedInv
<1>22. CASE RejectResume
  BY <1>22 DEF RejectResume, TypeOK, PlaceInv, FreshInv, OwedInv
<1>23. CASE ResumeStep
  BY <1>23
     DEF ResumeStep, Accepted, GoTo, Go, AttemptAt, TypeOK, PlaceInv, FreshInv, OwedInv
<1>24. CASE ResumeAfter
  <2>1. /\ retained.at = at /\ at \in MainSteps /\ owed \subseteq at..Length[Main]
        /\ Length[Main] \in Nat
    BY <1>24, LengthAssumption DEF ResumeAfter, Accepted, PlaceInv, OwedInv
  <2>2. owed' \subseteq (at + 1)..Length[Main]
    BY <1>24, <2>1 DEF ResumeAfter
  <2>3. result.status # "success" /\ at' = at + 1
    BY <1>24, <2>1 DEF ResumeAfter, Accepted, GoTo, OwedInv
  <2> QED
    BY <1>24, <2>2, <2>3 DEF ResumeAfter, GoTo, Go, OwedInv
<1>25. CASE ResumeWithOutcome
  BY <1>25 DEF ResumeWithOutcome, Accepted, Finish, TypeOK, PlaceInv, FreshInv, OwedInv
<1>26. CASE UNCHANGED vars
  BY <1>26 DEF vars, TypeOK, PlaceInv, FreshInv, OwedInv
<1> QED
  BY <1>1, <1>2, <1>3, <1>4, <1>5, <1>6, <1>7, <1>8, <1>9, <1>10, <1>11, <1>12, <1>13,
     <1>14, <1>15, <1>16, <1>17, <1>18, <1>19, <1>20, <1>21, <1>22, <1>23, <1>24,
     <1>25, <1>26
     DEF Next, Engine, Environment

\* Nothing read before a pause is used after it, and no record goes unidentified.
LEMMA FreshInvStep == IInv /\ [Next]_vars => FreshInv'
<1> SUFFICES ASSUME IInv, [Next]_vars PROVE FreshInv'
  OBVIOUS
<1> USE DEF IInv, InStep, Running, Here, InMain, place, control, history
<1>1. CASE Refuse
  BY <1>1 DEF Refuse, Fail, Finish, TypeOK, FreshInv
<1>2. CASE Open
  BY <1>2 DEF Open, TypeOK, FreshInv
<1>3. CASE Begin
  BY <1>3 DEF Begin, Go, Fail, Finish, TypeOK, FreshInv
<1>4. CASE Prepare
  BY <1>4 DEF Prepare, MayAct, Go, Fail, Finish, Raise, Pause, InMain, TypeOK, FreshInv
<1>5. CASE Dispatch
  BY <1>5 DEF Dispatch, Go, Raise, TypeOK, FreshInv
<1>6. CASE Extract
  BY <1>6 DEF Extract, Go, Raise, TypeOK, FreshInv
<1>7. CASE Check
  BY <1>7 DEF Check, Go, Raise, TypeOK, FreshInv
<1>8. CASE Identity
  BY <1>8 DEF Identity, Go, Fail, Finish, TypeOK, FreshInv
<1>9. CASE Outcome
  BY <1>9 DEF Outcome, Go, Fail, Finish, Raise, TypeOK, FreshInv
<1>10. CASE Recovery
  BY <1>10
     DEF Recovery, Go, Fail, Finish, Raise, Enter, Triggered, Renew, MayAct, InMain,
         TypeOK, FreshInv
<1>11. CASE Effects
  BY <1>11 DEF Effects, Go, Finish, Raise, TypeOK, FreshInv
<1>12. CASE Mismatch
  BY <1>12
     DEF Mismatch, Go, Fail, Finish, Raise, Enter, Triggered, Renew, MayAct, InMain,
         SurfaceFailure, Pause, TypeOK, FreshInv
<1>13. CASE Retry
  BY <1>13 DEF Retry, CanRetry, Go, TypeOK, FreshInv
<1>14. CASE HandleError
  BY <1>14
     DEF HandleError, CanRetry, Go, Fail, Finish, Enter, Triggered, Renew, MayAct,
         InMain, SurfaceFailure, Pause, TypeOK, FreshInv
<1>15. CASE NextStep
  BY <1>15 DEF NextStep, Renew, MayAct, GoTo, Go, AttemptAt, InMain, TypeOK, FreshInv
<1>16. CASE NextRepairStep
  BY <1>16 DEF NextRepairStep, Renew, MayAct, Go, InMain, TypeOK, FreshInv
<1>17. CASE Return
  BY <1>17 DEF Return, Renew, MayAct, GoTo, Go, AttemptAt, InMain, TypeOK, FreshInv
<1>18. CASE Complete
  BY <1>18 DEF Complete, Fail, Finish, TypeOK, FreshInv
<1>19. CASE Retain
  BY <1>19 DEF Retain, Go, Fail, Finish, TypeOK, FreshInv
<1>20. CASE Crash
  BY <1>20 DEF Crash, TypeOK, FreshInv
<1>21. CASE Expire
  BY <1>21 DEF Expire, TypeOK, FreshInv
<1>22. CASE RejectResume
  BY <1>22 DEF RejectResume, TypeOK, FreshInv
<1>23. CASE ResumeStep
  BY <1>23 DEF ResumeStep, Accepted, GoTo, Go, AttemptAt, TypeOK, FreshInv
<1>24. CASE ResumeAfter
  BY <1>24 DEF ResumeAfter, Accepted, GoTo, Go, AttemptAt, TypeOK, FreshInv
<1>25. CASE ResumeWithOutcome
  BY <1>25 DEF ResumeWithOutcome, Accepted, Finish, TypeOK, FreshInv
<1>26. CASE UNCHANGED vars
  BY <1>26 DEF vars, TypeOK, FreshInv
<1> QED
  BY <1>1, <1>2, <1>3, <1>4, <1>5, <1>6, <1>7, <1>8, <1>9, <1>10, <1>11, <1>12, <1>13,
     <1>14, <1>15, <1>16, <1>17, <1>18, <1>19, <1>20, <1>21, <1>22, <1>23, <1>24,
     <1>25, <1>26
     DEF Next, Engine, Environment

\* The engine never comes to an action whose effect may be present.
LEMMA EffectInvStep == IInv /\ [Next]_vars => EffectInv'
<1> SUFFICES ASSUME IInv, [Next]_vars PROVE EffectInv'
  OBVIOUS
<1> USE DEF IInv, InStep, Running, Here, InMain, place, control, history
<1>1. CASE Refuse
  BY <1>1 DEF Refuse, Fail, Finish, TypeOK, PlaceInv, EffectInv, Untouched, NoneFrom
<1>2. CASE Open
  BY <1>2 DEF Open, TypeOK, PlaceInv, EffectInv, Untouched, NoneFrom
<1>3. CASE Begin
  BY <1>3 DEF Begin, Go, Fail, Finish, TypeOK, PlaceInv, EffectInv, Untouched, NoneFrom
<1>4. CASE Prepare
  BY <1>4
     DEF Prepare, MayAct, Go, Fail, Finish, Raise, Pause, InMain, TypeOK, PlaceInv,
         EffectInv, Untouched, NoneFrom
<1>5. CASE Dispatch
  BY <1>5 DEF Dispatch, Go, Raise, TypeOK, PlaceInv, EffectInv, Untouched, NoneFrom
<1>6. CASE Extract
  BY <1>6 DEF Extract, Go, Raise, TypeOK, PlaceInv, EffectInv, Untouched, NoneFrom
<1>7. CASE Check
  BY <1>7 DEF Check, Go, Raise, TypeOK, PlaceInv, EffectInv, Untouched, NoneFrom
<1>8. CASE Identity
  BY <1>8 DEF Identity, Go, Fail, Finish, TypeOK, PlaceInv, EffectInv, Untouched, NoneFrom
<1>9. CASE Outcome
  <2>1. CASE pc' = "done"
    BY <2>1 DEF EffectInv
  <2>2. CASE pc' \in {"recovery", "error"}
    <3>1. /\ pc = "outcome" /\ UNCHANGED <<at, block, index, effect, dispatched>>
          /\ pc' = "error" => ~error'.retry
      BY <1>9, <2>2 DEF Outcome, Go, Raise, Fail, Finish, Terminal
    <3> QED
      BY <2>2, <3>1, SameEffect DEF Untouched
  <2> QED
    BY <1>9, <2>1, <2>2 DEF Outcome, Go, Raise, Fail, Finish
<1>10. CASE Recovery
  <2>0. Here \in Positions /\ at \in MainSteps /\ attempt \in 1..5
    BY <1>10, HereIs DEF Recovery, InStep
  <2>a. \A r \in Triggered : r \in Recoveries
    BY <2>0, RecoveriesAssumption DEF Triggered
  <2>1. CASE \E r \in Triggered : Enter(r)
    BY <1>10, <2>a, <2>1, EnterEffect DEF Recovery, TypeOK
  <2>2. CASE UNCHANGED <<place, effect>> /\ (Go("effects") \/ Raise(Terminal))
    <3>1. /\ pc = "recovery" /\ UNCHANGED <<at, block, index, effect, dispatched>>
          /\ pc' \in {"effects", "error"} /\ (pc' = "error" => ~error'.retry)
      BY <1>10, <2>1, <2>2 DEF Recovery, Enter, Go, Raise, Fail, Finish, Terminal
    <3> QED
      BY <3>1, SameEffect DEF Untouched
  <2> QED
    BY <1>10, <2>1, <2>2 DEF Recovery, Go, Raise
<1>11. CASE Effects
  <2>1. CASE pc' = "done"
    BY <2>1 DEF EffectInv
  <2>2. CASE pc' \in {"advance", "mismatch", "error"}
    BY <1>11, <2>2, SameEffect DEF Effects, Go, Raise, Finish, Terminal, Untouched
  <2> QED
    BY <1>11, <2>1, <2>2 DEF Effects, Go, Raise, Finish
<1>12. CASE Mismatch
  <2>0. Here \in Positions /\ at \in MainSteps /\ attempt \in 1..5
    BY <1>12, HereIs DEF Mismatch, InStep
  <2>a. \A r \in Triggered : r \in Recoveries
    BY <2>0, RecoveriesAssumption DEF Triggered
  <2>1. CASE \E r \in Triggered : Enter(r)
    BY <1>12, <2>a, <2>1, EnterEffect DEF Mismatch, TypeOK
  <2>2. CASE pc' = "done"
    BY <2>2 DEF EffectInv
  <2>3. CASE InMain /\ Pause(FALSE, attempt) /\ UNCHANGED <<place, effect>>
    BY <1>12, <2>0, <2>3, PauseEffect DEF Mismatch
  <2>4. CASE Raise(Terminal) /\ UNCHANGED <<place, effect>>
    BY <1>12, <2>4, SameEffect DEF Mismatch, Go, Raise, Terminal, Untouched
  <2> QED
    BY <1>12, <2>1, <2>2, <2>3, <2>4 DEF Mismatch, SurfaceFailure, Finish, Fail
<1>13. CASE Retry
  BY <1>13 DEF Retry, CanRetry, Go, TypeOK, PlaceInv, EffectInv, Untouched, NoneFrom
<1>14. CASE HandleError
  BY <1>14
     DEF HandleError, CanRetry, Go, Fail, Finish, Enter, Triggered, Renew, MayAct,
         InMain, SurfaceFailure, Pause, TypeOK, PlaceInv, EffectInv, Untouched,
         NoneFrom
<1>15. CASE NextStep
  <2>1. at + 1 \in Nat /\ \A p \in effect : p[1] = Main => p[2] < at + 1
    BY <1>15 DEF NextStep, TypeOK, EffectInv, NoneFrom
  <2> QED
    BY <1>15, <2>1, GoToEffect DEF NextStep, TypeOK
<1>16. CASE NextRepairStep
  <2>1. \A p \in effect : p[2] \in Nat
    BY LengthAssumption DEF TypeOK, Positions
  <2>2. (NoneFrom(Main, at + 1) /\ NoneFrom(block, index) /\ NoneFrom(block, index + 1))'
    BY <1>16, <2>1 DEF NextRepairStep, TypeOK, EffectInv, NoneFrom
  <2> QED
    BY <1>16, <2>2 DEF NextRepairStep, Go, EffectInv
<1>17. CASE Return
  <2>1. ResumeAt[block] \in Nat /\ effect' \subseteq Positions
    BY <1>17, RecoveriesAssumption DEF Return, InMain, TypeOK
  <2>2. \A p \in effect' : p[1] = Main => p[2] < ResumeAt[block]
    BY <1>17 DEF Return
  <2> QED
    BY <1>17, <2>1, <2>2, GoToEffect DEF Return
<1>18. CASE Complete
  BY <1>18 DEF Complete, Fail, Finish, TypeOK, PlaceInv, EffectInv, Untouched, NoneFrom
<1>19. CASE Retain
  BY <1>19 DEF Retain, Go, Fail, Finish, TypeOK, PlaceInv, EffectInv, Untouched, NoneFrom
<1>20. CASE Crash
  BY <1>20 DEF Crash, TypeOK, PlaceInv, EffectInv, Untouched, NoneFrom
<1>21. CASE Expire
  BY <1>21 DEF Expire, TypeOK, PlaceInv, EffectInv, Untouched, NoneFrom
<1>22. CASE RejectResume
  BY <1>22 DEF RejectResume, TypeOK, PlaceInv, EffectInv, Untouched, NoneFrom
<1>23. CASE ResumeStep
  BY <1>23
     DEF ResumeStep, Accepted, GoTo, Go, AttemptAt, TypeOK, PlaceInv, EffectInv,
         Untouched, NoneFrom
<1>24. CASE ResumeAfter
  <2>1. /\ retained.at = at /\ at + 1 \in Nat
        /\ \A p \in effect : p[1] = Main => p[2] < at + 1
    BY <1>24 DEF ResumeAfter, Accepted, PlaceInv, TypeOK, EffectInv, NoneFrom
  <2> QED
    BY <1>24, <2>1, GoToEffect DEF ResumeAfter, TypeOK
<1>25. CASE ResumeWithOutcome
  BY <1>25
     DEF ResumeWithOutcome, Accepted, Finish, TypeOK, PlaceInv, EffectInv, Untouched,
         NoneFrom
<1>26. CASE UNCHANGED vars
  BY <1>26 DEF vars, TypeOK, PlaceInv, EffectInv, Untouched, NoneFrom
<1> QED
  BY <1>1, <1>2, <1>3, <1>4, <1>5, <1>6, <1>7, <1>8, <1>9, <1>10, <1>11, <1>12, <1>13,
     <1>14, <1>15, <1>16, <1>17, <1>18, <1>19, <1>20, <1>21, <1>22, <1>23, <1>24,
     <1>25, <1>26
     DEF Next, Engine, Environment

\* The types of all variables, and the limits of the step, are preserved.
LEMMA TypeOKStep == IInv /\ [Next]_vars => TypeOK'
  BY FlagsOKStep, ControlOKStep, PlaceOKStep, DataOKStep, StepOKStep
     DEF TypeOK, FlagsOK, ControlOK, PlaceOK, DataOK

\* A new engine satisfies the invariant: it has executed and promised nothing.
LEMMA InitInv == Init => IInv
<1> SUFFICES ASSUME Init PROVE IInv
  OBVIOUS
<1> USE LengthAssumption, ConstantsAre DEF Init
<1>1. TypeOK
  <2>1. StepOK
    BY DEF StepOK, InStep
  <2>2. lease \in [owner : {"none", "automation", "automation_paused"}, version : Nat]
    OBVIOUS
  <2>3. result \in [status : {"none", "failure", "business_outcome", "success"},
                   shown : SUBSET Signs]
    OBVIOUS
  <2>4. error \in Errors
    BY TerminalIs
  <2>5. uses \in [Recoveries -> 0..3]
    OBVIOUS
  <2>6. at \in Nat \ {0} /\ block \in Blocks /\ index \in Nat \ {0} /\ owed \subseteq MainSteps
    OBVIOUS
  <2> QED
    BY <2>1, <2>2, <2>3, <2>4, <2>5, <2>6 DEF TypeOK, Running
<1>2. PlaceInv
  BY DEF PlaceInv, InStep, InMain
<1>3. BudgetInv
  BY DEF BudgetInv
<1>4. LeaseInv
  BY DEF LeaseInv, HoldsCurrentLease, Running, InStep
<1>5. OwedInv
  BY DEF OwedInv
<1>6. FreshInv
  BY DEF FreshInv
<1>7. EffectInv
  BY DEF EffectInv, InStep
<1> QED
  BY <1>1, <1>2, <1>3, <1>4, <1>5, <1>6, <1>7 DEF IInv

\* The invariant holds in every state of the engine, for any artifact.
THEOREM Inductive == Spec => []IInv
<1>1. IInv /\ [Next]_vars => IInv'
  BY TypeOKStep, PlaceInvStep, BudgetInvStep, LeaseInvStep, OwedInvStep, FreshInvStep,
     EffectInvStep DEF IInv
<1> QED
  BY <1>1, InitInv, PTL DEF Spec

\* The registers of the engine have their types, and no step is attempted more often
\* than the artifact allows, counting the attempts before a pause.
THEOREM TypeCorrect == Spec => []TypeOK
<1>1. IInv => TypeOK
  BY DEF IInv
<1> QED
  BY <1>1, Inductive, PTL

\* Only expiry takes the engine's authority away while it runs: it never goes on under
\* a version of the lease that is not the current one.
THEOREM LeaseCarried == Spec => []HoldsCurrentLease
<1>1. IInv => HoldsCurrentLease
  BY DEF IInv, LeaseInv
<1> QED
  BY <1>1, Inductive, PTL

\* Retries, resumptions and recoveries never dispatch an action again whose earlier
\* dispatch may have had an effect, unless a recovery declared its repetition.
THEOREM NoRepeat == Spec => []NoBlindRepeat
<1>1. IInv => NoBlindRepeat
  <2> SUFFICES ASSUME IInv, pc = "act" PROVE Here \notin effect
    BY DEF NoBlindRepeat
  <2>1. NoneFrom(block, index)
    BY DEF IInv, EffectInv, InStep, Untouched
  <2>2. index \in Nat
    BY DEF IInv, TypeOK
  <2> QED
    BY <2>1, <2>2 DEF NoneFrom, Here
<1> QED
  BY <1>1, Inductive, PTL

\* What a run computes with was read after the last human had control.
THEOREM Fresh == Spec => []OutputsAreFresh
<1>1. IInv => OutputsAreFresh
  BY DEF IInv, FreshInv, OutputsAreFresh
<1> QED
  BY <1>1, Inductive, PTL

\* A run that succeeds owes no step, and its required outputs are current.
THEOREM SuccessEarned == Spec => []SuccessIsEarned
<1>1. IInv => SuccessIsEarned
  BY DEF IInv, OwedInv, SuccessIsEarned
<1> QED
  BY <1>1, Inductive, PTL

\* A negative outcome is about the record that the step identified.
THEOREM RightRecord == Spec => []OutcomeOnRightRecord
<1>1. IInv => OutcomeOnRightRecord
  BY DEF IInv, FreshInv, OutcomeOnRightRecord
<1> QED
  BY <1>1, Inductive, PTL

\* A pause keeps its browser under the operators' authority; no other end keeps one.
THEOREM BrowserKept == Spec => []BrowserFollowsRun
<1>1. IInv => BrowserFollowsRun
  BY DEF IInv, LeaseInv, BrowserFollowsRun
<1> QED
  BY <1>1, Inductive, PTL
=============================================================================
