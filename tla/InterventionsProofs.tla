------------------------ MODULE InterventionsProofs ------------------------
(***************************************************************************)
(* Proofs about Interventions, for any sessions, operators, interventions, *)
(* callers and bounds.                                                     *)
(***************************************************************************)
EXTENDS Interventions, TLAPS

(***************************************************************************)
(* What a caller holds between its read and its commit.  The pair it read  *)
(* was active and in agreement; the lease has not moved, or has a higher   *)
(* version; at the same version the intervention can only have been        *)
(* reopened, which changes its status.                                     *)
(***************************************************************************)
PreparedFromActivePair(p) ==
  /\ p.before.status \in Active
  /\ Agree(p.id, p.before, p.beforeLease)

LeaseMovesForward(p) ==
  /\ LeaseOf(p.id) # None
  /\ p.beforeLease.version <= LeaseOf(p.id).version
  /\ LeaseOf(p.id).version = p.beforeLease.version =>
       /\ LeaseOf(p.id) = p.beforeLease
       /\ \/ intervention[p.id] = p.before
          \/ p.before.status = "resuming" /\ intervention[p.id].status = "open"

VersionRule(p) ==
  \/ p.afterLease.version = p.beforeLease.version + 1
  \/ /\ p.afterLease = p.beforeLease
     /\ p.before.status = "resuming"
     /\ p.after.status = "open"

PendingInv ==
  \A t \in Callers : pending[t] # None =>
    /\ PreparedFromActivePair(pending[t])
    /\ LeaseMovesForward(pending[t])
    /\ VersionRule(pending[t])

\* What the automation holds: a replacement of the lease it still owns.
RenewalInv ==
  \A s \in Sessions : renewal[s] # None =>
    /\ automation[s].phase = "running"
    /\ renewal[s].afterLease.version = renewal[s].beforeLease.version + 1
    /\ renewal[s].id = None => renewal[s].afterLease.owner = Automation
    /\ renewal[s].id # None => SessionOf[renewal[s].id] = s

IInv ==
  /\ TypeOK
  /\ ActivePairsAgree
  /\ PendingInv
  /\ AutomationKeepsLease
  /\ RenewalInv

\* The strengthening implies the swap property it is there for.
LEMMA IInvImpliesCommitSees == IInv => CommitSeesWhatWasRead
  BY DEF IInv, PendingInv, PreparedFromActivePair, LeaseMovesForward,
         CommitSeesWhatWasRead, Unchanged, LeaseUnchanged, LeaseOf, Active

USE SessionOfAssumption, TtlAssumption, MaxTimeAssumption, MaxVersionAssumption

------------------------------------------------------------------------------
(* Type correctness *)

\* Every lease a writer builds from a lease and a clock reading is a lease.
LEMMA ReplacementIsLease ==
  ASSUME NEW l \in Lease, NEW owner \in Owners,
         NEW binding \in Interventions \cup {None}, NEW at \in Nat
  PROVE  Replacement(l, owner, binding, at) \in Lease
  BY DEF Replacement, Lease

LEMMA OwnersAreOwners ==
  /\ Automation \in Owners /\ Paused \in Owners /\ Nobody \in Owners
  /\ \A o \in Operators : Human(o) \in Owners
  BY DEF Owners


LEMMA InitTypeOK == Init => TypeOK
  BY DEF Init, LeaseInit, TypeOK, LeaseTypeOK, Intervention, Statuses, Phases

LEMMA AutomationTypeOK ==
  ASSUME TypeOK, NEW s \in Sessions, AutomationStep(s)
  PROVE  TypeOK'
<1>1. CASE StartRun(s)
  <2>1. [owner |-> Automation, version |-> 1, expires |-> now + Ttl,
         intervention |-> None] \in Lease
    BY OwnersAreOwners DEF Lease, TypeOK, LeaseTypeOK
  <2>2. QED
    BY <1>1, <2>1 DEF StartRun, CreateForAutomation, TypeOK, LeaseTypeOK, Phases
<1>2. CASE PrepareRenewal(s)
  <2>1. lease[s] \in Lease
    BY <1>2 DEF PrepareRenewal, AutomationMayAct, TypeOK, LeaseTypeOK
  <2>2. Replacement(lease[s], Automation, lease[s].intervention, now) \in Lease
    <3>1. lease[s].intervention \in Interventions \cup {None} /\ now \in Nat
      BY <2>1 DEF Lease, TypeOK, LeaseTypeOK
    <3>2. QED
      BY <2>1, <3>1, ReplacementIsLease, OwnersAreOwners
  <2>3. QED
    BY <1>2, <2>1, <2>2 DEF PrepareRenewal, TypeOK, LeaseTypeOK, Renewal
<1>3. ASSUME NEW i \in Interventions, PrepareOpen(s, i) PROVE TypeOK'
  <2>1. lease[s] \in Lease
    BY <1>3 DEF PrepareOpen, AutomationMayAct, TypeOK, LeaseTypeOK
  <2>2. Replacement(lease[s], Paused, i, now) \in Lease
    <3>1. now \in Nat
      BY DEF TypeOK, LeaseTypeOK
    <3>2. QED
      BY <2>1, <3>1, ReplacementIsLease, OwnersAreOwners
  <2>3. QED
    BY <1>3, <2>1, <2>2 DEF PrepareOpen, TypeOK, LeaseTypeOK, Renewal
<1>4. CASE CommitRenewal(s)
  <2>1. renewal[s].afterLease \in Lease /\ renewal[s].afterLease.version \in Nat
    BY <1>4 DEF CommitRenewal, TypeOK, Renewal, Lease
  <2>2. automation' \in [Sessions -> [phase : Phases, version : Nat]]
    BY <1>4, <2>1 DEF CommitRenewal, TypeOK
  <2>3. QED
    BY <1>4, <2>1, <2>2 DEF CommitRenewal, TypeOK, LeaseTypeOK
<1>5. CASE CommitOpen(s)
  <2>1. renewal[s].afterLease \in Lease
    BY <1>5 DEF CommitOpen, TypeOK, Renewal
  <2>2. [status |-> "open", operator |-> None] \in Intervention
    BY DEF Intervention, Statuses
  <2>3. automation' \in [Sessions -> [phase : Phases, version : Nat]]
    BY <1>5 DEF CommitOpen, TypeOK, Phases
  <2>4. QED
    BY <1>5, <2>1, <2>2, <2>3 DEF CommitOpen, TypeOK, LeaseTypeOK
<1>6. CASE EndRun(s)
  BY <1>6 DEF EndRun, TypeOK, LeaseTypeOK, Phases
<1>7. CASE ResumeRun(s)
  BY <1>7 DEF ResumeRun, TypeOK, LeaseTypeOK, Phases
<1>8. QED
  BY <1>1, <1>2, <1>3, <1>4, <1>5, <1>6, <1>7 DEF AutomationStep

\* Preparing a replacement of an intervention keeps the types.
LEMMA PrepareLeaseTypeOK ==
  ASSUME TypeOK, NEW t \in Callers, NEW i \in Interventions,
         NEW by \in Operators \cup {None}, NEW after \in Intervention,
         NEW owner \in Owners, NEW binding \in Interventions \cup {None},
         PrepareLease(t, i, by, after, owner, binding)
  PROVE  TypeOK'
<1>1. LeaseOf(i) \in Lease /\ now \in Nat
  BY DEF PrepareLease, LeaseOf, TypeOK, LeaseTypeOK
<1>2. Replacement(LeaseOf(i), owner, binding, now) \in Lease
  BY <1>1, ReplacementIsLease
<1>3. QED
  BY <1>1, <1>2 DEF PrepareLease, Prepare, TypeOK, LeaseTypeOK, Pending

LEMMA OperatorTypeOK ==
  ASSUME TypeOK, NEW t \in Callers, OperatorStep(t)
  PROVE  TypeOK'
<1>1. ASSUME NEW i \in Interventions, NEW o \in Operators,
             \/ PrepareClaim(t, i, o) \/ PrepareReclaim(t, i, o) \/ PrepareRelease(t, i, o)
             \/ PrepareBeginResume(t, i, o) \/ PrepareHeartbeat(t, i, o)
      PROVE  TypeOK'
  <2>1. /\ [status |-> "claimed", operator |-> o] \in Intervention
        /\ [status |-> "open", operator |-> None] \in Intervention
        /\ [status |-> "resuming", operator |-> o] \in Intervention
        /\ intervention[i] \in Intervention
    BY DEF Intervention, Statuses, TypeOK
  <2>2. QED
    BY <1>1, <2>1, PrepareLeaseTypeOK, OwnersAreOwners
       DEF PrepareClaim, PrepareReclaim, PrepareRelease, PrepareBeginResume, PrepareHeartbeat
<1>2. ASSUME NEW i \in Interventions, PrepareReopen(t, i) PROVE TypeOK'
  <2>1. LeaseOf(i) \in Lease
    BY <1>2 DEF PrepareReopen, LeaseOf, TypeOK, LeaseTypeOK
  <2>2. [status |-> "open", operator |-> None] \in Intervention
    BY DEF Intervention, Statuses
  <2>3. QED
    BY <1>2, <2>1, <2>2 DEF PrepareReopen, Prepare, TypeOK, LeaseTypeOK, Pending
<1>3. ASSUME NEW i \in Interventions, PrepareCompleteResume(t, i) PROVE TypeOK'
  <2>1. [intervention[i] EXCEPT !.status = "resolved"] \in Intervention
    BY DEF TypeOK, Intervention, Statuses
  <2>2. QED
    BY <1>3, <2>1, PrepareLeaseTypeOK, OwnersAreOwners DEF PrepareCompleteResume
<1>4. ASSUME NEW i \in Interventions, NEW by \in Operators \cup {None},
             PrepareTerminate(t, i, by)
      PROVE  TypeOK'
  <2>1. [intervention[i] EXCEPT !.status = "terminated"] \in Intervention
    BY DEF TypeOK, Intervention, Statuses
  <2>2. QED
    BY <1>4, <2>1, PrepareLeaseTypeOK, OwnersAreOwners DEF PrepareTerminate
<1>5. CASE Commit(t)
  <2> DEFINE p == pending[t]
             s == SessionOf[p.id]
  <2>1. p \in Pending /\ s \in Sessions
    BY <1>5 DEF Commit, TypeOK, Pending
  <2>2. p.afterLease \in Lease /\ p.after \in Intervention /\ p.afterLease.version \in Nat
    BY <2>1 DEF Pending, Lease
  <2>3. automation' \in [Sessions -> [phase : Phases, version : Nat]]
    BY <1>5, <2>1, <2>2 DEF Commit, TypeOK, Phases
  <2>4. lease' \in [Sessions -> Lease \cup {None}]
    BY <1>5, <2>1, <2>2 DEF Commit, TypeOK, LeaseTypeOK
  <2>5. intervention' \in [Interventions -> Intervention]
    BY <1>5, <2>1, <2>2 DEF Commit, TypeOK
  <2>6. QED
    BY <1>5, <2>3, <2>4, <2>5 DEF Commit, TypeOK, LeaseTypeOK
<1>6. CASE Conflict(t)
  BY <1>6 DEF Conflict, TypeOK, LeaseTypeOK
<1>7. QED
  BY <1>1, <1>2, <1>3, <1>4, <1>5, <1>6 DEF OperatorStep

\* Type correctness of the coordinator (interventions/service.py), for every
\* number of sessions, interventions, operators and concurrent callers.
THEOREM TypeCorrect == Spec => []TypeOK
<1>1. Init => TypeOK
  BY InitTypeOK
<1>2. TypeOK /\ [Next]_vars => TypeOK'
  <2> SUFFICES ASSUME TypeOK, [Next]_vars PROVE TypeOK'
    OBVIOUS
  <2>1. CASE Pass
    BY <2>1 DEF Pass, Tick, TypeOK, LeaseTypeOK
  <2>2. CASE \E s \in Sessions : AutomationStep(s)
    BY <2>2, AutomationTypeOK
  <2>3. CASE \E t \in Callers : OperatorStep(t)
    BY <2>3, OperatorTypeOK
  <2>4. CASE UNCHANGED vars
    BY <2>4 DEF vars, TypeOK, LeaseTypeOK
  <2>5. QED
    BY <2>1, <2>2, <2>3, <2>4 DEF Next
<1>3. QED
  BY <1>1, <1>2, PTL DEF Spec

------------------------------------------------------------------------------
(* The inductive invariant *)

LEMMA InitIInv == Init => IInv
  BY InitTypeOK DEF IInv, Init, LeaseInit, ActivePairsAgree, Active, PendingInv,
                    AutomationKeepsLease, RenewalInv

\* A lease in automation's hands belongs to no active intervention.
LEMMA AutomationMeansNoneActive ==
  ASSUME ActivePairsAgree, NEW i \in Interventions, LeaseOf(i).owner = Automation
  PROVE  intervention[i].status \notin Active
  BY DEF ActivePairsAgree, Agree, Active, OwnerKindOf, Automation

\* At most one active intervention is bound to a session.
LEMMA OneActivePerSession ==
  ASSUME ActivePairsAgree, NEW i \in Interventions, NEW j \in Interventions,
         intervention[i].status \in Active, intervention[j].status \in Active,
         SessionOf[i] = SessionOf[j]
  PROVE  i = j
  BY DEF ActivePairsAgree, Agree, LeaseOf

\* Steps that leave leases, interventions and requests alone disturb no pair.
LEMMA PairsUntouched ==
  ASSUME ActivePairsAgree, PendingInv, UNCHANGED <<lease, intervention, pending>>
  PROVE  ActivePairsAgree' /\ PendingInv'
  BY DEF ActivePairsAgree, PendingInv, Agree, LeaseOf, PreparedFromActivePair,
         LeaseMovesForward, VersionRule

\* A new lease, one version above an automation lease, at session s: no active
\* pair is there to be disturbed, and every prepared request is outdated.
LEMMA AutomationWrite ==
  ASSUME IInv, NEW s \in Sessions, NEW l \in Lease, lease[s] # None,
         lease[s].owner = Automation, l.version = lease[s].version + 1,
         lease' = [lease EXCEPT ![s] = l], UNCHANGED pending,
         \A i \in Interventions :
           \/ intervention'[i] = intervention[i]
           \/ SessionOf[i] = s /\ Agree(i, intervention'[i], l)
  PROVE  ActivePairsAgree' /\ PendingInv'
<1>1. l # None /\ lease'[s] = l /\ lease[s] \in Lease
  BY NoneAssumption DEF IInv, TypeOK, LeaseTypeOK
<1>2. ActivePairsAgree'
  <2> SUFFICES ASSUME NEW i \in Interventions, intervention'[i].status \in Active
               PROVE  Agree(i, intervention'[i], lease'[SessionOf[i]])
    BY DEF ActivePairsAgree, Agree, LeaseOf
  <2>1. CASE SessionOf[i] = s
    BY <1>1, <2>1, AutomationMeansNoneActive DEF IInv, LeaseOf
  <2>2. CASE SessionOf[i] # s
    BY <2>2 DEF IInv, ActivePairsAgree, Agree, LeaseOf, TypeOK, LeaseTypeOK
  <2>3. QED
    BY <2>1, <2>2
<1>3. PendingInv'
  <2> SUFFICES ASSUME NEW t \in Callers, pending[t] # None
               PROVE  /\ PreparedFromActivePair(pending[t])
                      /\ LeaseMovesForward(pending[t])'
                      /\ VersionRule(pending[t])
    BY DEF PendingInv, PreparedFromActivePair, VersionRule, LeaseMovesForward
  <2> DEFINE p == pending[t]
  <2>1. /\ PreparedFromActivePair(p) /\ LeaseMovesForward(p) /\ VersionRule(p)
        /\ p \in Pending
    BY DEF IInv, PendingInv, TypeOK
  <2>2. LeaseMovesForward(p)'
    <3>1. CASE SessionOf[p.id] = s
      BY <1>1, <2>1, <3>1 DEF LeaseMovesForward, LeaseOf, Pending, Lease
    <3>2. CASE SessionOf[p.id] # s
      <4>1. SessionOf[p.id] \in Sessions /\ p.id \in Interventions
        BY <2>1 DEF Pending
      <4>2. /\ lease'[SessionOf[p.id]] = lease[SessionOf[p.id]]
            /\ intervention'[p.id] = intervention[p.id]
        BY <3>2, <4>1 DEF IInv, TypeOK, LeaseTypeOK
      <4>3. QED
        BY <2>1, <4>2 DEF LeaseMovesForward, LeaseOf
    <3>3. QED
      BY <3>1, <3>2
  <2>3. QED
    BY <2>1, <2>2
<1>4. QED
  BY <1>2, <1>3

LEMMA AutomationIInv ==
  ASSUME IInv, NEW s \in Sessions, AutomationStep(s)
  PROVE  IInv'
<1>1. TypeOK'
  BY AutomationTypeOK DEF IInv
<1>2. CASE StartRun(s)
  <2> DEFINE l == [owner |-> Automation, version |-> 1, expires |-> now + Ttl,
                   intervention |-> None]
  <2>1. l \in Lease /\ l # None
    BY NoneAssumption, OwnersAreOwners DEF Lease, IInv, TypeOK, LeaseTypeOK
  <2>2. /\ lease' = [lease EXCEPT ![s] = l]
        /\ UNCHANGED <<now, intervention, pending, renewal>>
        /\ automation' = [automation EXCEPT ![s] = [phase |-> "running", version |-> 1]]
        /\ lease[s] = None /\ automation[s].phase = "absent"
    BY <1>2 DEF StartRun, CreateForAutomation
  <2>3. ActivePairsAgree'
    BY <2>2 DEF IInv, ActivePairsAgree, Agree, LeaseOf, TypeOK, LeaseTypeOK
  <2>4. PendingInv'
    BY <2>2 DEF IInv, PendingInv, PreparedFromActivePair, LeaseMovesForward, VersionRule,
                Agree, LeaseOf, TypeOK, LeaseTypeOK
  <2>5. AutomationKeepsLease' /\ RenewalInv'
    BY <2>1, <2>2 DEF IInv, AutomationKeepsLease, RenewalInv, TypeOK, LeaseTypeOK
  <2>6. QED
    BY <1>1, <2>3, <2>4, <2>5 DEF IInv
<1>3. CASE PrepareRenewal(s)
  <2>1. ActivePairsAgree' /\ PendingInv'
    BY <1>3, PairsUntouched DEF PrepareRenewal, IInv
  <2>2. AutomationKeepsLease' /\ RenewalInv'
    BY <1>3 DEF PrepareRenewal, AutomationMayAct, Replacement, IInv, AutomationKeepsLease,
                RenewalInv, TypeOK
  <2>3. QED
    BY <1>1, <2>1, <2>2 DEF IInv
<1>4. ASSUME NEW i \in Interventions, PrepareOpen(s, i) PROVE IInv'
  <2>1. ActivePairsAgree' /\ PendingInv'
    BY <1>4, PairsUntouched DEF PrepareOpen, IInv
  <2>2. AutomationKeepsLease' /\ RenewalInv'
    BY <1>4, NoneAssumption
       DEF PrepareOpen, AutomationMayAct, Replacement, IInv, AutomationKeepsLease,
           RenewalInv, TypeOK
  <2>3. QED
    BY <1>1, <2>1, <2>2 DEF IInv
<1>5. CASE CommitRenewal(s)
  <2> DEFINE r == renewal[s]
  <2>1. /\ r \in Renewal /\ r.afterLease \in Lease
        /\ automation[s].phase = "running" /\ lease[s] = r.beforeLease
        /\ lease[s].owner = Automation /\ lease[s] # None
        /\ r.afterLease.version = lease[s].version + 1
        /\ r.afterLease.owner = Automation
    BY <1>5 DEF CommitRenewal, IInv, RenewalInv, AutomationKeepsLease, TypeOK, Renewal
  <2>2. ActivePairsAgree' /\ PendingInv'
    BY <1>5, <2>1, AutomationWrite DEF CommitRenewal
  <2>3. AutomationKeepsLease' /\ RenewalInv'
    BY <1>5, <2>1, NoneAssumption
       DEF CommitRenewal, IInv, AutomationKeepsLease, RenewalInv, TypeOK, LeaseTypeOK
  <2>4. QED
    BY <1>1, <2>2, <2>3 DEF IInv
<1>6. CASE CommitOpen(s)
  <2> DEFINE r == renewal[s]
  <2>1. /\ r \in Renewal /\ r.afterLease \in Lease /\ r.id \in Interventions
        /\ automation[s].phase = "running" /\ lease[s] = r.beforeLease
        /\ lease[s].owner = Automation /\ lease[s] # None
        /\ r.afterLease.version = lease[s].version + 1 /\ SessionOf[r.id] = s
    BY <1>6 DEF CommitOpen, IInv, RenewalInv, AutomationKeepsLease, TypeOK, Renewal
  <2>2. \A i \in Interventions :
           \/ intervention'[i] = intervention[i]
           \/ SessionOf[i] = s /\ Agree(i, intervention'[i], r.afterLease)
    BY <1>6, <2>1 DEF CommitOpen, IInv, TypeOK
  <2>3. ActivePairsAgree' /\ PendingInv'
    BY <1>6, <2>1, <2>2, AutomationWrite DEF CommitOpen
  <2>4. AutomationKeepsLease' /\ RenewalInv'
    BY <1>6, <2>1 DEF CommitOpen, IInv, AutomationKeepsLease, RenewalInv, TypeOK, LeaseTypeOK
  <2>5. QED
    BY <1>1, <2>3, <2>4 DEF IInv
<1>7. CASE EndRun(s)
  <2>1. ActivePairsAgree' /\ PendingInv'
    BY <1>7, PairsUntouched DEF EndRun, IInv
  <2>2. AutomationKeepsLease' /\ RenewalInv'
    BY <1>7 DEF EndRun, IInv, AutomationKeepsLease, RenewalInv, TypeOK
  <2>3. QED
    BY <1>1, <2>1, <2>2 DEF IInv
<1>8. CASE ResumeRun(s)
  <2>1. ActivePairsAgree' /\ PendingInv'
    BY <1>8, PairsUntouched DEF ResumeRun, IInv
  <2>2. AutomationKeepsLease' /\ RenewalInv'
    BY <1>8 DEF ResumeRun, IInv, AutomationKeepsLease, RenewalInv, TypeOK
  <2>3. QED
    BY <1>1, <2>1, <2>2 DEF IInv
<1>9. QED
  BY <1>2, <1>3, <1>4, <1>5, <1>6, <1>7, <1>8 DEF AutomationStep

\* Every prepared request starts from an active, agreeing pair and goes one
\* version further, or leaves the lease alone to reopen.
LEMMA PrepareIInv ==
  ASSUME IInv, NEW t \in Callers, NEW i \in Interventions,
         NEW by \in Operators \cup {None}, NEW after \in Intervention, NEW l \in Lease,
         Prepare(t, i, by, after, l), intervention[i].status \in Active,
         \/ l.version = LeaseOf(i).version + 1
         \/ l = LeaseOf(i) /\ intervention[i].status = "resuming" /\ after.status = "open"
  PROVE  (ActivePairsAgree /\ PendingInv /\ AutomationKeepsLease /\ RenewalInv)'
<1> DEFINE p == [id |-> i, by |-> by, before |-> intervention[i], beforeLease |-> LeaseOf(i),
                 after |-> after, afterLease |-> l]
<1>1. /\ pending' = [pending EXCEPT ![t] = p]
      /\ UNCHANGED <<lease, intervention, automation, renewal>>
      /\ Agree(i, intervention[i], LeaseOf(i))
  BY DEF Prepare
<1>2. LeaseOf(i) # None /\ LeaseOf(i) \in Lease /\ LeaseOf(i).version \in Nat
  BY <1>1 DEF Agree, LeaseOf, IInv, TypeOK, LeaseTypeOK, Lease
<1>3. PreparedFromActivePair(p) /\ LeaseMovesForward(p) /\ VersionRule(p)
  BY <1>1, <1>2 DEF PreparedFromActivePair, LeaseMovesForward, VersionRule
<1>4. PendingInv'
  <2> SUFFICES ASSUME NEW u \in Callers, pending'[u] # None
               PROVE  /\ PreparedFromActivePair(pending'[u])
                      /\ LeaseMovesForward(pending[u])'
                      /\ VersionRule(pending'[u])
    BY DEF PendingInv, PreparedFromActivePair, VersionRule, LeaseMovesForward
  <2>1. CASE u = t
    <3>1. pending'[u] = p
      BY <1>1, <2>1 DEF IInv, TypeOK
    <3>2. QED
      BY <1>1, <1>3, <3>1 DEF LeaseMovesForward, LeaseOf
  <2>2. CASE u # t
    BY <1>1, <2>2 DEF IInv, TypeOK, PendingInv, LeaseMovesForward, LeaseOf
  <2>3. QED
    BY <2>1, <2>2
<1>5. ActivePairsAgree' /\ AutomationKeepsLease' /\ RenewalInv'
  BY <1>1 DEF IInv, ActivePairsAgree, Agree, LeaseOf, AutomationKeepsLease, RenewalInv
<1>6. QED
  BY <1>4, <1>5

LEMMA PrepareLeaseIInv ==
  ASSUME IInv, NEW t \in Callers, NEW i \in Interventions,
         NEW by \in Operators \cup {None}, NEW after \in Intervention,
         NEW owner \in Owners, NEW binding \in Interventions \cup {None},
         PrepareLease(t, i, by, after, owner, binding), intervention[i].status \in Active
  PROVE  IInv'
<1>1. LeaseOf(i) \in Lease /\ now \in Nat /\ LeaseOf(i).version \in Nat
  BY DEF PrepareLease, LeaseOf, IInv, TypeOK, LeaseTypeOK, Lease
<1>2. Replacement(LeaseOf(i), owner, binding, now) \in Lease
  BY <1>1, ReplacementIsLease
<1>3. Replacement(LeaseOf(i), owner, binding, now).version = LeaseOf(i).version + 1
  BY DEF Replacement
<1>4. TypeOK'
  BY PrepareLeaseTypeOK DEF IInv
<1>5. (ActivePairsAgree /\ PendingInv /\ AutomationKeepsLease /\ RenewalInv)'
  BY <1>2, <1>3, PrepareIInv DEF PrepareLease
<1>6. QED
  BY <1>4, <1>5 DEF IInv

\* The commit of a request replaces exactly the pair it was prepared from.
LEMMA CommitIInv ==
  ASSUME IInv, NEW t \in Callers, Commit(t)
  PROVE  (ActivePairsAgree /\ PendingInv /\ AutomationKeepsLease /\ RenewalInv)'
<1> DEFINE p == pending[t]
           s == SessionOf[p.id]
<1>1. /\ p \in Pending /\ p # None /\ s \in Sessions /\ p.id \in Interventions
      /\ p.afterLease \in Lease /\ p.beforeLease \in Lease /\ p.after \in Intervention
  BY DEF Commit, IInv, TypeOK, Pending
<1>2. /\ PreparedFromActivePair(p) /\ VersionRule(p)
      /\ intervention[p.id] = p.before /\ lease[s] = p.beforeLease
  BY IInvImpliesCommitSees
     DEF Commit, IInv, PendingInv, CommitSeesWhatWasRead, LeaseOf
<1>3. /\ lease' = [lease EXCEPT ![s] = p.afterLease]
      /\ intervention' = [intervention EXCEPT ![p.id] = p.after]
      /\ pending' = [pending EXCEPT ![t] = None]
      /\ UNCHANGED <<now, renewal>>
      /\ Agree(p.id, p.after, p.afterLease)
      /\ automation' = IF p.after.status = "resolved"
                         THEN [automation EXCEPT ![s] =
                                 [phase |-> "granted", version |-> p.afterLease.version]]
                         ELSE automation
  BY DEF Commit
<1>4. /\ lease'[s] = p.afterLease /\ intervention'[p.id] = p.after
      /\ \A q \in Sessions : q # s => lease'[q] = lease[q]
      /\ \A j \in Interventions : j # p.id => intervention'[j] = intervention[j]
  BY <1>1, <1>3 DEF IInv, TypeOK, LeaseTypeOK
<1>5. lease[s] # None /\ lease[s].owner # Automation /\ p.before.status \in Active
  BY <1>2 DEF PreparedFromActivePair, Agree, Active, OwnerKindOf, Automation
<1>6. ActivePairsAgree'
  <2> SUFFICES ASSUME NEW j \in Interventions, intervention'[j].status \in Active
               PROVE  Agree(j, intervention'[j], lease'[SessionOf[j]])
    BY DEF ActivePairsAgree, Agree, LeaseOf
  <2>1. CASE j = p.id
    BY <1>3, <1>4, <2>1
  <2>2. CASE j # p.id
    <3>1. intervention[j].status \in Active /\ SessionOf[j] # s
      BY <1>2, <1>4, <1>5, <2>2, OneActivePerSession, <1>1 DEF IInv
    <3>2. QED
      BY <1>4, <2>2, <3>1 DEF IInv, ActivePairsAgree, LeaseOf
  <2>3. QED
    BY <2>1, <2>2
<1>7. PendingInv'
  <2> SUFFICES ASSUME NEW u \in Callers, pending'[u] # None
               PROVE  /\ PreparedFromActivePair(pending'[u])
                      /\ LeaseMovesForward(pending[u])'
                      /\ VersionRule(pending'[u])
    BY DEF PendingInv, PreparedFromActivePair, VersionRule, LeaseMovesForward
  <2> DEFINE q == pending[u]
  <2>1. /\ pending'[u] = q /\ q \in Pending /\ q # None
        /\ q.id \in Interventions /\ SessionOf[q.id] \in Sessions
        /\ PreparedFromActivePair(q) /\ LeaseMovesForward(q) /\ VersionRule(q)
    <3>1. u # t
      BY <1>3 DEF IInv, TypeOK
    <3>2. QED
      BY <1>3, <3>1 DEF IInv, TypeOK, PendingInv, Pending
  <2>2. LeaseMovesForward(q)'
    <3>1. CASE SessionOf[q.id] # s
      BY <1>4, <2>1, <3>1 DEF LeaseMovesForward, LeaseOf
    <3>2. CASE SessionOf[q.id] = s /\ p.afterLease.version = p.beforeLease.version + 1
      <4>1. lease[s].version \in Nat /\ q.beforeLease.version \in Nat /\ p.afterLease # None
        BY <1>1, <1>2, <2>1, NoneAssumption DEF Lease, Pending
      <4>2. q.beforeLease.version <= lease[s].version
        BY <2>1, <3>2 DEF LeaseMovesForward, LeaseOf
      <4>3. q.beforeLease.version < lease'[s].version
        BY <1>2, <1>4, <3>2, <4>1, <4>2
      <4>4. /\ lease'[s] # None
            /\ q.beforeLease.version <= lease'[s].version
            /\ lease'[s].version # q.beforeLease.version
        BY <1>2, <1>4, <3>2, <4>1, <4>3
      <4>5. QED
        BY <2>1, <3>2, <4>4 DEF LeaseMovesForward, LeaseOf
    <3>3. CASE /\ SessionOf[q.id] = s /\ p.afterLease = p.beforeLease
               /\ p.before.status = "resuming" /\ p.after.status = "open"
      BY <1>2, <1>4, <2>1, <3>3 DEF LeaseMovesForward, LeaseOf
    <3>4. QED
      BY <1>2, <3>1, <3>2, <3>3 DEF VersionRule
  <2>3. QED
    BY <2>1, <2>2
<1>8. renewal[s] = None /\ automation[s].phase \notin {"running", "granted"}
  BY <1>1, <1>5 DEF IInv, RenewalInv, AutomationKeepsLease
<1>9. RenewalInv'
  BY <1>3, <1>8 DEF IInv, RenewalInv, TypeOK
<1>10. AutomationKeepsLease'
  <2> SUFFICES ASSUME NEW q \in Sessions, automation'[q].phase \in {"running", "granted"}
               PROVE  /\ lease'[q] # None
                      /\ lease'[q].owner = Automation
                      /\ lease'[q].version = automation'[q].version
                      /\ renewal'[q] # None => renewal'[q].beforeLease = lease'[q]
    BY DEF AutomationKeepsLease
  <2>1. CASE q = s
    <3>1. p.after.status = "resolved"
      BY <1>3, <1>8, <2>1
    <3>2. automation'[s] = [phase |-> "granted", version |-> p.afterLease.version]
      BY <1>1, <1>3, <3>1 DEF IInv, TypeOK
    <3>3. p.afterLease.owner = Automation
      BY <1>1, <1>3, <3>1 DEF Agree, OwnerKindOf, Lease, Owners, Automation, Paused, Nobody, Human
    <3>4. p.afterLease # None
      BY <1>1, NoneAssumption
    <3>5. QED
      BY <1>3, <1>4, <1>8, <2>1, <3>2, <3>3, <3>4
  <2>2. CASE q # s
    <3>1. automation'[q] = automation[q] /\ lease'[q] = lease[q] /\ renewal'[q] = renewal[q]
      BY <1>1, <1>3, <1>4, <2>2 DEF IInv, TypeOK
    <3>2. QED
      BY <3>1 DEF IInv, AutomationKeepsLease
  <2>3. QED
    BY <2>1, <2>2
<1>11. QED
  BY <1>6, <1>7, <1>9, <1>10

LEMMA OperatorIInv ==
  ASSUME IInv, NEW t \in Callers, OperatorStep(t)
  PROVE  IInv'
<1>1. ASSUME NEW i \in Interventions, NEW o \in Operators,
             \/ PrepareClaim(t, i, o) \/ PrepareReclaim(t, i, o) \/ PrepareRelease(t, i, o)
             \/ PrepareBeginResume(t, i, o) \/ PrepareHeartbeat(t, i, o)
      PROVE  IInv'
  <2>1. /\ [status |-> "claimed", operator |-> o] \in Intervention
        /\ [status |-> "open", operator |-> None] \in Intervention
        /\ [status |-> "resuming", operator |-> o] \in Intervention
        /\ intervention[i] \in Intervention
    BY DEF Intervention, Statuses, IInv, TypeOK
  <2>2. intervention[i].status \in Active
    BY <1>1 DEF PrepareClaim, PrepareReclaim, PrepareRelease, PrepareBeginResume,
                PrepareHeartbeat, HeldBy, Active
  <2>3. QED
    BY <1>1, <2>1, <2>2, PrepareLeaseIInv, OwnersAreOwners
       DEF PrepareClaim, PrepareReclaim, PrepareRelease, PrepareBeginResume, PrepareHeartbeat
<1>2. ASSUME NEW i \in Interventions, PrepareReopen(t, i) PROVE IInv'
  <2>1. LeaseOf(i) \in Lease /\ intervention[i].status \in Active
    BY <1>2 DEF PrepareReopen, LeaseOf, IInv, TypeOK, LeaseTypeOK, Active
  <2>2. [status |-> "open", operator |-> None] \in Intervention
    BY DEF Intervention, Statuses
  <2>3. (ActivePairsAgree /\ PendingInv /\ AutomationKeepsLease /\ RenewalInv)'
    BY <1>2, <2>1, <2>2, PrepareIInv DEF PrepareReopen
  <2>4. TypeOK'
    BY <1>2, OperatorTypeOK DEF OperatorStep, IInv
  <2>5. QED
    BY <2>3, <2>4 DEF IInv
<1>3. ASSUME NEW i \in Interventions, PrepareCompleteResume(t, i) PROVE IInv'
  <2>1. [intervention[i] EXCEPT !.status = "resolved"] \in Intervention
    BY DEF IInv, TypeOK, Intervention, Statuses
  <2>2. intervention[i].status \in Active
    BY <1>3 DEF PrepareCompleteResume, Active
  <2>3. QED
    BY <1>3, <2>1, <2>2, PrepareLeaseIInv, OwnersAreOwners DEF PrepareCompleteResume
<1>4. ASSUME NEW i \in Interventions, NEW by \in Operators \cup {None},
             PrepareTerminate(t, i, by)
      PROVE  IInv'
  <2>1. [intervention[i] EXCEPT !.status = "terminated"] \in Intervention
    BY DEF IInv, TypeOK, Intervention, Statuses
  <2>2. intervention[i].status \in Active
    BY <1>4 DEF PrepareTerminate, HeldBy, Active
  <2>3. QED
    BY <1>4, <2>1, <2>2, PrepareLeaseIInv, OwnersAreOwners DEF PrepareTerminate
<1>5. CASE Commit(t)
  BY <1>5, CommitIInv, OperatorTypeOK DEF IInv, OperatorStep
<1>6. CASE Conflict(t)
  <2>1. PendingInv'
    <3> SUFFICES ASSUME NEW u \in Callers, pending'[u] # None
                 PROVE  /\ PreparedFromActivePair(pending'[u])
                        /\ LeaseMovesForward(pending[u])'
                        /\ VersionRule(pending'[u])
      BY DEF PendingInv, PreparedFromActivePair, VersionRule, LeaseMovesForward
    <3>1. pending'[u] = pending[u]
      BY <1>6 DEF Conflict, IInv, TypeOK
    <3>2. QED
      BY <1>6, <3>1 DEF Conflict, IInv, PendingInv, LeaseMovesForward, LeaseOf
  <2>2. ActivePairsAgree' /\ AutomationKeepsLease' /\ RenewalInv'
    BY <1>6 DEF Conflict, IInv, ActivePairsAgree, Agree, LeaseOf, AutomationKeepsLease, RenewalInv
  <2>3. QED
    BY <1>6, <2>1, <2>2, OperatorTypeOK DEF IInv, OperatorStep
<1>7. QED
  BY <1>1, <1>2, <1>3, <1>4, <1>5, <1>6 DEF OperatorStep

THEOREM InductiveInvariant == Spec => []IInv
<1>1. Init => IInv
  BY InitIInv
<1>2. IInv /\ [Next]_vars => IInv'
  <2> SUFFICES ASSUME IInv, [Next]_vars PROVE IInv'
    OBVIOUS
  <2>1. CASE Pass
    <3>1. TypeOK'
      BY <2>1 DEF Pass, Tick, IInv, TypeOK, LeaseTypeOK
    <3>2. ActivePairsAgree' /\ PendingInv'
      BY <2>1, PairsUntouched DEF Pass, Tick, IInv
    <3>3. AutomationKeepsLease' /\ RenewalInv'
      BY <2>1 DEF Pass, Tick, IInv, AutomationKeepsLease, RenewalInv
    <3>4. QED
      BY <3>1, <3>2, <3>3 DEF IInv
  <2>2. CASE \E s \in Sessions : AutomationStep(s)
    BY <2>2, AutomationIInv
  <2>3. CASE \E t \in Callers : OperatorStep(t)
    BY <2>3, OperatorIInv
  <2>4. CASE UNCHANGED vars
    <3>1. ActivePairsAgree' /\ PendingInv'
      BY <2>4, PairsUntouched DEF vars, IInv
    <3>2. TypeOK' /\ AutomationKeepsLease' /\ RenewalInv'
      BY <2>4 DEF vars, IInv, TypeOK, LeaseTypeOK, AutomationKeepsLease, RenewalInv
    <3>3. QED
      BY <3>1, <3>2 DEF IInv
  <2>5. QED
    BY <2>1, <2>2, <2>3, <2>4 DEF Next
<1>3. QED
  BY <1>1, <1>2, PTL DEF Spec

\* However requests interleave, no listing of active interventions ever meets
\* a pair that disagrees (transactions.py:76-97).
THEOREM ActivePairsAlwaysAgree == Spec => []ActivePairsAgree
  BY InductiveInvariant, PTL DEF IInv

\* A compare-and-swap that succeeds replaces the very pair its caller read,
\* although it compares a status, a version and an owner only.
THEOREM CommitsSeeWhatWasRead == Spec => []CommitSeesWhatWasRead
  BY InductiveInvariant, IInvImpliesCommitSees, PTL

\* Running automation is never dispossessed of its lease nor outrun in version.
THEOREM AutomationAlwaysKeepsLease == Spec => []AutomationKeepsLease
  BY InductiveInvariant, PTL DEF IInv

------------------------------------------------------------------------------
(* Refinement of ControlLease *)

(***************************************************************************)
(* The lease changes a request may hold: one of ControlLease's transfers   *)
(* of the lease it read, stamped with a clock reading of the past.  Only   *)
(* the operator of a human lease prepares to move it, unless it expired.   *)
(***************************************************************************)
Stamped(b, l) == \E at \in 0..now : l = Replacement(b, l.owner, l.intervention, at)

LegalChange(p) ==
  LET b == p.beforeLease
      l == p.afterLease
  IN  \/ l = b
      \/ /\ Stamped(b, l)
         /\ \/ /\ b.owner = Paused
               /\ b.intervention # None
               /\ l.intervention = b.intervention
               /\ \E o \in Operators : l.owner = Human(o)
            \/ /\ b.owner = Paused
               /\ l.intervention = None
               /\ l.owner \in {Automation, Nobody}
            \/ \E o \in Operators :
                 /\ b.owner = Human(o)
                 /\ \/ /\ b.expires <= now
                       /\ l.intervention = b.intervention
                       /\ \E q \in Operators : l.owner = Human(q)
                    \/ /\ p.by = o
                       /\ \/ l.owner \in {Human(o), Paused} /\ l.intervention = b.intervention
                          \/ l.owner = Nobody /\ l.intervention = None

LegalRenewal(r) ==
  /\ r.beforeLease.owner = Automation
  /\ Stamped(r.beforeLease, r.afterLease)
  /\ \/ /\ r.afterLease.owner = Automation
        /\ r.afterLease.intervention = r.beforeLease.intervention
     \/ /\ r.afterLease.owner = Paused
        /\ r.afterLease.intervention \in Interventions

LegalInv ==
  /\ \A t \in Callers : pending[t] # None => LegalChange(pending[t])
  /\ \A s \in Sessions : renewal[s] # None => LegalRenewal(renewal[s])

\* A replacement of a lease read now carries the clock reading now.
LEMMA FreshlyStamped ==
  ASSUME TypeOK, NEW b \in Lease, NEW owner, NEW binding
  PROVE  /\ Stamped(b, Replacement(b, owner, binding, now))
         /\ Replacement(b, owner, binding, now).owner = owner
         /\ Replacement(b, owner, binding, now).intervention = binding
<1>1. /\ Replacement(b, owner, binding, now).owner = owner
      /\ Replacement(b, owner, binding, now).intervention = binding
      /\ now \in 0..now
  BY DEF Replacement, TypeOK, LeaseTypeOK
<1>2. QED
  BY <1>1 DEF Stamped

\* The clock only moves on, so what is legal stays legal.
LEMMA LegalStays ==
  ASSUME TypeOK, TypeOK', now' \in {now, now + 1}
  PROVE  /\ \A p \in Pending : LegalChange(p) => LegalChange(p)'
         /\ \A r \in Renewal : LegalRenewal(r) => LegalRenewal(r)'
<1>1. \A b, l : Stamped(b, l) => Stamped(b, l)'
  BY DEF Stamped, Replacement, TypeOK, LeaseTypeOK
<1>2. \A b \in Lease : b.expires <= now => b.expires <= now'
  BY DEF Lease, TypeOK, LeaseTypeOK
<1>3. ASSUME NEW p \in Pending, LegalChange(p) PROVE LegalChange(p)'
  BY <1>1, <1>2, <1>3 DEF LegalChange, Pending
<1>4. ASSUME NEW r \in Renewal, LegalRenewal(r) PROVE LegalRenewal(r)'
  BY <1>1, <1>4 DEF LegalRenewal
<1>5. QED
  BY <1>3, <1>4

\* A step that keeps or clears every prepared replacement keeps them legal.
LEMMA LegalKept ==
  ASSUME TypeOK, TypeOK', LegalInv, now' \in {now, now + 1},
         \A t \in Callers : pending'[t] \in {pending[t], None},
         \A s \in Sessions : renewal'[s] \in {renewal[s], None}
  PROVE  LegalInv'
<1>1. ASSUME NEW t \in Callers, pending'[t] # None PROVE LegalChange(pending[t])'
  <2>1. pending'[t] = pending[t] /\ pending[t] \in Pending
    BY <1>1 DEF TypeOK
  <2>2. QED
    BY <1>1, <2>1, LegalStays DEF LegalInv
<1>2. ASSUME NEW s \in Sessions, renewal'[s] # None PROVE LegalRenewal(renewal[s])'
  <2>1. renewal'[s] = renewal[s] /\ renewal[s] \in Renewal
    BY <1>2 DEF TypeOK
  <2>2. QED
    BY <1>2, <2>1, LegalStays DEF LegalInv
<1>3. QED
  BY <1>1, <1>2 DEF LegalInv

\* A caller that prepares a legal change leaves all prepared changes legal.
LEMMA LegalAdded ==
  ASSUME IInv, LegalInv, NEW t \in Callers, NEW i \in Interventions,
         NEW by \in Operators \cup {None}, NEW after, NEW l,
         Prepare(t, i, by, after, l),
         LegalChange([id |-> i, by |-> by, before |-> intervention[i],
                      beforeLease |-> LeaseOf(i), after |-> after, afterLease |-> l])
  PROVE  LegalInv'
<1> DEFINE p == [id |-> i, by |-> by, before |-> intervention[i],
                 beforeLease |-> LeaseOf(i), after |-> after, afterLease |-> l]
<1>1. pending' = [pending EXCEPT ![t] = p] /\ UNCHANGED <<now, renewal>>
  BY DEF Prepare
<1>2. ASSUME NEW u \in Callers, pending'[u] # None PROVE LegalChange(pending[u])'
  <2>1. pending'[u] = p \/ pending'[u] = pending[u]
    BY <1>1 DEF IInv, TypeOK
  <2>2. CASE pending'[u] = p
    <3>1. LegalChange(p)
      OBVIOUS
    <3>2. QED
      BY <1>1, <2>2, <3>1 DEF LegalChange, Stamped, Replacement
  <2>3. CASE pending'[u] = pending[u]
    BY <1>1, <1>2, <2>3 DEF LegalInv, LegalChange, Stamped, Replacement
  <2>4. QED
    BY <2>1, <2>2, <2>3
<1>3. ASSUME NEW s \in Sessions, renewal'[s] # None PROVE LegalRenewal(renewal[s])'
  BY <1>1, <1>3 DEF LegalInv, LegalRenewal, Stamped, Replacement
<1>4. QED
  BY <1>2, <1>3 DEF LegalInv

LEMMA AutomationLegal ==
  ASSUME IInv, LegalInv, NEW s \in Sessions, AutomationStep(s)
  PROVE  LegalInv'
<1>1. TypeOK /\ TypeOK' /\ now' \in {now, now + 1}
  BY AutomationIInv
     DEF IInv, AutomationStep, StartRun, CreateForAutomation, PrepareRenewal, PrepareOpen,
         CommitRenewal, CommitOpen, EndRun, ResumeRun
<1>2. CASE StartRun(s) \/ CommitRenewal(s) \/ CommitOpen(s) \/ EndRun(s) \/ ResumeRun(s)
  <2>1. /\ \A t \in Callers : pending'[t] \in {pending[t], None}
        /\ \A q \in Sessions : renewal'[q] \in {renewal[q], None}
    BY <1>1, <1>2 DEF StartRun, CommitRenewal, CommitOpen, EndRun, ResumeRun, TypeOK
  <2>2. QED
    BY <1>1, <2>1, LegalKept
<1>3. ASSUME NEW r, renewal' = [renewal EXCEPT ![s] = r], LegalRenewal(r),
             UNCHANGED <<now, pending>>
      PROVE  LegalInv'
  <2>1. ASSUME NEW t \in Callers, pending'[t] # None PROVE LegalChange(pending[t])'
    BY <1>3, <2>1 DEF LegalInv, LegalChange, Stamped, Replacement
  <2>2. ASSUME NEW q \in Sessions, renewal'[q] # None PROVE LegalRenewal(renewal[q])'
    <3>1. renewal'[q] = r \/ renewal'[q] = renewal[q]
      BY <1>1, <1>3 DEF TypeOK
    <3>2. LegalRenewal(renewal'[q])
      BY <1>3, <2>2, <3>1 DEF LegalInv
    <3>3. QED
      BY <1>3, <3>2 DEF LegalRenewal, Stamped, Replacement
  <2>3. QED
    BY <2>1, <2>2 DEF LegalInv
<1>4. CASE PrepareRenewal(s)
  <2> DEFINE l == Replacement(lease[s], Automation, lease[s].intervention, now)
             r == [id |-> None, beforeLease |-> lease[s], afterLease |-> l]
  <2>1. /\ renewal' = [renewal EXCEPT ![s] = r] /\ UNCHANGED <<now, pending>>
        /\ lease[s] \in Lease /\ lease[s].owner = Automation
    BY <1>1, <1>4 DEF PrepareRenewal, AutomationMayAct, TypeOK, LeaseTypeOK
  <2>2. /\ Stamped(lease[s], l) /\ l.owner = Automation
        /\ l.intervention = lease[s].intervention
    BY <1>1, <2>1, FreshlyStamped
  <2>3. LegalRenewal(r)
    BY <2>1, <2>2 DEF LegalRenewal
  <2>4. QED
    BY <1>3, <2>1, <2>3
<1>5. ASSUME NEW i \in Interventions, PrepareOpen(s, i) PROVE LegalInv'
  <2> DEFINE l == Replacement(lease[s], Paused, i, now)
             r == [id |-> i, beforeLease |-> lease[s], afterLease |-> l]
  <2>1. /\ renewal' = [renewal EXCEPT ![s] = r] /\ UNCHANGED <<now, pending>>
        /\ lease[s] \in Lease /\ lease[s].owner = Automation
    BY <1>1, <1>5 DEF PrepareOpen, AutomationMayAct, TypeOK, LeaseTypeOK
  <2>2. Stamped(lease[s], l) /\ l.owner = Paused /\ l.intervention = i
    BY <1>1, <2>1, FreshlyStamped
  <2>3. LegalRenewal(r)
    BY <2>1, <2>2 DEF LegalRenewal
  <2>4. QED
    BY <1>3, <2>1, <2>3
<1>6. QED
  BY <1>2, <1>4, <1>5 DEF AutomationStep

LEMMA OperatorLegal ==
  ASSUME IInv, LegalInv, NEW t \in Callers, OperatorStep(t)
  PROVE  LegalInv'
<1>1. TypeOK /\ TypeOK'
  BY OperatorTypeOK DEF IInv
<1>2. ASSUME NEW i \in Interventions, NEW by \in Operators \cup {None}, NEW after,
             NEW owner, NEW binding,
             PrepareLease(t, i, by, after, owner, binding),
             LET b == LeaseOf(i) IN
               \/ /\ b.owner = Paused /\ b.intervention # None /\ binding = b.intervention
                  /\ \E o \in Operators : owner = Human(o)
               \/ b.owner = Paused /\ binding = None /\ owner \in {Automation, Nobody}
               \/ \E o \in Operators :
                    /\ b.owner = Human(o)
                    /\ \/ /\ b.expires <= now
                          /\ binding = b.intervention
                          /\ \E q \in Operators : owner = Human(q)
                       \/ /\ by = o
                          /\ \/ owner \in {Human(o), Paused} /\ binding = b.intervention
                             \/ owner = Nobody /\ binding = None
      PROVE  LegalInv'
  <2> DEFINE l == Replacement(LeaseOf(i), owner, binding, now)
             p == [id |-> i, by |-> by, before |-> intervention[i],
                   beforeLease |-> LeaseOf(i), after |-> after, afterLease |-> l]
  <2>1. LeaseOf(i) \in Lease
    BY <1>1, <1>2 DEF PrepareLease, LeaseOf, TypeOK, LeaseTypeOK
  <2>2. Stamped(LeaseOf(i), l) /\ l.owner = owner /\ l.intervention = binding
    BY <1>1, <2>1, FreshlyStamped
  <2>3. /\ p.beforeLease = LeaseOf(i) /\ p.afterLease = l /\ p.by = by
    OBVIOUS
  <2>4. LegalChange(p)
    BY <1>2, <2>2, <2>3 DEF LegalChange
  <2>5. QED
    BY <1>2, <2>4, LegalAdded DEF PrepareLease
<1>3. ASSUME NEW i \in Interventions, NEW o \in Operators, PrepareClaim(t, i, o)
      PROVE  LegalInv'
  <2>1. LeaseOf(i).intervention = i /\ i # None
    BY <1>3, NoneAssumption DEF PrepareClaim, PrepareLease, Prepare, Agree, Active
  <2>2. QED
    BY <1>2, <1>3, <2>1 DEF PrepareClaim
<1>4. ASSUME NEW i \in Interventions, NEW o \in Operators, PrepareReclaim(t, i, o)
      PROVE  LegalInv'
  <2>1. LeaseOf(i).intervention = i /\ LeaseOf(i) \in Lease
    BY <1>1, <1>4 DEF PrepareReclaim, PrepareLease, Prepare, Agree, Active, LeaseOf,
                      TypeOK, LeaseTypeOK
  <2>2. \E q \in Operators : LeaseOf(i).owner = Human(q)
    BY <1>4, <2>1 DEF PrepareReclaim, Lease, Owners, Automation, Paused, Nobody, Human
  <2>3. QED
    BY <1>2, <1>4, <2>1, <2>2 DEF PrepareReclaim, Expired
<1>5. ASSUME NEW i \in Interventions, NEW o \in Operators,
             PrepareRelease(t, i, o) \/ PrepareBeginResume(t, i, o) \/ PrepareHeartbeat(t, i, o)
      PROVE  LegalInv'
  <2>1. LeaseOf(i).intervention = i /\ LeaseOf(i).owner = Human(o)
    BY <1>5 DEF PrepareRelease, PrepareBeginResume, PrepareHeartbeat, HeldBy, PrepareLease,
                Prepare, Agree, Active
  <2>2. QED
    BY <1>2, <1>5, <2>1 DEF PrepareRelease, PrepareBeginResume, PrepareHeartbeat
<1>6. ASSUME NEW i \in Interventions, PrepareReopen(t, i) PROVE LegalInv'
  <2> DEFINE p == [id |-> i, by |-> None, before |-> intervention[i],
                   beforeLease |-> LeaseOf(i), after |-> [status |-> "open", operator |-> None],
                   afterLease |-> LeaseOf(i)]
  <2>1. LegalChange(p)
    BY DEF LegalChange
  <2>2. QED
    BY <1>6, <2>1, LegalAdded DEF PrepareReopen
<1>7. ASSUME NEW i \in Interventions, PrepareCompleteResume(t, i) PROVE LegalInv'
  BY <1>2, <1>7 DEF PrepareCompleteResume
<1>8. ASSUME NEW i \in Interventions, NEW by \in Operators \cup {None},
             PrepareTerminate(t, i, by)
      PROVE  LegalInv'
  <2>1. \/ LeaseOf(i).owner = Paused
        \/ LeaseOf(i).owner = Human(by) /\ intervention[i].status = "claimed"
    BY <1>8 DEF PrepareTerminate, HeldBy
  <2>2. LeaseOf(i).owner = Human(by) => by \in Operators
    <3>1. LeaseOf(i) \in Lease
      BY <1>1, <1>8 DEF PrepareTerminate, PrepareLease, LeaseOf, TypeOK, LeaseTypeOK
    <3>2. QED
      BY <3>1, NoneAssumption DEF Lease, Owners, Automation, Paused, Nobody, Human
  <2>3. QED
    BY <1>2, <1>8, <2>1, <2>2 DEF PrepareTerminate
<1>9. CASE Commit(t) \/ Conflict(t)
  <2>1. /\ UNCHANGED <<now, renewal>>
        /\ \A u \in Callers : pending'[u] \in {pending[u], None}
    BY <1>1, <1>9 DEF Commit, Conflict, TypeOK
  <2>2. QED
    BY <1>1, <2>1, LegalKept
<1>10. QED
  BY <1>3, <1>4, <1>5, <1>6, <1>7, <1>8, <1>9 DEF OperatorStep

LEMMA LegalInvariant == Spec => []LegalInv
<1>1. Init => LegalInv
  BY DEF Init, LegalInv
<1>2. IInv /\ IInv' /\ LegalInv /\ [Next]_vars => LegalInv'
  <2> SUFFICES ASSUME IInv, IInv', LegalInv, [Next]_vars PROVE LegalInv'
    OBVIOUS
  <2>1. CASE Pass \/ UNCHANGED vars
    BY <2>1, LegalKept DEF Pass, Tick, vars, IInv, TypeOK, LeaseTypeOK
  <2>2. CASE \E s \in Sessions : AutomationStep(s)
    BY <2>2, AutomationLegal
  <2>3. CASE \E t \in Callers : OperatorStep(t)
    BY <2>3, OperatorLegal
  <2>4. QED
    BY <2>1, <2>2, <2>3 DEF Next
<1>3. QED
  BY <1>1, <1>2, InductiveInvariant, PTL DEF Spec

\* A prepared legal change, committed on the lease it was prepared from, is a
\* transfer of ControlLease, and takes an unexpired lease from its operator
\* only at that operator's request.
LEMMA LegalCommitIsTransfer ==
  ASSUME TypeOK, NEW t \in Callers, NEW s \in Sessions, pending[t] \in Pending,
         LegalChange(pending[t]), lease[s] = pending[t].beforeLease,
         Agree(pending[t].id, pending[t].before, lease[s]),
         lease' = [lease EXCEPT ![s] = pending[t].afterLease], UNCHANGED now
  PROVE  /\ [LeaseNext]_leaseVars
         /\ HumanHeld(s) /\ lease'[s].owner # lease[s].owner =>
              Expired(lease[s]) \/ pending[t].by = lease[s].owner.principal
<1> DEFINE b == pending[t].beforeLease
           l == pending[t].afterLease
<1>1. lease[s] # None /\ lease[s] \in Lease /\ lease'[s] = l
  BY DEF Agree, TypeOK, LeaseTypeOK, Pending
<1>2. \A o, q \in Operators : (Human(o) = Human(q)) => (o = q)
  BY DEF Human
<1>3. CASE l = b
  <2>1. lease' = lease
    BY <1>3 DEF TypeOK, LeaseTypeOK
  <2>2. QED
    BY <1>1, <1>3, <2>1 DEF leaseVars
<1>4. CASE Stamped(b, l)
  <2>1. \A from : b.owner = from => Transfer(s, from, l.owner, l.intervention)
    BY <1>1, <1>4 DEF Stamped, Transfer
  <2>2. CASE /\ b.owner = Paused /\ b.intervention # None
             /\ l.intervention = b.intervention
             /\ \E o \in Operators : l.owner = Human(o)
    <3>1. \E o \in Operators : Claim(s, o)
      BY <1>1, <2>1, <2>2 DEF Claim
    <3>2. ~HumanHeld(s)
      BY <2>2 DEF HumanHeld, Paused
    <3>3. QED
      BY <3>1, <3>2 DEF LeaseNext
  <2>3. CASE b.owner = Paused /\ l.intervention = None /\ l.owner \in {Automation, Nobody}
    <3>1. CompleteResume(s) \/ Terminate(s, Paused)
      BY <2>1, <2>3 DEF CompleteResume, Terminate
    <3>2. ~HumanHeld(s)
      BY <2>3 DEF HumanHeld, Paused
    <3>3. QED
      BY <3>1, <3>2, OwnersAreOwners DEF LeaseNext
  <2>4. ASSUME NEW o \in Operators, b.owner = Human(o), b.expires <= now,
               l.intervention = b.intervention, \E q \in Operators : l.owner = Human(q)
        PROVE  LeaseNext /\ Expired(lease[s])
    <3>1. \E q \in Operators : ReclaimExpired(s, o, q)
      BY <1>1, <2>1, <2>4 DEF ReclaimExpired, Expired
    <3>2. QED
      BY <2>4, <3>1 DEF LeaseNext, Expired
  <2>5. ASSUME NEW o \in Operators, b.owner = Human(o), pending[t].by = o,
               \/ l.owner \in {Human(o), Paused} /\ l.intervention = b.intervention
               \/ l.owner = Nobody /\ l.intervention = None
        PROVE  LeaseNext /\ pending[t].by = lease[s].owner.principal
    <3>1. Heartbeat(s, Human(o)) \/ Release(s, o) \/ Terminate(s, Human(o))
      BY <1>1, <2>1, <2>5 DEF Heartbeat, Release, Terminate
    <3>2. LeaseNext
      BY <3>1, OwnersAreOwners DEF LeaseNext
    <3>3. lease[s].owner.principal = o
      BY <2>5 DEF Human
    <3>4. QED
      BY <2>5, <3>2, <3>3
  <2>6. QED
    BY <1>3, <2>2, <2>3, <2>4, <2>5 DEF LegalChange
<1>5. QED
  BY <1>3, <1>4 DEF LegalChange

\* One step of the coordinator is one step of ControlLease, or none, and never
\* takes an unexpired lease from an operator who did not ask.
LEMMA StepSimulation ==
  ASSUME IInv, LegalInv, [Next]_vars
  PROVE  /\ [LeaseNext]_leaseVars
         /\ \A s \in Sessions :
              HumanHeld(s) /\ lease'[s].owner # lease[s].owner =>
                \/ Expired(lease[s])
                \/ \E t \in Callers : /\ pending[t] # None
                                      /\ pending'[t] = None
                                      /\ pending[t].by = lease[s].owner.principal
<1> DEFINE Kept == \A s \in Sessions :
              HumanHeld(s) /\ lease'[s].owner # lease[s].owner =>
                \/ Expired(lease[s])
                \/ \E t \in Callers : /\ pending[t] # None
                                      /\ pending'[t] = None
                                      /\ pending[t].by = lease[s].owner.principal
<1>1. CASE Pass \/ UNCHANGED vars
  <2>1. lease' = lease /\ [LeaseNext]_leaseVars
    BY <1>1 DEF Pass, Tick, vars, leaseVars, LeaseNext
  <2>2. QED
    BY <2>1
<1>2. ASSUME NEW s \in Sessions, AutomationStep(s) PROVE [LeaseNext]_leaseVars /\ Kept
  <2>1. CASE StartRun(s)
    <3>1. CreateForAutomation(s)
      BY <2>1 DEF StartRun
    <3>2. \A q \in Sessions : lease'[q] = lease[q] \/ lease[q] = None
      BY <3>1 DEF CreateForAutomation, IInv, TypeOK, LeaseTypeOK
    <3>3. QED
      BY <3>1, <3>2 DEF LeaseNext, HumanHeld
  <2>2. CASE CommitRenewal(s) \/ CommitOpen(s)
    <3> DEFINE r == renewal[s]
    <3>1. /\ r # None /\ lease[s] # None /\ lease[s].owner = Automation
          /\ lease[s] = r.beforeLease /\ LegalRenewal(r)
          /\ lease' = [lease EXCEPT ![s] = r.afterLease] /\ now' = now
      BY <2>2 DEF CommitRenewal, CommitOpen, IInv, RenewalInv, AutomationKeepsLease, LegalInv
    <3>2. Transfer(s, Automation, r.afterLease.owner, r.afterLease.intervention)
      BY <3>1 DEF Transfer, LegalRenewal, Stamped
    <3>3. Heartbeat(s, Automation) \/ \E i \in Interventions : Pause(s, i)
      BY <3>1, <3>2 DEF Heartbeat, Pause, LegalRenewal
    <3>4. LeaseNext
      BY <3>3, OwnersAreOwners DEF LeaseNext
    <3>5. Kept
      <4>1. \A q \in Sessions : lease'[q] = lease[q] \/ lease[q].owner = Automation
        BY <3>1 DEF IInv, TypeOK, LeaseTypeOK
      <4>2. QED
        BY <4>1 DEF HumanHeld, Automation
    <3>6. QED
      BY <3>4, <3>5
  <2>3. CASE UNCHANGED leaseVars
    BY <2>3 DEF leaseVars
  <2>4. QED
    BY <1>2, <2>1, <2>2, <2>3
       DEF AutomationStep, PrepareRenewal, PrepareOpen, EndRun, ResumeRun, leaseVars
<1>3. ASSUME NEW t \in Callers, OperatorStep(t) PROVE [LeaseNext]_leaseVars /\ Kept
  <2>1. CASE Commit(t)
    <3> DEFINE p == pending[t]
               s == SessionOf[p.id]
    <3>1. /\ p \in Pending /\ p # None /\ s \in Sessions /\ pending'[t] = None
          /\ lease' = [lease EXCEPT ![s] = p.afterLease] /\ now' = now
      BY <2>1 DEF Commit, IInv, TypeOK, Pending
    <3>2. lease[s] = p.beforeLease /\ Agree(p.id, p.before, lease[s]) /\ LegalChange(p)
      BY <2>1, <3>1, IInvImpliesCommitSees
         DEF Commit, IInv, PendingInv, PreparedFromActivePair, CommitSeesWhatWasRead, LeaseOf,
             LegalInv
    <3>3. /\ [LeaseNext]_leaseVars
          /\ HumanHeld(s) /\ lease'[s].owner # lease[s].owner =>
               Expired(lease[s]) \/ p.by = lease[s].owner.principal
      BY <3>1, <3>2, LegalCommitIsTransfer DEF IInv
    <3>4. \A q \in Sessions : q # s => lease'[q] = lease[q]
      BY <3>1 DEF IInv, TypeOK, LeaseTypeOK
    <3>5. QED
      BY <3>1, <3>3, <3>4
  <2>2. CASE lease' = lease /\ now' = now
    BY <2>2 DEF leaseVars
  <2>3. QED
    BY <1>3, <2>1, <2>2
       DEF OperatorStep, PrepareClaim, PrepareReclaim, PrepareRelease, PrepareBeginResume,
           PrepareHeartbeat, PrepareReopen, PrepareCompleteResume, PrepareTerminate,
           PrepareLease, Prepare, Conflict
<1>4. QED
  BY <1>1, <1>2, <1>3 DEF Next

\* The coordinator's separate reads and commits implement the atomic lease.
THEOREM CoordinatorImplementsLease == Spec => ImplementsLease
<1>1. Init => LeaseInit
  BY DEF Init
<1>2. IInv /\ LegalInv /\ [Next]_vars => [LeaseNext]_leaseVars
  BY StepSimulation
<1>3. QED
  BY <1>1, <1>2, InductiveInvariant, LegalInvariant, PTL DEF Spec, ImplementsLease, LeaseSpec

\* An unexpired human lease leaves its operator only at the operator's request.
THEOREM UnexpiredClaimIsAlwaysKept == Spec => UnexpiredClaimIsKept
<1>1. IInv /\ LegalInv /\ [Next]_vars =>
        [\A s \in Sessions :
           HumanHeld(s) /\ lease'[s].owner # lease[s].owner =>
             \/ Expired(lease[s])
             \/ \E t \in Callers : /\ pending[t] # None
                                   /\ pending'[t] = None
                                   /\ pending[t].by = lease[s].owner.principal]_vars
  BY StepSimulation
<1>2. QED
  BY <1>1, InductiveInvariant, LegalInvariant, PTL DEF Spec, UnexpiredClaimIsKept
=============================================================================
