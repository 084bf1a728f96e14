---------------------------- MODULE Interventions ----------------------------
(***************************************************************************)
(* The intervention coordinator: interventions/service.py over the paired  *)
(* repository of interventions/transactions.py, together with the          *)
(* automation that opens interventions (router.py) and renews its lease.   *)
(*                                                                         *)
(* Every operation reads the (intervention, lease) pair, prepares the pair *)
(* that replaces it, and commits by compare-and-swap.  The read and the    *)
(* commit are separate steps, so any two callers interleave between them.  *)
(* A request that any check refuses raises and leaves no trace: it is no   *)
(* step here.  A commit that finds the pair changed raises in Conflict.    *)
(***************************************************************************)
EXTENDS ControlLease

CONSTANTS
  Callers,     \* threads serving operator requests
  SessionOf,   \* the session an intervention identity belongs to
  MaxVersion   \* bound: no lease goes past this version

ASSUME SessionOfAssumption == SessionOf \in [Interventions -> Sessions]
ASSUME MaxVersionAssumption == MaxVersion \in Nat

VARIABLES
  intervention,  \* status and operator of each intervention
  pending,       \* per caller: the prepared replacement, None when idle
  automation,    \* per session: the run that drives it, and its lease version
  renewal        \* per session: the automation's own prepared replacement

vars == <<lease, now, intervention, pending, automation, renewal>>

Statuses == {"unrouted", "open", "claimed", "resuming", "resolved", "terminated"}
Active == {"open", "claimed", "resuming"}

Intervention == [status : Statuses, operator : Operators \cup {None}]

\* Who asked for an operation: an operator, or the runtime itself (None).
Pending == [id : Interventions, by : Operators \cup {None},
            before : Intervention, beforeLease : Lease,
            after : Intervention, afterLease : Lease]

Phases == {"absent", "running", "paused", "granted", "ended"}
Renewal == [id : Interventions \cup {None}, beforeLease : Lease, afterLease : Lease]

LeaseOf(i) == lease[SessionOf[i]]

(***************************************************************************)
(* The pair rule of InterventionTransition: a status, its owner and the    *)
(* binding of the lease belong together.                                   *)
(***************************************************************************)
OwnerKindOf == [open |-> "automation_paused", claimed |-> "human",
                resuming |-> "automation_paused", resolved |-> "automation",
                terminated |-> "none"]

Agree(i, v, l) ==
  /\ v.status # "unrouted"
  /\ l # None
  /\ l.owner.kind = OwnerKindOf[v.status]
  /\ l.intervention = IF v.status \in Active THEN i ELSE None
  /\ v.status = "claimed" => l.owner.principal = v.operator

Init ==
  /\ LeaseInit
  /\ intervention = [i \in Interventions |-> [status |-> "unrouted", operator |-> None]]
  /\ pending = [t \in Callers |-> None]
  /\ automation = [s \in Sessions |-> [phase |-> "absent", version |-> 0]]
  /\ renewal = [s \in Sessions |-> None]

------------------------------------------------------------------------------
(***************************************************************************)
(* The automation of a session runs on one thread.  It creates the lease,  *)
(* renews it, and pauses it by opening an intervention; it loses control   *)
(* when the run ends or its lease expires under it.                        *)
(***************************************************************************)
StartRun(s) ==
  /\ automation[s].phase = "absent"
  /\ CreateForAutomation(s)
  /\ automation' = [automation EXCEPT ![s] = [phase |-> "running", version |-> 1]]
  /\ UNCHANGED <<intervention, pending, renewal>>

\* The checks both automation operations make of the lease they read.
AutomationMayAct(s) ==
  /\ automation[s].phase = "running"
  /\ renewal[s] = None
  /\ lease[s] # None
  /\ lease[s].owner = Automation
  /\ lease[s].version = automation[s].version
  /\ ~Expired(lease[s])
  /\ lease[s].version < MaxVersion

PrepareRenewal(s) ==
  /\ AutomationMayAct(s)
  /\ renewal' = [renewal EXCEPT ![s] =
       [id |-> None, beforeLease |-> lease[s],
        afterLease |-> Replacement(lease[s], Automation, lease[s].intervention, now)]]
  /\ UNCHANGED <<lease, now, intervention, pending, automation>>

PrepareOpen(s, i) ==
  /\ AutomationMayAct(s)
  /\ SessionOf[i] = s
  /\ intervention[i].status = "unrouted"
  /\ renewal' = [renewal EXCEPT ![s] =
       [id |-> i, beforeLease |-> lease[s],
        afterLease |-> Replacement(lease[s], Paused, i, now)]]
  /\ UNCHANGED <<lease, now, intervention, pending, automation>>

\* Mutant: the swap compares the owner and forgets the version.
SameOwner(s, before) ==
  /\ lease[s] # None
  /\ lease[s].owner = before.owner

\* The lease half of both compare-and-swap operations.
LeaseUnchanged(s, before) ==
  /\ lease[s] # None
  /\ lease[s].version = before.version
  /\ lease[s].owner = before.owner

\* Mutant: the engine goes on under the version it held before the renewal.
CommitForgottenRenewal(s) ==
  /\ renewal[s] # None
  /\ renewal[s].id = None
  /\ LeaseUnchanged(s, renewal[s].beforeLease)
  /\ lease' = [lease EXCEPT ![s] = renewal[s].afterLease]
  /\ renewal' = [renewal EXCEPT ![s] = None]
  /\ UNCHANGED <<now, intervention, pending, automation>>

CommitRenewal(s) ==
  /\ renewal[s] # None
  /\ renewal[s].id = None
  /\ LeaseUnchanged(s, renewal[s].beforeLease)
  /\ lease' = [lease EXCEPT ![s] = renewal[s].afterLease]
  /\ automation' = [automation EXCEPT ![s].version = renewal[s].afterLease.version]
  /\ renewal' = [renewal EXCEPT ![s] = None]
  /\ UNCHANGED <<now, intervention, pending>>

CommitOpen(s) ==
  /\ renewal[s] # None
  /\ renewal[s].id # None
  /\ LeaseUnchanged(s, renewal[s].beforeLease)
  /\ LET i == renewal[s].id
         opened == [status |-> "open", operator |-> None]
     IN  /\ intervention[i].status = "unrouted"
         /\ Agree(i, opened, renewal[s].afterLease)
         /\ intervention' = [intervention EXCEPT ![i] = opened]
  /\ lease' = [lease EXCEPT ![s] = renewal[s].afterLease]
  /\ automation' = [automation EXCEPT ![s].phase = "paused"]
  /\ renewal' = [renewal EXCEPT ![s] = None]
  /\ UNCHANGED <<now, pending>>

\* The run returns its result, or an expired lease fails it.
EndRun(s) ==
  /\ automation[s].phase \in {"running", "granted"}
  /\ renewal[s] = None
  /\ automation' = [automation EXCEPT ![s].phase = "ended"]
  /\ UNCHANGED <<lease, now, intervention, pending, renewal>>

\* The engine receives the version a completed resume granted.
ResumeRun(s) ==
  /\ automation[s].phase = "granted"
  /\ automation' = [automation EXCEPT ![s].phase = "running"]
  /\ UNCHANGED <<lease, now, intervention, pending, renewal>>

------------------------------------------------------------------------------
(***************************************************************************)
(* Operator requests.  Each reads the pair (state.get refuses one that     *)
(* does not agree), applies the workflow rule and the lease rule, and      *)
(* keeps what it prepared until it commits.  The request must carry the    *)
(* lease version it read, so a stale version is refused here.              *)
(***************************************************************************)
Prepare(t, i, by, after, afterLease) ==
  /\ pending[t] = None
  /\ Agree(i, intervention[i], LeaseOf(i))
  /\ pending' = [pending EXCEPT ![t] =
       [id |-> i, by |-> by, before |-> intervention[i], beforeLease |-> LeaseOf(i),
        after |-> after, afterLease |-> afterLease]]
  /\ UNCHANGED <<lease, now, intervention, automation, renewal>>

\* A prepared ownership transfer or heartbeat: always one version further.
PrepareLease(t, i, by, after, owner, binding) ==
  /\ LeaseOf(i) # None
  /\ LeaseOf(i).version < MaxVersion
  /\ Prepare(t, i, by, after, Replacement(LeaseOf(i), owner, binding, now))

HeldBy(i, o) ==
  /\ intervention[i] = [status |-> "claimed", operator |-> o]
  /\ LeaseOf(i) # None
  /\ LeaseOf(i).owner = Human(o)
  /\ ~Expired(LeaseOf(i))

\* A passive paused lease may be claimed whatever its timestamp says.
PrepareClaim(t, i, o) ==
  /\ intervention[i].status = "open"
  /\ LeaseOf(i) # None
  /\ LeaseOf(i).owner = Paused
  /\ PrepareLease(t, i, o, [status |-> "claimed", operator |-> o], Human(o), i)

\* Mutant: a reclaim that does not wait for the lease to expire.
PrepareSteal(t, i, o) ==
  /\ intervention[i].status = "claimed"
  /\ LeaseOf(i) # None
  /\ LeaseOf(i).owner.kind = "human"
  /\ PrepareLease(t, i, o, [status |-> "claimed", operator |-> o], Human(o), i)

\* A claimed intervention changes operator only once its lease has expired.
PrepareReclaim(t, i, o) ==
  /\ intervention[i].status = "claimed"
  /\ LeaseOf(i) # None
  /\ LeaseOf(i).owner.kind = "human"
  /\ Expired(LeaseOf(i))
  /\ PrepareLease(t, i, o, [status |-> "claimed", operator |-> o], Human(o), i)

PrepareRelease(t, i, o) ==
  /\ HeldBy(i, o)
  /\ PrepareLease(t, i, o, [status |-> "open", operator |-> None], Paused, i)

PrepareBeginResume(t, i, o) ==
  /\ HeldBy(i, o)
  /\ PrepareLease(t, i, o, [status |-> "resuming", operator |-> o], Paused, i)

\* Validation failed: the lease stays as it is, version included.
PrepareReopen(t, i) ==
  /\ intervention[i].status = "resuming"
  /\ LeaseOf(i) # None
  /\ LeaseOf(i).owner = Paused
  /\ Prepare(t, i, None, [status |-> "open", operator |-> None], LeaseOf(i))

\* Validation passed: unlike a claim, this needs the paused lease unexpired.
PrepareCompleteResume(t, i) ==
  /\ intervention[i].status = "resuming"
  /\ LeaseOf(i) # None
  /\ LeaseOf(i).owner = Paused
  /\ ~Expired(LeaseOf(i))
  /\ PrepareLease(t, i, None, [intervention[i] EXCEPT !.status = "resolved"], Automation, None)

\* Mutant: a heartbeat that extends the lease in place.
PrepareSilentHeartbeat(t, i, o) ==
  /\ HeldBy(i, o)
  /\ Prepare(t, i, o, intervention[i], [LeaseOf(i) EXCEPT !.expires = now + Ttl])

PrepareHeartbeat(t, i, o) ==
  /\ HeldBy(i, o)
  /\ PrepareLease(t, i, o, intervention[i], Human(o), i)

\* Anyone may terminate an open intervention, only its holder a claimed one.
PrepareTerminate(t, i, by) ==
  /\ \/ /\ intervention[i].status = "open"
        /\ LeaseOf(i) # None
        /\ LeaseOf(i).owner = Paused
     \/ HeldBy(i, by)
  /\ PrepareLease(t, i, by, [intervention[i] EXCEPT !.status = "terminated"], Nobody, None)

------------------------------------------------------------------------------
\* Mutant: the swap asks only whether the same kind of owner is in place.
UnchangedOwner(p) == SameOwner(SessionOf[p.id], p.beforeLease)

\* The paired compare-and-swap: status, lease version and lease owner as read.
Unchanged(p) ==
  /\ intervention[p.id].status = p.before.status
  /\ LeaseUnchanged(SessionOf[p.id], p.beforeLease)

Commit(t) ==
  /\ pending[t] # None
  /\ LET p == pending[t]
         s == SessionOf[p.id]
     IN  /\ Unchanged(p)
         /\ Agree(p.id, p.after, p.afterLease)
         /\ intervention' = [intervention EXCEPT ![p.id] = p.after]
         /\ lease' = [lease EXCEPT ![s] = p.afterLease]
         /\ automation' = IF p.after.status = "resolved"
                            THEN [automation EXCEPT ![s] =
                                    [phase |-> "granted", version |-> p.afterLease.version]]
                            ELSE automation
  /\ pending' = [pending EXCEPT ![t] = None]
  /\ UNCHANGED <<now, renewal>>

Conflict(t) ==
  /\ pending[t] # None
  /\ ~Unchanged(pending[t])
  /\ pending' = [pending EXCEPT ![t] = None]
  /\ UNCHANGED <<lease, now, intervention, automation, renewal>>

Pass ==
  /\ Tick
  /\ UNCHANGED <<intervention, pending, automation, renewal>>

AutomationStep(s) ==
  \/ StartRun(s)
  \/ PrepareRenewal(s)
  \/ CommitRenewal(s)
  \/ \E i \in Interventions : PrepareOpen(s, i)
  \/ CommitOpen(s)
  \/ EndRun(s)
  \/ ResumeRun(s)

OperatorStep(t) ==
  \/ \E i \in Interventions, o \in Operators :
       \/ PrepareClaim(t, i, o)
       \/ PrepareReclaim(t, i, o)
       \/ PrepareRelease(t, i, o)
       \/ PrepareBeginResume(t, i, o)
       \/ PrepareHeartbeat(t, i, o)
  \/ \E i \in Interventions :
       \/ PrepareReopen(t, i)
       \/ PrepareCompleteResume(t, i)
  \/ \E i \in Interventions, by \in Operators \cup {None} : PrepareTerminate(t, i, by)
  \/ Commit(t)
  \/ Conflict(t)

Next ==
  \/ Pass
  \/ \E s \in Sessions : AutomationStep(s)
  \/ \E t \in Callers : OperatorStep(t)

Spec == Init /\ [][Next]_vars

------------------------------------------------------------------------------
(* Correctness properties *)

\* Every variable has its type: the pair tables of router.py and leases.py,
\* and what the callers of service.py hold between a read and a commit.
TypeOK ==
  /\ LeaseTypeOK
  /\ intervention \in [Interventions -> Intervention]
  /\ pending \in [Callers -> Pending \cup {None}]
  /\ automation \in [Sessions -> [phase : Phases, version : Nat]]
  /\ renewal \in [Sessions -> Renewal \cup {None}]

\* Whatever the interleaving, each active intervention agrees with its lease:
\* owner kind, binding and operator.  list_active rebuilds the pair rule over
\* every active intervention (transactions.py:76-97) and raises, taking the
\* whole operator inbox down, if one pair disagrees.  Two interventions
\* active on one session would have to share a binding, so there is at most one.
ActivePairsAgree ==
  \A i \in Interventions :
    intervention[i].status \in Active => Agree(i, intervention[i], LeaseOf(i))

\* A compare-and-swap compares a status, a version and an owner only
\* (transactions.py:139-145), and reopen leaves the version alone.  It must
\* still detect every change: when it succeeds, the intervention and the lease
\* are exactly the ones the caller read, so no update is ever lost.
CommitSeesWhatWasRead ==
  \A t \in Callers :
    pending[t] # None /\ Unchanged(pending[t]) =>
      /\ intervention[pending[t].id] = pending[t].before
      /\ LeaseOf(pending[t].id) = pending[t].beforeLease

\* Automation that runs, or is about to, owns the lease under the version it
\* knows: nobody takes the session or moves the version under it, so between
\* the lease check and the browser action (replay/engine.py:443) no human can
\* be in control, and its renewals and pauses never lose the swap.
AutomationKeepsLease ==
  \A s \in Sessions :
    automation[s].phase \in {"running", "granted"} =>
      /\ lease[s] # None
      /\ lease[s].owner = Automation
      /\ lease[s].version = automation[s].version
      /\ renewal[s] # None => renewal[s].beforeLease = lease[s]

HumanHeld(s) == lease[s] # None /\ lease[s].owner.kind = "human"

\* An unexpired human lease cannot be stolen (docs/safety-and-handoff.md:84):
\* it leaves its operator only by a request of that same operator.
UnexpiredClaimIsKept ==
  [][\A s \in Sessions :
       HumanHeld(s) /\ lease'[s].owner # lease[s].owner =>
         \/ Expired(lease[s])
         \/ \E t \in Callers : /\ pending[t] # None
                               /\ pending'[t] = None
                               /\ pending[t].by = lease[s].owner.principal]_vars

\* Read by read and commit by commit, the coordinator implements the atomic
\* lease of ControlLease: every change of owner is one of its transfers and
\* takes the version up by exactly one (docs/data-models.md:259).
ImplementsLease == LeaseSpec

=============================================================================
