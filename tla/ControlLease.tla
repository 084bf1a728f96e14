---------------------------- MODULE ControlLease ----------------------------
(***************************************************************************)
(* What a browser-control lease promises, one lease per retained browser   *)
(* session: who may act on the session, under which version, and until     *)
(* when.  Every change is one atomic replacement of the whole lease.       *)
(*                                                                         *)
(* This is interventions/leases.py seen from outside: the edges are the    *)
(* transfers ControlLeaseService offers, the version rule is the one its   *)
(* repository enforces.  A clock reading a caller took before the write is *)
(* why a new expiry may be older than the write (StampedAt).               *)
(***************************************************************************)
EXTENDS Integers

CONSTANTS
  Sessions,       \* browser sessions, one lease each
  Operators,      \* human operators
  Interventions,  \* intervention identities
  Ttl,            \* lease time to live, in clock ticks
  MaxTime,        \* bound: the clock stops here
  None            \* no lease, no principal, no binding

ASSUME TtlAssumption == Ttl \in Nat \ {0}
ASSUME MaxTimeAssumption == MaxTime \in Nat
VARIABLES
  lease,  \* the repository's lease of each session, None before it is created
  now     \* the clock every caller reads

leaseVars == <<lease, now>>

Automation == [kind |-> "automation", principal |-> None]
Paused == [kind |-> "automation_paused", principal |-> None]
Nobody == [kind |-> "none", principal |-> None]
Human(o) == [kind |-> "human", principal |-> o]
Owners == {Automation, Paused, Nobody} \cup {Human(o) : o \in Operators}

Lease == [owner : Owners, version : Nat \ {0}, expires : Nat,
          intervention : Interventions \cup {None}]

ASSUME NoneAssumption ==
  None \notin Sessions \cup Operators \cup Interventions \cup Lease

LeaseTypeOK ==
  /\ lease \in [Sessions -> Lease \cup {None}]
  /\ now \in 0..MaxTime

(***************************************************************************)
(* A lease is dead from its expiry instant on.                             *)
(***************************************************************************)
Expired(l) == l.expires <= now

\* The lease that replaces l when its writer read the clock at time at.
Replacement(l, owner, binding, at) ==
  [owner |-> owner, version |-> l.version + 1, expires |-> at + Ttl,
   intervention |-> binding]

LeaseInit ==
  /\ lease = [s \in Sessions |-> None]
  /\ now = 0

CreateForAutomation(s) ==
  /\ lease[s] = None
  /\ lease' = [lease EXCEPT ![s] =
                 [owner |-> Automation, version |-> 1, expires |-> now + Ttl,
                  intervention |-> None]]
  /\ UNCHANGED now

(***************************************************************************)
(* The single way a lease changes hands or is renewed.  The check that the *)
(* lease was unexpired belongs to the caller's earlier read, so the write  *)
(* itself promises only the owner, the version and the binding.            *)
(***************************************************************************)
Transfer(s, from, to, binding) ==
  /\ lease[s] # None
  /\ lease[s].owner = from
  /\ \E at \in 0..now :
       lease' = [lease EXCEPT ![s] = Replacement(lease[s], to, binding, at)]
  /\ UNCHANGED now

Pause(s, i) == Transfer(s, Automation, Paused, i)

Claim(s, o) ==
  /\ lease[s] # None
  /\ lease[s].intervention # None
  /\ Transfer(s, Paused, Human(o), lease[s].intervention)

ReclaimExpired(s, o, p) ==
  /\ lease[s] # None
  /\ Expired(lease[s])
  /\ Transfer(s, Human(o), Human(p), lease[s].intervention)

Release(s, o) ==
  /\ lease[s] # None
  /\ Transfer(s, Human(o), Paused, lease[s].intervention)

CompleteResume(s) == Transfer(s, Paused, Automation, None)

Terminate(s, from) ==
  /\ from \in {Paused} \cup {Human(o) : o \in Operators}
  /\ Transfer(s, from, Nobody, None)

Heartbeat(s, owner) ==
  /\ owner \in {Automation} \cup {Human(o) : o \in Operators}
  /\ lease[s] # None
  /\ Transfer(s, owner, owner, lease[s].intervention)

Tick ==
  /\ now < MaxTime
  /\ now' = now + 1
  /\ UNCHANGED lease

LeaseNext ==
  \/ Tick
  \/ \E s \in Sessions :
       \/ CreateForAutomation(s)
       \/ \E i \in Interventions : Pause(s, i)
       \/ \E o \in Operators : Claim(s, o) \/ Release(s, o)
       \/ \E o, p \in Operators : ReclaimExpired(s, o, p)
       \/ CompleteResume(s)
       \/ \E owner \in Owners : Terminate(s, owner) \/ Heartbeat(s, owner)

LeaseSpec == LeaseInit /\ [][LeaseNext]_leaseVars
=============================================================================
