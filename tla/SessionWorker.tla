---------------------------- MODULE SessionWorker ----------------------------
(***************************************************************************)
(* SerialSessionWorker (runtime/worker.py): a browser session may only be  *)
(* touched by the thread that created it, so every operation on it is put  *)
(* on a bounded queue that one thread serves.  Any number of threads call  *)
(* and any number close; the first to close hands the worker the browser's *)
(* own close as its last operation, the finalizer.                         *)
(***************************************************************************)
EXTENDS Integers, Sequences

CONSTANTS
  Clients,    \* threads that call operations
  Closers,    \* threads that close the worker
  Capacity,   \* queue_capacity
  Finalizer,  \* the work item of the finalizer
  Sentinel,   \* the item that stops the thread
  None        \* no item, no holder of the lock

ASSUME CapacityAssumption == Capacity \in 1..1024
ASSUME DistinctItems ==
  /\ Finalizer # Sentinel
  /\ None \notin Clients \cup Closers \cup {Finalizer, Sentinel}
  /\ {Finalizer, Sentinel} \cap (Clients \cup Closers) = {}
  /\ {"idle", "exited"} \cap (Clients \cup {Finalizer, Sentinel}) = {}
  /\ Clients \cap Closers = {}

VARIABLES
  queue,      \* the items put and not yet taken
  accepting,  \* FALSE from the first close on
  lock,       \* the closer that holds the worker's lock across a put, or None
  thread,     \* what the thread does: an item, "idle" or "exited"
  client,     \* per client: "free", or "waiting" for its future
  closer,     \* per closer: where it is in close
  finalized   \* how many times the finalizer ran to its end

vars == <<queue, accepting, lock, thread, client, closer, finalized>>

Items == Clients \cup {Finalizer, Sentinel}
ClosePoints == {"out", "finalizer", "sentinel", "join", "closed", "returned"}

Init ==
  /\ queue = << >>
  /\ accepting = TRUE
  /\ lock = None
  /\ thread = "idle"
  /\ client = [c \in Clients |-> "free"]
  /\ closer = [k \in Closers |-> "out"]
  /\ finalized = 0

------------------------------------------------------------------------------
(* call: check and put under one hold of the lock, then wait for the future *)

Call(c) ==
  /\ client[c] = "free"
  /\ lock = None
  /\ accepting
  /\ Len(queue) < Capacity
  /\ queue' = Append(queue, c)
  /\ client' = [client EXCEPT ![c] = "waiting"]
  /\ UNCHANGED <<accepting, lock, thread, closer, finalized>>

\* A closed worker and a full queue both raise in the caller.
Refuse(c) ==
  /\ client[c] = "free"
  /\ lock = None
  /\ ~accepting \/ Len(queue) = Capacity
  /\ UNCHANGED vars

------------------------------------------------------------------------------
(***************************************************************************)
(* close: the first closer stops admission and puts the finalizer and the  *)
(* sentinel while it holds the lock, waiting for room if the queue is      *)
(* full, then joins the thread.  Any later closer returns at once.         *)
(***************************************************************************)
Stop(k) ==
  /\ closer[k] = "out"
  /\ lock = None
  /\ accepting
  /\ accepting' = FALSE
  /\ lock' = k
  /\ closer' = [closer EXCEPT ![k] = "finalizer"]
  /\ UNCHANGED <<queue, thread, client, finalized>>

StopLate(k) ==
  /\ closer[k] = "out"
  /\ lock = None
  /\ ~accepting
  /\ closer' = [closer EXCEPT ![k] = "returned"]
  /\ UNCHANGED <<queue, accepting, lock, thread, client, finalized>>

PutFinalizer(k) ==
  /\ closer[k] = "finalizer"
  /\ Len(queue) < Capacity
  /\ queue' = Append(queue, Finalizer)
  /\ closer' = [closer EXCEPT ![k] = "sentinel"]
  /\ UNCHANGED <<accepting, lock, thread, client, finalized>>

PutSentinel(k) ==
  /\ closer[k] = "sentinel"
  /\ Len(queue) < Capacity
  /\ queue' = Append(queue, Sentinel)
  /\ lock' = None
  /\ closer' = [closer EXCEPT ![k] = "join"]
  /\ UNCHANGED <<accepting, thread, client, finalized>>

\* Mutant: close returns once its items are queued.
Leave(k) ==
  /\ closer[k] = "join"
  /\ closer' = [closer EXCEPT ![k] = "closed"]
  /\ UNCHANGED <<queue, accepting, lock, thread, client, finalized>>

\* join returns when the thread has exited; the finalizer's future is done.
Join(k) ==
  /\ closer[k] = "join"
  /\ thread = "exited"
  /\ closer' = [closer EXCEPT ![k] = "closed"]
  /\ UNCHANGED <<queue, accepting, lock, thread, client, finalized>>

------------------------------------------------------------------------------
(* _run *)

Take ==
  /\ thread = "idle"
  /\ queue # << >>
  /\ queue' = Tail(queue)
  /\ thread' = IF Head(queue) = Sentinel THEN "exited" ELSE Head(queue)
  /\ UNCHANGED <<accepting, lock, client, closer, finalized>>

\* Mutant: an operation that raises takes the thread down with it.
FinishOrDie ==
  /\ thread \in Clients \cup {Finalizer}
  /\ thread' \in {"idle", "exited"}
  /\ client' = IF thread \in Clients THEN [client EXCEPT ![thread] = "free"] ELSE client
  /\ finalized' = finalized + (IF thread = Finalizer THEN 1 ELSE 0)
  /\ UNCHANGED <<queue, accepting, lock, closer>>

\* The operation returns or raises: its future is set either way.
Finish ==
  /\ thread \in Clients \cup {Finalizer}
  /\ thread' = "idle"
  /\ client' = IF thread \in Clients THEN [client EXCEPT ![thread] = "free"] ELSE client
  /\ finalized' = finalized + (IF thread = Finalizer THEN 1 ELSE 0)
  /\ UNCHANGED <<queue, accepting, lock, closer>>

Close(k) == Stop(k) \/ StopLate(k) \/ PutFinalizer(k) \/ PutSentinel(k) \/ Join(k)

Next ==
  \/ \E c \in Clients : Call(c) \/ Refuse(c)
  \/ \E k \in Closers : Close(k)
  \/ Take
  \/ Finish

(***************************************************************************)
(* The thread keeps running, browser operations are bounded by their own   *)
(* timeouts, and a closer inside close is scheduled.  Nothing makes anyone *)
(* start a call or a close.                                                *)
(***************************************************************************)
Fairness ==
  /\ WF_vars(Take)
  /\ WF_vars(Finish)
  /\ \A k \in Closers : WF_vars(PutFinalizer(k) \/ PutSentinel(k) \/ Join(k))

Spec == Init /\ [][Next]_vars /\ Fairness

------------------------------------------------------------------------------
(* Correctness properties *)

\* Every variable has its type, and the queue keeps to the capacity that
\* runtime/worker.py:31-33 bounds.
TypeOK ==
  /\ queue \in Seq(Items) /\ Len(queue) <= Capacity
  /\ accepting \in BOOLEAN
  /\ lock \in Closers \cup {None}
  /\ thread \in Clients \cup {Finalizer, "idle", "exited"}
  /\ client \in [Clients -> {"free", "waiting"}]
  /\ closer \in [Closers -> ClosePoints]
  /\ finalized \in 0..1

\* The browser is closed by its last operation: once the finalizer has begun,
\* no caller's operation runs or is queued behind it, although callers go on
\* calling while close waits for room (worker.py:56-65).
NothingAfterFinalizer ==
  /\ thread = Finalizer \/ finalized > 0 =>
       /\ \A n \in 1..Len(queue) : queue[n] = Sentinel
       /\ thread \notin Clients
  /\ \A n \in 1..Len(queue) : queue[n] = Finalizer =>
       \A m \in n+1..Len(queue) : queue[m] = Sentinel

\* A closer that waited for the thread finds the browser closed, exactly once
\* and by the worker's last operation, and no caller left with a future that
\* nobody will set.
ClosedMeansClosed ==
  /\ TypeOK /\ NothingAfterFinalizer
  /\ \A k \in Closers : closer[k] = "closed" =>
       /\ thread = "exited"
       /\ finalized = 1
       /\ \A c \in Clients : client[c] # "waiting"

\* Nobody waits for ever: every accepted call returns, also one accepted just
\* before a close or from a full queue, its future being always set
\* (worker.py:54, 78-81), and a close that began ends even if it found the queue
\* full, while it holds the lock and only the thread makes room (56-65).
EveryoneReturns ==
  /\ \A c \in Clients : client[c] = "waiting" ~> client[c] = "free"
  /\ \A k \in Closers : closer[k] = "finalizer" ~> closer[k] = "closed"

=============================================================================
