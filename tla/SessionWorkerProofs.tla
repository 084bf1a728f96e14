-------------------------- MODULE SessionWorkerProofs --------------------------
(***************************************************************************)
(* Proofs about SessionWorker, for any clients and closers and any         *)
(* capacity of the queue; and about the calls its thread executes, the     *)
(* ones of SurfaceSession, for any pages, locators and configurations.     *)
(***************************************************************************)
EXTENDS SessionWorker, SurfaceSession, FiniteSetTheorems, WellFoundedInduction, TLAPS

Queued(item) == \E n \in 1..Len(queue) : queue[n] = item

\* The closer that stopped admission, from when on its items are put.
Closing == {k \in Closers : closer[k] \in {"finalizer", "sentinel", "join", "closed"}}
FinalizerPut == \E k \in Closers : closer[k] \in {"sentinel", "join", "closed"}
SentinelPut == \E k \in Closers : closer[k] \in {"join", "closed"}

(***************************************************************************)
(* One closer closes.  It holds the lock until its second item is put, and *)
(* nobody is admitted from its first step on.                              *)
(***************************************************************************)
OneCloses ==
  /\ \A j, k \in Closing : j = k
  /\ accepting <=> Closing = {}
  /\ \A k \in Closers : closer[k] \in {"finalizer", "sentinel"} <=> lock = k

\* The finalizer has only the sentinel behind it, and the sentinel nothing.
QueueEndsRight ==
  \A n, m \in 1..Len(queue) : n < m =>
    /\ queue[n] = Finalizer => queue[m] = Sentinel
    /\ queue[n] # Sentinel

\* The finalizer is in exactly one place once it is put: queued, running or done.
FinalizerOnce ==
  /\ Queued(Finalizer) => FinalizerPut /\ thread # Finalizer /\ finalized = 0
  /\ thread = Finalizer => FinalizerPut /\ finalized = 0
  /\ finalized = 1 => FinalizerPut
  /\ FinalizerPut => Queued(Finalizer) \/ thread = Finalizer \/ finalized = 1

\* The thread exits behind everything else.
SentinelLast ==
  /\ Queued(Sentinel) => SentinelPut /\ thread # "exited"
  /\ thread = "exited" => SentinelPut /\ finalized = 1 /\ queue = << >>

\* Whoever waits has a place in the queue or is being served.
WaitersAreServed ==
  \A c \in Clients : client[c] = "waiting" => Queued(c) \/ thread = c

Closed ==
  \A k \in Closers : closer[k] = "closed" => thread = "exited"

NothingBehind ==
  thread = Finalizer \/ finalized = 1 =>
    /\ \A n \in 1..Len(queue) : queue[n] = Sentinel
    /\ thread \notin Clients

IInv ==
  /\ TypeOK /\ OneCloses /\ QueueEndsRight /\ FinalizerOnce /\ SentinelLast
  /\ WaitersAreServed /\ Closed /\ NothingBehind
------------------------------------------------------------------------------
LEMMA InitInv == Init => IInv
BY CapacityAssumption, DistinctItems
   DEF Init, IInv, TypeOK, OneCloses, QueueEndsRight, FinalizerOnce, SentinelLast,
       WaitersAreServed, Closed, NothingBehind, Queued, Closing, FinalizerPut, SentinelPut, Items, ClosePoints

\* What an item put at the end of the queue leaves as it was.
LEMMA AppendKeeps ==
  ASSUME queue \in Seq(Items), NEW item \in Items, queue' = Append(queue, item)
  PROVE  /\ queue' \in Seq(Items) /\ Len(queue') = Len(queue) + 1
         /\ \A n \in 1..Len(queue) : queue'[n] = queue[n]
         /\ queue'[Len(queue')] = item
         /\ \A other \in Items : Queued(other)' <=> Queued(other) \/ other = item
<1>1. /\ queue' \in Seq(Items) /\ Len(queue') = Len(queue) + 1 /\ Len(queue) \in Nat
      /\ \A n \in 1..Len(queue) : queue'[n] = queue[n]
      /\ queue'[Len(queue')] = item
  OBVIOUS
<1>2. ASSUME NEW other \in Items, Queued(other)'
      PROVE  Queued(other) \/ other = item
  <2>1. PICK n \in 1..Len(queue') : queue'[n] = other
    BY <1>2 DEF Queued
  <2>2. n \in 1..Len(queue) \/ n = Len(queue')
    BY <1>1, <2>1
  <2> QED
    BY <1>1, <2>1, <2>2 DEF Queued
<1>3. ASSUME NEW other \in Items, Queued(other) \/ other = item
      PROVE  Queued(other)'
  <2>1. CASE Queued(other)
    <3>1. PICK n \in 1..Len(queue) : queue[n] = other
      BY <2>1 DEF Queued
    <3>2. n \in 1..Len(queue') /\ queue'[n] = other
      BY <1>1, <3>1
    <3> QED
      BY <3>2 DEF Queued
  <2>2. CASE other = item
    <3>1. Len(queue') \in 1..Len(queue')
      BY <1>1
    <3> QED
      BY <1>1, <2>2, <3>1 DEF Queued
  <2> QED
    BY <1>3, <2>1, <2>2
<1> QED
  BY <1>1, <1>2, <1>3

\* What the head of the queue leaves behind.
LEMMA TailKeeps ==
  ASSUME queue \in Seq(Items), queue # << >>, queue' = Tail(queue)
  PROVE  /\ Head(queue) \in Items /\ Head(queue) = queue[1]
         /\ queue' \in Seq(Items) /\ Len(queue') = Len(queue) - 1
         /\ \A n \in 1..Len(queue') : n + 1 \in 1..Len(queue) /\ queue'[n] = queue[n + 1]
         /\ 1 \in 1..Len(queue) /\ Len(queue) \in Nat
         /\ \A item \in Items : Queued(item) <=> Queued(item)' \/ item = Head(queue)
<1>1. /\ Head(queue) \in Items /\ Head(queue) = queue[1]
      /\ queue' \in Seq(Items) /\ Len(queue') = Len(queue) - 1
      /\ 1 \in 1..Len(queue) /\ Len(queue) \in Nat
      /\ \A n \in 1..Len(queue') : n + 1 \in 1..Len(queue) /\ queue'[n] = queue[n + 1]
  OBVIOUS
<1>2. ASSUME NEW item \in Items, Queued(item)
      PROVE  Queued(item)' \/ item = Head(queue)
  <2>1. PICK n \in 1..Len(queue) : queue[n] = item
    BY <1>2 DEF Queued
  <2>2. CASE n = 1
    BY <1>1, <2>1, <2>2
  <2>3. CASE n # 1
    <3>1. n - 1 \in 1..Len(queue') /\ (n - 1) + 1 = n
      BY <1>1, <2>1, <2>3
    <3> QED
      BY <1>1, <2>1, <3>1 DEF Queued
  <2> QED
    BY <2>2, <2>3
<1>3. ASSUME NEW item \in Items, Queued(item)' \/ item = Head(queue)
      PROVE  Queued(item)
  BY <1>1, <1>3 DEF Queued
<1> QED
  BY <1>1, <1>2, <1>3
------------------------------------------------------------------------------
(* One lemma per action *)

\* A client is admitted while nobody closes, so the finalizer is not put yet.
LEMMA CallKeeps ==
  ASSUME IInv, NEW c \in Clients, Call(c)
  PROVE  IInv'
<1> USE DEF IInv
<1>1. c \in Items /\ c # Finalizer /\ c # Sentinel /\ c \notin {"idle", "exited"}
  BY DistinctItems DEF Items
<1>2. Closing = {} /\ ~FinalizerPut /\ ~SentinelPut
  BY DEF Call, OneCloses, Closing, FinalizerPut, SentinelPut
<1>3. /\ ~Queued(Finalizer) /\ ~Queued(Sentinel)
      /\ thread # Finalizer /\ thread # "exited" /\ finalized # 1
  BY <1>2 DEF FinalizerOnce, SentinelLast
<1>4. /\ queue' \in Seq(Items) /\ Len(queue') = Len(queue) + 1
      /\ \A item \in Items : Queued(item)' <=> Queued(item) \/ item = c
  BY <1>1, AppendKeeps DEF Call, TypeOK
<1>5. ~Queued(Finalizer)' /\ ~Queued(Sentinel)'
  BY <1>1, <1>3, <1>4 DEF Items
<1>6. TypeOK'
  BY <1>4, CapacityAssumption DEF Call, TypeOK
<1>7. OneCloses' /\ Closed'
  BY DEF Call, OneCloses, Closing, Closed
<1>8. QueueEndsRight'
  BY <1>5 DEF QueueEndsRight, Queued
<1>9. FinalizerOnce' /\ SentinelLast'
  BY <1>2, <1>3, <1>5 DEF Call, FinalizerOnce, SentinelLast, FinalizerPut, SentinelPut
<1>10. WaitersAreServed'
  BY <1>1, <1>4 DEF Call, WaitersAreServed, TypeOK, Items
<1>11. NothingBehind'
  BY <1>3 DEF Call, NothingBehind, TypeOK
<1> QED
  BY <1>6, <1>7, <1>8, <1>9, <1>10, <1>11

\* Only where a closer stands changes, and who holds the lock.
LEMMA StopKeeps ==
  ASSUME IInv, NEW k \in Closers, Stop(k)
  PROVE  IInv'
<1> USE DEF IInv
<1>1. closer' = [closer EXCEPT ![k] = "finalizer"] /\ closer \in [Closers -> ClosePoints]
  BY DEF Stop, TypeOK
<1>2. \A j \in Closers : j # k => closer'[j] = closer[j]
  BY <1>1
<1>3. closer'[k] = "finalizer" /\ closer[k] = "out" /\ k # None
  BY <1>1, DistinctItems DEF Stop
<1>4. Closing = {} /\ Closing' = {k}
  BY <1>2, <1>3 DEF Stop, OneCloses, Closing
<1>5. (FinalizerPut' <=> FinalizerPut) /\ (SentinelPut' <=> SentinelPut)
  BY <1>2, <1>3 DEF FinalizerPut, SentinelPut
<1>6. TypeOK'
  BY <1>1 DEF Stop, TypeOK, ClosePoints
<1>7. OneCloses'
  <2>1. \A j \in Closers : closer'[j] \in {"finalizer", "sentinel"} <=> lock' = j
    BY <1>2, <1>3, DistinctItems DEF Stop, OneCloses
  <2> QED
    BY <1>4, <2>1 DEF Stop, OneCloses
<1>8. Closed' /\ WaitersAreServed' /\ NothingBehind' /\ QueueEndsRight'
  BY <1>2, <1>3 DEF Stop, Closed, WaitersAreServed, NothingBehind, QueueEndsRight, Queued
<1>9. FinalizerOnce' /\ SentinelLast'
  BY <1>5 DEF Stop, FinalizerOnce, SentinelLast, Queued
<1> QED
  BY <1>6, <1>7, <1>8, <1>9

LEMMA StopLateKeeps ==
  ASSUME IInv, NEW k \in Closers, StopLate(k)
  PROVE  IInv'
<1> USE DEF IInv
<1>1. closer' = [closer EXCEPT ![k] = "returned"] /\ closer \in [Closers -> ClosePoints]
  BY DEF StopLate, TypeOK
<1>2. \A j \in Closers : j # k => closer'[j] = closer[j]
  BY <1>1
<1>3. closer'[k] = "returned" /\ closer[k] = "out" /\ k # None
  BY <1>1, DistinctItems DEF StopLate
<1>4. Closing' = Closing
  BY <1>2, <1>3 DEF Closing
<1>5. (FinalizerPut' <=> FinalizerPut) /\ (SentinelPut' <=> SentinelPut)
  BY <1>2, <1>3 DEF FinalizerPut, SentinelPut
<1>6. TypeOK'
  BY <1>1 DEF StopLate, TypeOK, ClosePoints
<1>7. OneCloses'
  BY <1>2, <1>3, <1>4 DEF StopLate, OneCloses
<1>8. Closed' /\ WaitersAreServed' /\ NothingBehind' /\ QueueEndsRight'
  BY <1>2, <1>3 DEF StopLate, Closed, WaitersAreServed, NothingBehind, QueueEndsRight, Queued
<1>9. FinalizerOnce' /\ SentinelLast'
  BY <1>5 DEF StopLate, FinalizerOnce, SentinelLast, Queued
<1> QED
  BY <1>6, <1>7, <1>8, <1>9

\* Before the finalizer is put it is nowhere, nor is the sentinel.
LEMMA PutFinalizerKeeps ==
  ASSUME IInv, NEW k \in Closers, PutFinalizer(k)
  PROVE  IInv'
<1> USE DEF IInv
<1>1. closer' = [closer EXCEPT ![k] = "sentinel"] /\ closer \in [Closers -> ClosePoints]
  BY DEF PutFinalizer, TypeOK
<1>2. \A j \in Closers : j # k => closer'[j] = closer[j]
  BY <1>1
<1>3. closer'[k] = "sentinel" /\ closer[k] = "finalizer"
  BY <1>1 DEF PutFinalizer
<1>4. Closing' = Closing /\ k \in Closing
  BY <1>2, <1>3 DEF Closing
<1>5. ~FinalizerPut /\ ~SentinelPut /\ ~SentinelPut' /\ FinalizerPut'
  <2>1. \A j \in Closers : j # k => closer[j] \notin {"sentinel", "join", "closed"}
    BY <1>4 DEF OneCloses, Closing
  <2> QED
    BY <1>2, <1>3, <2>1 DEF FinalizerPut, SentinelPut
<1>6. /\ ~Queued(Finalizer) /\ ~Queued(Sentinel)
      /\ thread # Finalizer /\ thread # "exited" /\ finalized = 0
  BY <1>5 DEF FinalizerOnce, SentinelLast, TypeOK
<1>7. Finalizer \in Items /\ Finalizer # Sentinel /\ Sentinel \in Items
  BY DistinctItems DEF Items
<1>8. /\ queue' \in Seq(Items) /\ Len(queue') = Len(queue) + 1 /\ Len(queue) \in Nat
      /\ \A n \in 1..Len(queue) : queue'[n] = queue[n]
      /\ \A item \in Items : Queued(item)' <=> Queued(item) \/ item = Finalizer
  BY <1>7, AppendKeeps DEF PutFinalizer, TypeOK
<1>9. TypeOK'
  BY <1>1, <1>8, CapacityAssumption DEF PutFinalizer, TypeOK, ClosePoints
<1>10. OneCloses'
  BY <1>2, <1>3, <1>4 DEF PutFinalizer, OneCloses
<1>11. QueueEndsRight'
  <2>1. \A n, m \in 1..Len(queue') : n < m => n \in 1..Len(queue)
    BY <1>8
  <2> QED
    BY <1>6, <1>8, <2>1 DEF QueueEndsRight, Queued
<1>12. FinalizerOnce' /\ SentinelLast'
  BY <1>5, <1>6, <1>7, <1>8 DEF PutFinalizer, FinalizerOnce, SentinelLast
<1>13. WaitersAreServed'
  BY <1>8 DEF PutFinalizer, WaitersAreServed, Items
<1>14. Closed' /\ NothingBehind'
  BY <1>2, <1>3, <1>6 DEF PutFinalizer, Closed, NothingBehind
<1> QED
  BY <1>9, <1>10, <1>11, <1>12, <1>13, <1>14

\* The finalizer is queued, running or done by then; what is left to show is that
\* nothing was put since.
LEMMA PutSentinelKeeps ==
  ASSUME IInv, NEW k \in Closers, PutSentinel(k)
  PROVE  IInv'
<1> USE DEF IInv
<1>1. closer' = [closer EXCEPT ![k] = "join"] /\ closer \in [Closers -> ClosePoints]
  BY DEF PutSentinel, TypeOK
<1>2. \A j \in Closers : j # k => closer'[j] = closer[j]
  BY <1>1
<1>3. closer'[k] = "join" /\ closer[k] = "sentinel" /\ k # None
  BY <1>1, DistinctItems DEF PutSentinel
<1>4. Closing' = Closing /\ k \in Closing
  BY <1>2, <1>3 DEF Closing
<1>5. ~SentinelPut /\ SentinelPut' /\ FinalizerPut /\ FinalizerPut'
  <2>1. \A j \in Closers : j # k => closer[j] \notin {"sentinel", "join", "closed"}
    BY <1>4 DEF OneCloses, Closing
  <2> QED
    BY <1>2, <1>3, <2>1 DEF FinalizerPut, SentinelPut
<1>6. ~Queued(Sentinel) /\ thread # "exited"
  BY <1>5 DEF SentinelLast
<1>7. Finalizer \in Items /\ Finalizer # Sentinel /\ Sentinel \in Items /\ Sentinel \notin Clients
  BY DistinctItems DEF Items
<1>8. /\ queue' \in Seq(Items) /\ Len(queue') = Len(queue) + 1 /\ Len(queue) \in Nat
      /\ \A n \in 1..Len(queue) : queue'[n] = queue[n]
      /\ queue'[Len(queue')] = Sentinel
      /\ \A item \in Items : Queued(item)' <=> Queued(item) \/ item = Sentinel
  BY <1>7, AppendKeeps DEF PutSentinel, TypeOK
<1>9. TypeOK'
  BY <1>1, <1>8, CapacityAssumption DEF PutSentinel, TypeOK, ClosePoints
<1>10. OneCloses'
  <2>1. \A j \in Closers : closer'[j] \in {"finalizer", "sentinel"} <=> lock' = j
    <3>1. lock = k /\ lock' = None
      BY <1>3 DEF PutSentinel, OneCloses
    <3>2. \A j \in Closers : j # k => closer'[j] \notin {"finalizer", "sentinel"}
      BY <1>2, <3>1 DEF OneCloses
    <3> QED
      BY <1>3, <3>1, <3>2, DistinctItems
  <2> QED
    BY <1>4, <2>1 DEF PutSentinel, OneCloses
<1>11. QueueEndsRight'
  <2>1. \A n, m \in 1..Len(queue') : n < m => n \in 1..Len(queue)
    BY <1>8
  <2>2. \A m \in 1..Len(queue') : m \in 1..Len(queue) \/ m = Len(queue')
    BY <1>8
  <2>3. \A n \in 1..Len(queue) : queue[n] # Sentinel
    BY <1>6 DEF Queued
  <2> QED
    BY <1>8, <2>1, <2>2, <2>3 DEF QueueEndsRight
<1>12. FinalizerOnce' /\ SentinelLast'
  BY <1>5, <1>6, <1>7, <1>8 DEF PutSentinel, FinalizerOnce, SentinelLast
<1>13. WaitersAreServed' /\ Closed'
  BY <1>2, <1>3, <1>8 DEF PutSentinel, WaitersAreServed, Closed, Items
<1>14. NothingBehind'
  <2>1. \A m \in 1..Len(queue') : m \in 1..Len(queue) \/ m = Len(queue')
    BY <1>8
  <2> QED
    BY <1>8, <2>1 DEF PutSentinel, NothingBehind
<1> QED
  BY <1>9, <1>10, <1>11, <1>12, <1>13, <1>14

LEMMA JoinKeeps ==
  ASSUME IInv, NEW k \in Closers, Join(k)
  PROVE  IInv'
<1> USE DEF IInv
<1>1. closer' = [closer EXCEPT ![k] = "closed"] /\ closer \in [Closers -> ClosePoints]
  BY DEF Join, TypeOK
<1>2. \A j \in Closers : j # k => closer'[j] = closer[j]
  BY <1>1
<1>3. closer'[k] = "closed" /\ closer[k] = "join" /\ thread = "exited"
  BY <1>1 DEF Join
<1>4. Closing' = Closing
  BY <1>2, <1>3 DEF Closing
<1>5. (FinalizerPut' <=> FinalizerPut) /\ (SentinelPut' <=> SentinelPut)
  BY <1>2, <1>3 DEF FinalizerPut, SentinelPut
<1>6. TypeOK'
  BY <1>1 DEF Join, TypeOK, ClosePoints
<1>7. OneCloses'
  BY <1>2, <1>3, <1>4 DEF Join, OneCloses
<1>8. Closed' /\ WaitersAreServed' /\ NothingBehind' /\ QueueEndsRight'
  BY <1>2, <1>3 DEF Join, Closed, WaitersAreServed, NothingBehind, QueueEndsRight, Queued
<1>9. FinalizerOnce' /\ SentinelLast'
  BY <1>5 DEF Join, FinalizerOnce, SentinelLast, Queued
<1> QED
  BY <1>6, <1>7, <1>8, <1>9
\* The finalizer is taken before the sentinel, which is the last of the queue.
LEMMA TakeKeeps ==
  ASSUME IInv, Take
  PROVE  IInv'
<1> USE DEF IInv
<1>1. /\ Head(queue) \in Items /\ Head(queue) = queue[1]
      /\ queue' \in Seq(Items) /\ Len(queue') = Len(queue) - 1
      /\ \A n \in 1..Len(queue') : n + 1 \in 1..Len(queue) /\ queue'[n] = queue[n + 1]
      /\ 1 \in 1..Len(queue) /\ Len(queue) \in Nat
      /\ \A item \in Items : Queued(item) <=> Queued(item)' \/ item = Head(queue)
  BY TailKeeps DEF Take, TypeOK
<1>2. /\ Finalizer \in Items /\ Sentinel \in Items /\ Finalizer # Sentinel
      /\ \A c \in Clients : c \in Items /\ c # Finalizer /\ c # Sentinel
      /\ \A item \in Items : item \notin {"idle", "exited"}
      /\ Items = Clients \cup {Finalizer, Sentinel}
  BY DistinctItems DEF Items
<1>3. thread = "idle" /\ UNCHANGED <<accepting, lock, client, closer, finalized>>
  BY DEF Take
<1>4. TypeOK'
  BY <1>1, <1>2, CapacityAssumption DEF Take, TypeOK
<1>5. OneCloses' /\ (FinalizerPut' <=> FinalizerPut) /\ (SentinelPut' <=> SentinelPut)
  BY <1>3 DEF OneCloses, Closing, FinalizerPut, SentinelPut
<1>6. QueueEndsRight'
  <2> SUFFICES ASSUME NEW n \in 1..Len(queue'), NEW m \in 1..Len(queue'), n < m
               PROVE  /\ queue'[n] = Finalizer => queue'[m] = Sentinel
                      /\ queue'[n] # Sentinel
    BY DEF QueueEndsRight
  <2>1. n + 1 \in 1..Len(queue) /\ m + 1 \in 1..Len(queue) /\ n + 1 < m + 1
    BY <1>1
  <2>2. queue'[n] = queue[n + 1] /\ queue'[m] = queue[m + 1]
    BY <1>1
  <2> QED BY <2>1, <2>2 DEF QueueEndsRight
<1>7. Head(queue) = Finalizer => ~Queued(Finalizer)'
  BY <1>1, <1>2 DEF QueueEndsRight, Queued
<1>8. Head(queue) = Sentinel => queue' = << >> /\ finalized = 1
  <2>1. ASSUME Head(queue) = Sentinel
        PROVE  Len(queue') = 0
    BY <1>1, <2>1 DEF QueueEndsRight
  <2>2. ASSUME Head(queue) = Sentinel
        PROVE  finalized = 1
    <3>1. SentinelPut /\ FinalizerPut
      BY <1>1, <1>2, <2>2 DEF SentinelLast, SentinelPut, FinalizerPut
    <3>2. ~Queued(Finalizer)'
      BY <2>1, <2>2, <1>1 DEF Queued
    <3>3. ~Queued(Finalizer)
      BY <3>2, <2>2, <1>1, <1>2
    <3> QED
      BY <1>2, <1>3, <3>1, <3>3 DEF FinalizerOnce
  <2> QED
    BY <1>1, <2>1, <2>2
<1>9. FinalizerOnce'
  <2>1. Queued(Finalizer)' => FinalizerPut' /\ thread' # Finalizer /\ finalized' = 0
    BY <1>1, <1>2, <1>3, <1>5, <1>7 DEF Take, FinalizerOnce
  <2>2. thread' = Finalizer => Head(queue) = Finalizer
    BY <1>2 DEF Take
  <2>3. thread' = Finalizer => FinalizerPut' /\ finalized' = 0
    BY <1>1, <1>2, <1>3, <1>5, <2>2 DEF FinalizerOnce
  <2>4. FinalizerPut' => Queued(Finalizer)' \/ thread' = Finalizer \/ finalized' = 1
    BY <1>1, <1>2, <1>3, <1>5 DEF Take, FinalizerOnce
  <2> QED
    BY <1>3, <1>5, <2>1, <2>3, <2>4 DEF FinalizerOnce
<1>10. SentinelLast'
  <2>1. Queued(Sentinel)' => Head(queue) # Sentinel
    BY <1>8 DEF Queued
  <2>2. thread' = "exited" => Head(queue) = Sentinel
    BY <1>1, <1>2 DEF Take
  <2> QED
    BY <1>1, <1>2, <1>3, <1>5, <1>8, <2>1, <2>2 DEF SentinelLast
<1>11. WaitersAreServed'
  BY <1>1, <1>2, <1>3 DEF Take, WaitersAreServed
<1>12. Closed'
  BY <1>2, <1>3 DEF Closed
<1>13. NothingBehind'
  <2>1. CASE finalized = 1
    BY <1>1, <1>2, <1>3, <2>1 DEF Take, NothingBehind
  <2>2. CASE thread' = Finalizer
    <3>1. Head(queue) = Finalizer
      BY <1>2, <2>2 DEF Take
    <3> QED
      BY <1>1, <1>2, <2>2, <3>1 DEF QueueEndsRight, NothingBehind
  <2> QED
    BY <1>3, <2>1, <2>2 DEF NothingBehind
<1> QED
  BY <1>4, <1>5, <1>6, <1>9, <1>10, <1>11, <1>12, <1>13

LEMMA FinishKeeps ==
  ASSUME IInv, Finish
  PROVE  IInv'
<1> USE DEF IInv
<1>1. /\ thread \in Clients \cup {Finalizer} /\ thread' = "idle"
      /\ thread \notin {"idle", "exited"} /\ Finalizer \notin Clients
      /\ UNCHANGED <<queue, accepting, lock, closer>>
      /\ \A item \in Clients \cup {Finalizer} : item \notin {"idle", "exited"}
  BY DistinctItems DEF Finish
<1>2. finalized' = IF thread = Finalizer THEN 1 ELSE finalized
  BY <1>1 DEF Finish, FinalizerOnce, TypeOK
<1>3. TypeOK'
  BY <1>1, <1>2 DEF Finish, TypeOK
<1>4. OneCloses' /\ QueueEndsRight'
  BY <1>1 DEF OneCloses, QueueEndsRight, Closing
<1>5. /\ (FinalizerPut' <=> FinalizerPut) /\ (SentinelPut' <=> SentinelPut)
      /\ (Queued(Finalizer)' <=> Queued(Finalizer))
      /\ (Queued(Sentinel)' <=> Queued(Sentinel))
  BY <1>1 DEF FinalizerPut, SentinelPut, Queued
<1>6. FinalizerOnce'
  BY <1>1, <1>2, <1>5 DEF FinalizerOnce
<1>7. SentinelLast'
  BY <1>1, <1>5 DEF SentinelLast
<1>8. WaitersAreServed'
  <2> SUFFICES ASSUME NEW c \in Clients, client'[c] = "waiting"
               PROVE  Queued(c)' \/ thread' = c
    BY DEF WaitersAreServed
  <2>1. client[c] = "waiting" /\ thread # c
    BY <1>1 DEF Finish, TypeOK
  <2> QED
    BY <1>1, <2>1 DEF WaitersAreServed, Queued
<1>9. Closed'
  BY <1>1 DEF Closed
<1>10. NothingBehind'
  BY <1>1, <1>2 DEF NothingBehind
<1> QED
  BY <1>3, <1>4, <1>6, <1>7, <1>8, <1>9, <1>10

LEMMA StutterKeeps == IInv /\ UNCHANGED vars => IInv'
<1> SUFFICES ASSUME IInv, UNCHANGED vars PROVE IInv'
  OBVIOUS
<1>1. /\ queue' = queue /\ accepting' = accepting /\ lock' = lock /\ thread' = thread
      /\ client' = client /\ closer' = closer /\ finalized' = finalized
  BY DEF vars
<1> QED
  BY <1>1 DEF IInv, TypeOK, OneCloses, QueueEndsRight, FinalizerOnce, SentinelLast,
     WaitersAreServed, Closed, NothingBehind, Queued, Closing, FinalizerPut, SentinelPut

------------------------------------------------------------------------------
(* Theorems *)

\* The inductive invariant: one closer closes, and its two items end the queue.
THEOREM InductiveInvariant == Spec => []IInv
<1>1. IInv /\ [Next]_vars => IInv'
  <2> SUFFICES ASSUME IInv, [Next]_vars PROVE IInv'
    OBVIOUS
  <2>1. ASSUME NEW c \in Clients, Call(c) PROVE IInv'
    BY <2>1, CallKeeps
  <2>2. ASSUME NEW c \in Clients, Refuse(c) PROVE IInv'
    BY <2>2, StutterKeeps DEF Refuse
  <2>3. ASSUME NEW k \in Closers, Close(k) PROVE IInv'
    BY <2>3, StopKeeps, StopLateKeeps, PutFinalizerKeeps, PutSentinelKeeps, JoinKeeps DEF Close
  <2>4. CASE Take
    BY <2>4, TakeKeeps
  <2>5. CASE Finish
    BY <2>5, FinishKeeps
  <2>6. CASE UNCHANGED vars
    BY <2>6, StutterKeeps
  <2> QED
    BY <2>1, <2>2, <2>3, <2>4, <2>5, <2>6 DEF Next
<1> QED
  BY <1>1, InitInv, PTL DEF Spec

\* Whoever waited in close finds the browser closed once, by the last operation of the
\* worker, and no caller with a future that nobody will set (worker.py:56-84).
THEOREM ClosedAlwaysMeansClosed == Spec => []ClosedMeansClosed
<1>1. IInv => ClosedMeansClosed
  <2> SUFFICES ASSUME IInv PROVE ClosedMeansClosed
    OBVIOUS
  <2>1. NothingAfterFinalizer
    BY DEF IInv, TypeOK, NothingBehind, QueueEndsRight, NothingAfterFinalizer
  <2>2. ASSUME thread = "exited", NEW c \in Clients
        PROVE  finalized = 1 /\ client[c] # "waiting"
    <3>1. finalized = 1 /\ queue = << >> /\ ~Queued(c)
      BY <2>2 DEF IInv, SentinelLast, Queued
    <3> QED
      BY <2>2, <3>1, DistinctItems DEF IInv, WaitersAreServed
  <2>3. thread = "exited" => finalized = 1
    BY DEF IInv, SentinelLast
  <2> QED
    BY <2>1, <2>2, <2>3 DEF IInv, Closed, ClosedMeansClosed
<1> QED
  BY <1>1, InductiveInvariant, PTL

------------------------------------------------------------------------------
(***************************************************************************)
(* The grounder finds what a locator describes.                            *)
(***************************************************************************)
Proper(f) ==
  /\ DOMAIN f.cells \subseteq Cells
  /\ f.groups \subseteq SUBSET Cells
  /\ \A g, h \in f.groups : g \subseteq h \/ h \subseteq g \/ g \cap h = {}

LEMMA FramesAreProper ==
  ASSUME NEW p \in Pages
  PROVE  Proper(Frame(p))
BY PagesAssumption DEF Proper, Frame, Restrict

LEMMA CellsAreFinite == IsFiniteSet(Cells)
<1>1. IsFiniteSet(1 .. Rows) /\ IsFiniteSet(1 .. Columns)
  BY GridAssumption, FS_Interval
<1> QED BY <1>1, FS_Product DEF Cells

LEMMA ExactlyOneFinds ==
  ASSUME NEW S, S \subseteq Cells, ExactlyOne(S).found
  PROVE  \E c : S = {c} /\ ExactlyOne(S).cells = {c}
<1>1. IsFiniteSet(S)
  BY CellsAreFinite, FS_Subset
<1>2. Cardinality(S) = 1
  BY DEF ExactlyOne, Failure
<1>3. PICK c : S = {c}
  BY <1>1, <1>2, FS_Singleton
<1> QED BY <1>2, <1>3 DEF ExactlyOne, Found

\* A unique label is the one that is taken.
LEMMA OneLabel ==
  ASSUME NEW S, S \subseteq Cells, Cardinality(S) = 1
  PROVE  S = {CHOOSE l \in S : TRUE}
<1>1. IsFiniteSet(S)
  BY CellsAreFinite, FS_Subset
<1>2. PICK c : S = {c}
  BY <1>1, FS_Singleton
<1> QED BY <1>2

LEMMA TokensAreComponents ==
  ASSUME NEW f, Proper(f)
  PROVE  /\ Tokens(f) \subseteq DOMAIN f.cells /\ Tokens(f) \subseteq Cells
         /\ \A value : Matching(f, value) \subseteq Tokens(f)
         /\ \A kind : OfKind(f, kind) \subseteq DOMAIN f.cells /\ OfKind(f, kind) \subseteq Cells
BY DEF Proper, Tokens, Matching, OfKind

\* Of several matches only a single control is preferred.
LEMMA PreferredIsSingled ==
  ASSUME NEW f, Proper(f), NEW matches, matches \subseteq DOMAIN f.cells,
         ExactlyOne(PreferUniqueControl(f, matches)).found
  PROVE  \E c \in matches :
           /\ ExactlyOne(PreferUniqueControl(f, matches)).cells = {c}
           /\ \A d \in matches \ {c} : f.cells[c].kind = "control" /\ f.cells[d].kind # "control"
<1> DEFINE enclosed == matches \cap OfKind(f, "control")
           preferred == PreferUniqueControl(f, matches)
<1>1. preferred = IF Cardinality(enclosed) = 1 THEN enclosed ELSE matches
  BY DEF PreferUniqueControl
<1>2. preferred \subseteq matches
  BY <1>1
<1>3. matches \subseteq Cells
  BY DEF Proper
<1>4. PICK c : preferred = {c} /\ ExactlyOne(preferred).cells = {c}
  <2> HIDE DEF preferred
  <2> QED BY <1>2, <1>3, ExactlyOneFinds DEF preferred
<1>5. CASE preferred = enclosed
  BY <1>2, <1>4, <1>5 DEF OfKind
<1>6. CASE preferred = matches
  BY <1>4, <1>6
<1> QED BY <1>1, <1>5, <1>6

LEMMA TextIsFound ==
  ASSUME NEW f, Proper(f), NEW candidate, candidate.strategy \in {"ocr_text", "rendered_text"},
         Ground(candidate, f).found
  PROVE  \E c \in DOMAIN f.cells : Ground(candidate, f).cells = {c} /\ Describes(candidate, f, c)
<1> DEFINE matches == Matching(f, candidate.value)
<1>1. matches \subseteq DOMAIN f.cells /\ matches \subseteq Cells
  BY TokensAreComponents
<1>2. ASSUME NEW c \in matches,
             \A d \in matches \ {c} : f.cells[c].kind = "control" /\ f.cells[d].kind # "control"
      PROVE  Describes(candidate, f, c)
  BY <1>2 DEF Describes, Singled
<1>3. CASE candidate.strategy = "ocr_text"
  <2>1. Ground(candidate, f) = ExactlyOne(matches)
    BY <1>3 DEF Ground
  <2>2. PICK c : matches = {c} /\ ExactlyOne(matches).cells = {c}
    BY <1>1, <2>1, ExactlyOneFinds
  <2> QED BY <1>1, <1>2, <2>1, <2>2
<1>4. CASE candidate.strategy = "rendered_text"
  <2>1. Ground(candidate, f) = ExactlyOne(PreferUniqueControl(f, matches))
    BY <1>4 DEF Ground, RenderedText
  <2>2. PICK c \in matches :
          /\ ExactlyOne(PreferUniqueControl(f, matches)).cells = {c}
          /\ \A d \in matches \ {c} : f.cells[c].kind = "control" /\ f.cells[d].kind # "control"
    <3> HIDE DEF matches
    <3> QED BY <1>1, <2>1, PreferredIsSingled
  <2> QED BY <1>1, <1>2, <2>1, <2>2
<1> QED BY <1>3, <1>4

LEMMA RelatedTextIsFound ==
  ASSUME NEW f, Proper(f), NEW candidate, candidate.strategy = "ocr_relative",
         Ground(candidate, f).found
  PROVE  \E c \in DOMAIN f.cells : Ground(candidate, f).cells = {c} /\ Describes(candidate, f, c)
<1> DEFINE related == {t \in Matching(f, candidate.target) :
                         \E a \in Matching(f, candidate.value) : HasRelation(a, t, candidate.relation)}
<1>1. related \subseteq DOMAIN f.cells
  BY TokensAreComponents
<1>2. Ground(candidate, f) = ExactlyOne(PreferUniqueControl(f, related))
  BY DEF Ground, OcrRelative, Failure
<1>3. ASSUME NEW c \in related,
             \A d \in related \ {c} : f.cells[c].kind = "control" /\ f.cells[d].kind # "control"
      PROVE  Describes(candidate, f, c)
  BY <1>3 DEF Describes, Singled
<1>4. PICK c \in related :
        /\ ExactlyOne(PreferUniqueControl(f, related)).cells = {c}
        /\ \A d \in related \ {c} : f.cells[c].kind = "control" /\ f.cells[d].kind # "control"
  <2> HIDE DEF related
  <2> QED BY <1>1, <1>2, PreferredIsSingled
<1> QED BY <1>1, <1>2, <1>3, <1>4

\* The one of the images that has the signature.
TheImage(f, images, signature, c) ==
  /\ MostSimilar(f, images, signature).cells = {c}
  /\ \A d \in images : f.cells[d].text = signature <=> d = c

LEMMA ImageIsFound ==
  ASSUME NEW f, Proper(f), NEW images, images \subseteq OfKind(f, "image"), NEW signature,
         MostSimilar(f, images, signature).found
  PROVE  \E c \in images : TheImage(f, images, signature, c)
<1> DEFINE similar == {d \in images : f.cells[d].text = signature}
<1>1. similar \subseteq Cells
  BY TokensAreComponents
<1>2. MostSimilar(f, images, signature) = ExactlyOne(similar)
  BY DEF MostSimilar, Failure
<1>3. PICK c : similar = {c} /\ ExactlyOne(similar).cells = {c}
  <2> HIDE DEF similar
  <2> QED BY <1>1, <1>2, ExactlyOneFinds
<1> QED BY <1>2, <1>3 DEF TheImage

LEMMA AnchorIsFound ==
  ASSUME NEW f, Proper(f), NEW candidate, candidate.strategy = "image_anchor",
         Ground(candidate, f).found
  PROVE  \E c \in DOMAIN f.cells : Ground(candidate, f).cells = {c} /\ Describes(candidate, f, c)
<1>1. Ground(candidate, f) = MostSimilar(f, OfKind(f, "image"), candidate.value)
  BY DEF Ground, ImageAnchor
<1>2. PICK c \in OfKind(f, "image") :
        /\ Ground(candidate, f).cells = {c}
        /\ \A d \in OfKind(f, "image") : f.cells[d].text = candidate.value <=> d = c
  BY <1>1, ImageIsFound DEF TheImage
<1>3. c \in DOMAIN f.cells
  BY <1>2, TokensAreComponents
<1>4. Describes(candidate, f, c)
  <2>1. {d \in OfKind(f, "image") : f.cells[d].text = candidate.value} = {c}
    BY <1>2
  <2> QED BY <2>1 DEF Describes
<1> QED BY <1>2, <1>3, <1>4

LEMMA LeastNumber ==
  ASSUME NEW S, S \subseteq Nat, S # {}
  PROVE  \E n \in S : \A m \in S : n <= m
<1>1. PICK n \in S : \A m \in S : ~(<<m, n>> \in OpToRel(<, Nat))
  BY WFMin, NatLessThanWellFounded, Zenon
<1>2. \A m \in S : ~(m < n)
  BY <1>1, Zenon DEF OpToRel
<1> QED BY <1>2

LEMMA ContainersAreCells ==
  ASSUME NEW f, Proper(f), NEW l, NEW g \in ContainersOf(f, l)
  PROVE  l \in g /\ g \subseteq Cells /\ IsFiniteSet(g) /\ Cardinality(g) \in Nat
<1>1. l \in g /\ g \subseteq Cells
  BY DEF Proper, ContainersOf
<1>2. IsFiniteSet(g)
  BY <1>1, CellsAreFinite, FS_Subset
<1> QED BY <1>1, <1>2, FS_CardinalityType

\* Of two containers of one cell the one that is not larger is inside the other.
LEMMA SmallerIsInside ==
  ASSUME NEW f, Proper(f), NEW l, NEW g \in ContainersOf(f, l), NEW h \in ContainersOf(f, l),
         Cardinality(g) <= Cardinality(h)
  PROVE  g \subseteq h
<1>1. g \subseteq h \/ h \subseteq g
  BY ContainersAreCells DEF Proper, ContainersOf
<1>2. CASE h \subseteq g
  <2>1. IsFiniteSet(g) /\ Cardinality(g) \in Nat /\ Cardinality(h) \in Nat
    BY ContainersAreCells
  <2>2. Cardinality(h) <= Cardinality(g) /\ (Cardinality(g) = Cardinality(h) => g = h)
    BY <1>2, <2>1, FS_Subset
  <2> QED BY <2>1, <2>2
<1> QED BY <1>1, <1>2

LEMMA InnermostExists ==
  ASSUME NEW f, Proper(f), NEW l, NEW containers, containers \subseteq ContainersOf(f, l),
         containers # {}
  PROVE  Innermost(containers) # {}
<1> DEFINE sizes == {Cardinality(g) : g \in containers}
<1>1. sizes \subseteq Nat /\ sizes # {}
  BY ContainersAreCells
<1>2. PICK n \in sizes : \A m \in sizes : n <= m
  <2> HIDE DEF sizes
  <2> QED BY <1>1, LeastNumber
<1> QED BY <1>2 DEF Innermost

LEMMA StructuralRowIsBeside ==
  ASSUME NEW anchor, NEW candidates, NEW c \in StructuralRow(anchor, candidates)
  PROVE  c \in candidates /\ (RightOf(anchor, c) \/ Under(anchor, c))
BY DEF StructuralRow

LEMMA ControlIsFound ==
  ASSUME NEW f, Proper(f), NEW candidate, candidate.strategy = "rendered_labeled_control",
         Ground(candidate, f).found
  PROVE  \E c \in DOMAIN f.cells : Ground(candidate, f).cells = {c} /\ Describes(candidate, f, c)
<1> DEFINE labels == Matching(f, candidate.value)
           label == CHOOSE l \in labels : TRUE
           controls == {c \in StructuralRow(label, OfKind(f, "control")) : ~InterveningText(f, label, c)}
<1>1. Ground(candidate, f) = IF Cardinality(labels) # 1 THEN ExactlyOne(labels) ELSE ExactlyOne(controls)
  BY DEF Ground, LabeledControl
<1>2. Cardinality(labels) = 1 /\ Ground(candidate, f) = ExactlyOne(controls)
  BY <1>1 DEF ExactlyOne, Failure
<1>3. labels = {label} /\ label \in Cells
  BY <1>2, OneLabel, TokensAreComponents
<1>4. controls \subseteq Cells
  BY StructuralRowIsBeside, TokensAreComponents
<1>5. PICK c : controls = {c} /\ ExactlyOne(controls).cells = {c}
  <2> HIDE DEF controls
  <2> QED BY <1>2, <1>4, ExactlyOneFinds
<1>6. c \in OfKind(f, "control") /\ (RightOf(label, c) \/ Under(label, c)) /\ ~InterveningText(f, label, c)
  BY <1>5, StructuralRowIsBeside
<1>7. c \in DOMAIN f.cells /\ f.cells[c].kind = "control"
  BY <1>6 DEF OfKind
<1>8. Describes(candidate, f, c)
  <2> HIDE DEF label
  <2> QED BY <1>3, <1>6, <1>7 DEF Describes
<1> QED BY <1>2, <1>5, <1>7, <1>8

LEMMA GroupImageIsFound ==
  ASSUME NEW f, Proper(f), NEW candidate, candidate.strategy = "rendered_group_image",
         Ground(candidate, f).found
  PROVE  \E c \in DOMAIN f.cells : Ground(candidate, f).cells = {c} /\ Describes(candidate, f, c)
<1> DEFINE labels == Matching(f, candidate.value)
           label == CHOOSE l \in labels : TRUE
           holding == {g \in ContainersOf(f, label) : g \cap OfKind(f, "image") # {}}
           containers == AnchorContainers(f, label, "image")
           group == CHOOSE g \in containers : TRUE
           related == StructuralRow(label, OfKind(f, "image") \cap group)
<1>1. Ground(candidate, f) =
        IF Cardinality(labels) # 1 THEN ExactlyOne(labels)
        ELSE IF Cardinality(containers) # 1 THEN ExactlyOne(containers)
        ELSE MostSimilar(f, related, candidate.target)
  BY DEF Ground, GroupImage
<1>2. /\ Cardinality(labels) = 1 /\ Cardinality(containers) = 1
      /\ Ground(candidate, f) = MostSimilar(f, related, candidate.target)
  BY <1>1 DEF ExactlyOne, Failure
<1>3. labels = {label} /\ label \in Cells
  BY <1>2, OneLabel, TokensAreComponents
<1>4. containers = Innermost(holding)
  BY DEF AnchorContainers
<1>5. group \in containers
  <2>1. containers # {}
    BY <1>2, FS_EmptySet
  <2> QED BY <2>1
<1>6. related \subseteq OfKind(f, "image") \cap group
  BY StructuralRowIsBeside
<1>7. PICK c \in related : TheImage(f, related, candidate.target, c)
  <2>1. related \subseteq OfKind(f, "image") /\ MostSimilar(f, related, candidate.target).found
    BY <1>2, <1>6
  <2> HIDE DEF related
  <2> QED BY <2>1, ImageIsFound
<1>8. c \in OfKind(f, "image") /\ c \in group /\ f.cells[c].text = candidate.target
  BY <1>6, <1>7 DEF TheImage
<1>9. ASSUME NEW g \in ContainersOf(f, label), g \cap OfKind(f, "image") # {} PROVE c \in g
  <2>1. group \in ContainersOf(f, label) /\ Cardinality(group) <= Cardinality(g)
    BY <1>4, <1>5, <1>9 DEF Innermost
  <2>2. group \subseteq g
    BY <2>1, SmallerIsInside
  <2> QED BY <1>8, <2>2
<1>10. Describes(candidate, f, c)
  <2> HIDE DEF label, group
  <2> QED BY <1>3, <1>8, <1>9 DEF Describes
<1>11. c \in DOMAIN f.cells
  BY <1>8 DEF OfKind
<1> QED BY <1>2, <1>7, <1>10, <1>11 DEF TheImage

\* A text under the label makes a next line.
LEMMA NextLineExists ==
  ASSUME NEW l \in Cells, NEW tokens, tokens \subseteq Cells, NEW t \in tokens, Under(l, t)
  PROVE  NextLine(l, tokens) # {}
<1> DEFINE line(r) == {u \in tokens : u[1] = r}
           overlaps(r) == /\ \E u \in line(r) : u[2] <= l[2]
                          /\ \E u \in line(r) : u[2] >= l[2]
           following == {r \in (l[1] + 1) .. Rows : overlaps(r)}
<1>1. l[1] \in Nat /\ l[2] \in Nat /\ t[1] \in 1 .. Rows /\ t[2] \in Nat
  BY GridAssumption DEF Cells
<1>2. t[1] \in following
  <2>1. t \in line(t[1]) /\ t[2] = l[2] /\ t[1] > l[1]
    BY DEF Under
  <2>2. overlaps(t[1])
    BY <1>1, <2>1
  <2> HIDE DEF overlaps
  <2> QED BY <1>1, <2>1, <2>2, GridAssumption
<1>3. following \subseteq Nat /\ following # {}
  <2> HIDE DEF overlaps
  <2> QED BY <1>1, <1>2
<1>4. PICK r \in following : \A s \in following : r <= s
  <2> HIDE DEF following
  <2> QED BY <1>3, LeastNumber
<1>5. PICK u \in tokens : u[1] = r
  BY <1>4
<1>6. NextLine(l, tokens) = {v \in tokens : v[1] \in following /\ \A s \in following : v[1] <= s}
  BY DEF NextLine
<1>7. u \in NextLine(l, tokens)
  <2> HIDE DEF following
  <2> QED BY <1>4, <1>5, <1>6
<1> QED BY <1>7

\* A stacked value is one of the texts under the label.
LEMMA StackedIsUnder ==
  ASSUME NEW l \in Cells, NEW tokens, tokens \subseteq Cells, NEW t \in StackedValues(l, tokens)
  PROVE  t \in tokens /\ Under(l, t)
<1>1. t \in tokens /\ t[1] \in (l[1] + 1) .. Rows /\ t[2] = l[2]
  BY DEF StackedValues, NextLine
<1>2. l[1] \in Nat /\ t[1] \in Nat
  BY <1>1, GridAssumption DEF Cells
<1> QED BY <1>1, <1>2 DEF Under

LEMMA FieldValueIsFound ==
  ASSUME NEW f, Proper(f), NEW candidate, candidate.strategy = "rendered_field_value",
         Ground(candidate, f).found
  PROVE  \E c \in DOMAIN f.cells : Ground(candidate, f).cells = {c} /\ Describes(candidate, f, c)
<1> DEFINE labels == Matching(f, candidate.value)
           label == CHOOSE l \in labels : TRUE
           Scoped(g) == (Tokens(f) \ {label}) \cap g
           Row(g) == IF candidate.relation # "below" THEN HorizontalValues(label, Scoped(g)) ELSE {}
           Line(g) == IF candidate.relation # "right_of" THEN NextLine(label, Scoped(g)) ELSE {}
           rowScopes == {g \in ContainersOf(f, label) : Row(g) # {}}
           lineScopes == {g \in ContainersOf(f, label) : Line(g) # {}}
           rows == Innermost(rowScopes)
           lines == Innermost(lineScopes)
           row == UNION {Row(g) : g \in rows}
           stacked == UNION {StackedValues(label, Scoped(g)) : g \in lines}
           rowIsNearer == \A h \in lines : \E g \in rows : Cardinality(g) <= Cardinality(h)
           plausible == Plausible(f, label, candidate.relation)
<1>1. Ground(candidate, f) =
        IF Cardinality(labels) # 1 THEN ExactlyOne(labels)
        ELSE IF rowIsNearer THEN ExactlyOne(row)
        ELSE IF stacked = {} THEN ExactlyOne(stacked)
        ELSE ExactlyOne(stacked \cup row)
  BY DEF Ground, FieldValue
<1>2. Cardinality(labels) = 1
  <2> HIDE DEF labels, rowIsNearer, row, stacked
  <2> QED BY <1>1 DEF ExactlyOne, Failure
<1>3. labels = {label} /\ label \in Cells /\ label[1] \in Nat /\ label[2] \in Nat
  <2>1. labels = {label} /\ label \in Cells
    BY <1>2, OneLabel, TokensAreComponents
  <2> HIDE DEF label
  <2> QED BY <2>1, GridAssumption DEF Cells
<1>4. \A g : Scoped(g) \subseteq Cells /\ Scoped(g) \subseteq Tokens(f) /\ Scoped(g) \subseteq g
  BY TokensAreComponents
<1> HIDE DEF labels, label
<1>5. ASSUME NEW g \in ContainersOf(f, label), g \cap plausible # {}
      PROVE  Row(g) # {} \/ Line(g) # {}
  <2>1. PICK t \in g : t \in plausible
    BY <1>5
  <2>2. t \in Tokens(f) /\ t \in Cells
    BY <2>1, TokensAreComponents DEF Plausible
  <2>3. t[1] \in Nat /\ t[2] \in Nat
    BY <2>2, GridAssumption DEF Cells
  <2>4. CASE candidate.relation # "below" /\ RightOf(label, t)
    BY <1>3, <2>1, <2>2, <2>3, <2>4 DEF RightOf, HorizontalValues
  <2>5. CASE candidate.relation # "right_of" /\ Under(label, t)
    <3>1. t \in Scoped(g)
      BY <1>3, <2>1, <2>2, <2>3, <2>5 DEF Under
    <3>2. NextLine(label, Scoped(g)) # {}
      <4> HIDE DEF Scoped
      <4> QED BY <1>3, <1>4, <2>5, <3>1, NextLineExists
    <3> QED BY <2>5, <3>2
  <2> QED BY <2>1, <2>4, <2>5 DEF Plausible
<1>6. rowScopes \subseteq ContainersOf(f, label) /\ lineScopes \subseteq ContainersOf(f, label)
  OBVIOUS
<1>7. rows \subseteq rowScopes /\ lines \subseteq lineScopes
  BY DEF Innermost
<1>8. ASSUME NEW g \in rows, NEW h \in ContainersOf(f, label), Row(h) # {}
      PROVE  g \subseteq h
  <2>1. g \in ContainersOf(f, label) /\ Cardinality(g) <= Cardinality(h)
    BY <1>6, <1>7, <1>8 DEF Innermost
  <2> QED BY <2>1, SmallerIsInside
<1>9. ASSUME NEW g \in lines, NEW h \in ContainersOf(f, label), Line(h) # {}
      PROVE  g \subseteq h
  <2>1. g \in ContainersOf(f, label) /\ Cardinality(g) <= Cardinality(h)
    BY <1>6, <1>7, <1>9 DEF Innermost
  <2> QED BY <2>1, SmallerIsInside
<1>10. ASSUME NEW g, NEW t \in Row(g)
       PROVE  candidate.relation # "below" /\ t \in Scoped(g) /\ RightOf(label, t)
  BY <1>10 DEF HorizontalValues
<1>11. ASSUME NEW c, c \in plausible, Ground(candidate, f).cells = {c},
              \A g \in ContainersOf(f, label) : g \cap plausible # {} => c \in g
       PROVE  \E d \in DOMAIN f.cells : Ground(candidate, f).cells = {d} /\ Describes(candidate, f, d)
  <2>1. c \in DOMAIN f.cells
    BY <1>11, TokensAreComponents DEF Plausible
  <2>2. Describes(candidate, f, c)
    BY <1>3, <1>11 DEF Describes, labels
  <2> QED BY <1>11, <2>1, <2>2
<1>12. row \subseteq Cells /\ stacked \subseteq Cells
  <2>1. \A g : Row(g) \subseteq Cells
    BY <1>4, <1>10
  <2>2. \A g : StackedValues(label, Scoped(g)) \subseteq Cells
    BY <1>4 DEF StackedValues, NextLine
  <2> QED BY <2>1, <2>2
<1>13. CASE rowIsNearer
  <2>1. Ground(candidate, f) = ExactlyOne(row)
    BY <1>1, <1>2, <1>13
  <2>2. PICK c : row = {c} /\ ExactlyOne(row).cells = {c}
    <3> HIDE DEF row
    <3> QED BY <1>12, <2>1, ExactlyOneFinds
  <2>3. PICK inner \in rows : c \in Row(inner)
    <3>1. c \in row
      <4> HIDE DEF row
      <4> QED BY <2>2
    <3> QED BY <3>1
  <2>4. c \in plausible /\ c \in inner
    BY <1>4, <1>10, <2>3 DEF Plausible
  <2>5. ASSUME NEW g \in ContainersOf(f, label), g \cap plausible # {} PROVE c \in g
    <3>1. CASE Row(g) # {}
      BY <1>8, <2>4, <3>1
    <3>2. CASE Line(g) # {}
      <4>1. lines # {}
        <5>1. lineScopes # {}
          BY <3>2
        <5> HIDE DEF lineScopes
        <5> QED BY <1>6, <5>1, InnermostExists
      <4>2. PICK h \in lines : TRUE
        BY <4>1
      <4>3. PICK e \in rows : Cardinality(e) <= Cardinality(h)
        BY <1>13, <4>2
      <4>4. e \in ContainersOf(f, label) /\ h \in ContainersOf(f, label) /\ Row(e) # {}
        BY <1>7
      <4>5. e \subseteq h /\ h \subseteq g
        <5>1. h \subseteq g
          BY <1>9, <3>2
        <5> HIDE DEF rows, lines, Row, Line
        <5> QED BY <4>3, <4>4, <5>1, SmallerIsInside
      <4>6. Row(g) # {}
        BY <4>4, <4>5 DEF HorizontalValues
      <4> QED BY <1>8, <2>4, <4>6
    <3> QED BY <1>5, <2>5, <3>1, <3>2
  <2> QED BY <1>11, <2>1, <2>2, <2>4, <2>5
<1>14. CASE ~rowIsNearer
  <2>1. stacked # {} /\ Ground(candidate, f) = ExactlyOne(stacked \cup row)
    <3>1. stacked # {}
      <4> SUFFICES ASSUME stacked = {} PROVE FALSE
        OBVIOUS
      <4> HIDE DEF stacked, row, rowIsNearer
      <4>1. Ground(candidate, f) = ExactlyOne({})
        BY <1>1, <1>2, <1>14
      <4> QED BY <4>1, FS_EmptySet DEF ExactlyOne, Failure
    <3> HIDE DEF stacked, row, rowIsNearer
    <3> QED BY <1>1, <1>2, <1>14, <3>1
  <2>2. PICK c : stacked \cup row = {c} /\ ExactlyOne(stacked \cup row).cells = {c}
    <3> HIDE DEF stacked, row
    <3>1. stacked \cup row \subseteq Cells
      BY <1>12
    <3> QED BY <2>1, <3>1, ExactlyOneFinds
  <2>3. c \in stacked
    <3> HIDE DEF stacked, row
    <3> QED BY <2>1, <2>2
  <2>4. PICK inner \in lines : c \in StackedValues(label, Scoped(inner))
    BY <2>3
  <2>5. c \in Scoped(inner) /\ Under(label, c)
    <3> HIDE DEF Scoped
    <3> QED BY <1>3, <1>4, <2>4, StackedIsUnder
  <2>6. candidate.relation # "right_of"
    BY <1>7
  <2>7. c \in plausible /\ c \in inner
    BY <1>4, <2>5, <2>6 DEF Plausible
  <2>8. \A g \in ContainersOf(f, label) : Row(g) = {}
    <3>1. rows = {}
      <4> SUFFICES ASSUME NEW g \in rows PROVE FALSE
        OBVIOUS
      <4>1. PICK t : t \in Row(g)
        BY <1>7
      <4>2. t \in row
        BY <4>1
      <4>3. t = c
        <5> HIDE DEF row, stacked
        <5> QED BY <2>2, <4>2
      <4>4. RightOf(label, c)
        BY <1>10, <4>1, <4>3
      <4> QED BY <1>3, <2>5, <4>4 DEF RightOf, Under
    <3>2. rowScopes = {}
      <4> HIDE DEF rowScopes
      <4> QED BY <1>6, <3>1, InnermostExists
    <3> QED BY <3>2
  <2>9. ASSUME NEW g \in ContainersOf(f, label), g \cap plausible # {} PROVE c \in g
    <3>1. Line(g) # {}
      <4> HIDE DEF Row, Line, plausible
      <4> QED BY <1>5, <2>8, <2>9
    <3>2. inner \subseteq g
      BY <1>9, <3>1
    <3> QED BY <2>7, <3>2
  <2> QED BY <1>11, <2>1, <2>2, <2>7, <2>9
<1> QED BY <1>13, <1>14

\* Whatever the strategy, a found cell is the component that the candidate
\* describes.
LEMMA Grounded ==
  ASSUME NEW f, Proper(f), NEW candidate, candidate.strategy \in Strategies,
         NEW outcome \in GroundOutcomes(candidate, f), outcome.found
  PROVE  \E c \in DOMAIN f.cells : outcome.cells = {c} /\ Describes(candidate, f, c)
<1>1. outcome = Ground(candidate, f)
  BY DEF GroundOutcomes, Failure
<1>2. CASE candidate.strategy \in {"ocr_text", "rendered_text"}
  BY <1>1, <1>2, TextIsFound
<1>3. CASE candidate.strategy = "ocr_relative"
  BY <1>1, <1>3, RelatedTextIsFound
<1>4. CASE candidate.strategy = "image_anchor"
  BY <1>1, <1>4, AnchorIsFound
<1>5. CASE candidate.strategy = "rendered_labeled_control"
  BY <1>1, <1>5, ControlIsFound
<1>6. CASE candidate.strategy = "rendered_field_value"
  BY <1>1, <1>6, FieldValueIsFound
<1>7. CASE candidate.strategy = "rendered_group_image"
  BY <1>1, <1>7, GroupImageIsFound
<1> QED BY <1>2, <1>3, <1>4, <1>5, <1>6, <1>7 DEF Strategies

(***************************************************************************)
(* The inductive invariant of a surface session, part by part.             *)
(***************************************************************************)
\* Where a call of each kind begins, and where it can be.
Starts == {"look", "dom", "text", "prepare", "human", "extract", "capture", "route"}
Lookups == {"look", "dom", "count", "state"}
Places ==
  ({"resolve", "element"} \X Lookups) \cup ({"element"} \X {"read"}) \cup ({"text"} \X {"text"})
  \cup ({"execute"} \X {"prepare", "pointer", "keys", "element", "wheel", "goto"})
  \cup ({"human"} \X {"human"}) \cup ({"extract"} \X {"extract"}) \cup ({"capture"} \X {"capture"})
  \cup ({"observe"} \X {"route", "landmarks", "tokens"})
Fields == {"op", "pc", "arg", "start", "n", "memo"}

\* A target as resolve hands it out.
IsTarget(target) ==
  /\ target.how \in {"visual", "element", "coordinates"}
  /\ target.how = "visual" => target.candidate.strategy \in Strategies

\* What a lookup is about, and what an action or an extraction is aimed at.
ArgumentInv ==
  /\ call.op \in {"resolve", "element"} => call.arg.bundle \in Bundles
  /\ call.op = "execute" =>
       /\ call.arg.kind \in ActionKinds
       /\ call.arg.target \in {NoTarget, StaleTarget} \/ IsTarget(call.arg.target)
  /\ call.op \in {"extract", "capture"} =>
       call.arg.target.how = "stale" \/ IsTarget(call.arg.target)

\* A call has sent nothing but for the click before its keys, and is not answered.
CallInv ==
  call.pc # "idle" =>
    /\ Fields \subseteq DOMAIN call
    /\ <<call.op, call.pc>> \in Places
    /\ call.start[1] \in Starts /\ <<call.op, call.start[1]>> \in Places
    /\ ArgumentInv
    /\ answer = NoAnswer
    /\ call.pc # "keys" => sent = {}

\* What a call has found out and goes by, on a page that may be another by now:
\* the only element of its name, the place where the pointer is sent.
Located ==
  /\ call.pc = "state" => \E p \in seen : Cardinality(Attached(p, Candidate.value)) = 1
  /\ call.pc = "pointer" /\ call.arg.target.how = "visual" =>
       \E p \in seen : Describes(call.arg.target.candidate, Frame(p), call.memo)

SeenInv == page \in seen /\ seen \subseteq Pages
TargetsInv == \A target \in targets : IsTarget(target)

SurfaceInv ==
  /\ SeenInv /\ TargetsInv /\ CallInv /\ Located
  /\ AbsentMeansUndone /\ AimedAtTheTarget /\ ReadsWhatItLocated

------------------------------------------------------------------------------
(* The steps of a call that send nothing: it goes on, or is answered. *)

Still == UNCHANGED <<page, mode, targets, sent, answer, seen>>

Moved ==
  /\ Fields \subseteq DOMAIN call'
  /\ call'.op = call.op /\ call'.arg = call.arg /\ call'.start = call.start
  /\ <<call.op, call'.pc>> \in Places
  /\ Located'
  /\ Still

\* A page shown during the call shows the target, and only one.
Traced(target) ==
  \E p \in seen :
    CASE target.how = "visual" -> \E c \in target.cells : Describes(target.candidate, Frame(p), c)
      [] target.how = "element" -> Cardinality(Attached(p, target.name)) = 1
      [] target.how = "coordinates" -> mode.coordinates

Told == (answer.kind = "target" => Traced(answer.target)) /\ ReadsWhatItLocated

Answered ==
  /\ call' = Idle /\ UNCHANGED <<page, mode, sent, seen>>
  /\ answer'.kind = "error" =>
       /\ answer'.op = call.op
       /\ ~(answer'.effect_absent /\ answer'.recoverable /\ call.op \in {"element", "text", "observe"})
  /\ Told'

Quiet == TargetsInv' /\ (Moved \/ Answered)

LEMMA TargetsStay ==
  ASSUME SurfaceInv, UNCHANGED targets
  PROVE  TargetsInv'
BY DEF SurfaceInv, TargetsInv

LEMMA QuietKeeps ==
  ASSUME SurfaceInv, call.pc \notin {"idle", "keys"}, Quiet
  PROVE  SurfaceInv'
<1>1. sent = {} /\ answer = NoAnswer /\ ArgumentInv
  BY DEF SurfaceInv, CallInv
<1>2. CASE Moved
  <2>1. CallInv'
    BY <1>1, <1>2 DEF Moved, Still, SurfaceInv, CallInv, ArgumentInv
  <2>2. AbsentMeansUndone' /\ AimedAtTheTarget' /\ ReadsWhatItLocated'
    BY <1>1, <1>2 DEF Moved, Still, NoAnswer, AbsentMeansUndone, AimedAtTheTarget, ReadsWhatItLocated
  <2>3. SeenInv'
    BY <1>2 DEF Moved, Still, SurfaceInv, SeenInv
  <2> QED BY <1>2, <2>1, <2>2, <2>3 DEF SurfaceInv, Quiet, Moved
<1>3. CASE Answered
  <2>1. CallInv' /\ Located'
    BY <1>3 DEF Answered, Idle, CallInv, Located
  <2>2. sent' = {}
    BY <1>1, <1>3 DEF Answered
  <2>3. AbsentMeansUndone'
    BY <1>3, <2>2 DEF Answered, AbsentMeansUndone
  <2>4. AimedAtTheTarget' /\ ReadsWhatItLocated'
    BY <1>3, <2>2 DEF Answered, Told, Traced, AimedAtTheTarget
  <2>5. SeenInv'
    BY <1>3 DEF Answered, SurfaceInv, SeenInv
  <2> QED BY <2>1, <2>3, <2>4, <2>5 DEF SurfaceInv, Quiet
<1> QED BY <1>2, <1>3 DEF Quiet

LEMMA BeginKeeps ==
  ASSUME SurfaceInv, NEW op, NEW arg, NEW stage, NEW failures,
         <<op, stage>> \in Places, stage \in Starts, Begin(op, arg, stage, failures),
         op \in {"resolve", "element"} => arg.bundle \in Bundles,
         op = "execute" => /\ arg.kind \in ActionKinds
                           /\ arg.target \in {NoTarget, StaleTarget} \/ IsTarget(arg.target),
         op \in {"extract", "capture"} => arg.target.how = "stale" \/ IsTarget(arg.target)
  PROVE  SurfaceInv'
<1>1. /\ call' = [op |-> op, pc |-> stage, arg |-> arg, n |-> 1, failures |-> failures,
                  start |-> <<stage, failures>>, polls |-> 0, memo |-> NoText]
      /\ answer' = NoAnswer /\ sent' = {} /\ targets' = targets
      /\ page' = page /\ seen' = {page}
  BY DEF Begin
<1>2. /\ Fields \subseteq DOMAIN call'
      /\ call'.op = op /\ call'.pc = stage /\ call'.arg = arg /\ call'.start[1] = stage
  BY <1>1 DEF Fields
<1>3. CallInv'
  BY <1>1, <1>2 DEF CallInv, ArgumentInv
<1>4. AbsentMeansUndone' /\ AimedAtTheTarget' /\ ReadsWhatItLocated'
  BY <1>1 DEF AbsentMeansUndone, AimedAtTheTarget, ReadsWhatItLocated, NoAnswer
<1>5. Located'
  BY <1>2 DEF Located, Starts
<1>6. SeenInv' /\ TargetsInv'
  BY <1>1 DEF SurfaceInv, SeenInv, TargetsInv
<1> QED BY <1>3, <1>4, <1>5, <1>6 DEF SurfaceInv

\* A call in progress goes on at another of its places.
LEMMA CallGoesOn ==
  ASSUME SurfaceInv, call.pc \notin {"idle", "keys"}
  PROVE  /\ Fields \subseteq DOMAIN call /\ <<call.op, call.pc>> \in Places
         /\ call.start[1] \in Starts /\ <<call.op, call.start[1]>> \in Places
         /\ sent = {} /\ answer = NoAnswer /\ ArgumentInv
         /\ page \in seen /\ page \in Pages /\ Located
BY DEF SurfaceInv, CallInv, SeenInv

\* A step that goes on at a place at which nothing is remembered.
LEMMA MovedOn ==
  ASSUME SurfaceInv, call.pc \notin {"idle", "keys"}, Continue(call'), DOMAIN call' = DOMAIN call,
         call'.op = call.op, call'.arg = call.arg, call'.start = call.start,
         <<call.op, call'.pc>> \in Places, call'.pc \notin {"state", "pointer"}
  PROVE  Quiet
<1>1. Still /\ UNCHANGED targets
  BY DEF Continue, Still
<1>2. Located'
  BY DEF Located
<1> QED BY <1>1, <1>2, CallGoesOn, TargetsStay DEF Quiet, Moved

\* An error raised while a condition is evaluated, or by a call of another kind,
\* is no invitation to repeat what was done.
LEMMA RefusalIsQuiet ==
  ASSUME SurfaceInv, NEW code, NEW recoverable, NEW absent,
         ~recoverable \/ ~absent \/ call.op \notin {"element", "text", "observe"},
         Answer(Error(code, recoverable, absent))
  PROVE  Quiet
<1>1. /\ answer' = Error(code, recoverable, absent) /\ call' = Idle
      /\ UNCHANGED <<page, mode, targets, sent, seen>>
  BY DEF Answer
<1>2. Told'
  BY <1>1 DEF Told, ReadsWhatItLocated, Error
<1> QED BY <1>1, <1>2, TargetsStay DEF Error, Quiet, Answered

LEMMA AnswerIsQuiet ==
  ASSUME SurfaceInv, NEW reply, reply.kind \notin {"error", "target", "text"}, Answer(reply)
  PROVE  Quiet
<1>1. answer' = reply /\ call' = Idle /\ UNCHANGED <<page, mode, targets, sent, seen>>
  BY DEF Answer
<1>2. Told'
  BY <1>1 DEF Told, ReadsWhatItLocated
<1> QED BY <1>1, <1>2, TargetsStay DEF Quiet, Answered

LEMMA VerdictIsQuiet ==
  ASSUME SurfaceInv, call.op \in {"element", "text"}, call.pc \notin {"idle", "keys"},
         NEW value, Verdict(value)
  PROVE  Quiet
<1>1. CASE Answer([kind |-> "verdict", value |-> value, arg |-> call.arg])
  <2> DEFINE reply == [kind |-> "verdict", value |-> value, arg |-> call.arg]
  <2>1. reply.kind \notin {"error", "target", "text"}
    OBVIOUS
  <2> HIDE DEF reply
  <2> QED BY <1>1, <2>1, AnswerIsQuiet DEF reply
<1>2. CASE Continue([call EXCEPT !.pc = call.start[1], !.failures = call.start[2],
                                 !.n = 1, !.polls = @ + 1])
  <2>1. call' = [call EXCEPT !.pc = call.start[1], !.failures = call.start[2],
                             !.n = 1, !.polls = @ + 1]
        /\ Continue(call')
    BY <1>2 DEF Continue
  <2>2. call'.op = call.op /\ call'.pc = call.start[1] /\ call'.start = call.start
        /\ call'.arg = call.arg /\ DOMAIN call' = DOMAIN call
    BY <2>1, CallGoesOn DEF Fields
  <2> QED BY <2>1, <2>2, CallGoesOn, MovedOn DEF Starts
<1> QED BY <1>1, <1>2 DEF Verdict

LEMMA UnresolvedIsQuiet ==
  ASSUME SurfaceInv, call.pc \in Lookups, NEW code, NEW recoverable, NEW absent,
         Unresolved(Error(code, recoverable, absent))
  PROVE  Quiet
<1>1. call.pc \notin {"idle", "keys"}
  BY DEF Lookups
<1>2. call.op \in {"resolve", "element"}
  BY <1>1, CallGoesOn DEF Places, Lookups
<1>3. CASE call.op = "resolve"
  BY <1>3, RefusalIsQuiet DEF Unresolved
<1>4. CASE call.op = "element"
  BY <1>1, <1>4, VerdictIsQuiet DEF Unresolved
<1> QED BY <1>2, <1>3, <1>4

LEMMA ResolvedIsQuiet ==
  ASSUME SurfaceInv, call.pc \in Lookups, NEW target, IsTarget(target), Traced(target),
         Resolved(target)
  PROVE  Quiet
<1>1. call.pc \notin {"idle", "keys"}
  BY DEF Lookups
<1>2. call.op \in {"resolve", "element"}
  BY <1>1, CallGoesOn DEF Places, Lookups
<1>3. CASE call.op = "resolve"
  <2>1. /\ targets' = targets \cup {target} /\ call' = Idle
        /\ answer' = [kind |-> "target", target |-> target]
        /\ UNCHANGED <<page, mode, sent, seen>>
    BY <1>3 DEF Resolved
  <2>2. Told'
    BY <2>1 DEF Told, Traced, ReadsWhatItLocated
  <2>3. TargetsInv'
    BY <2>1 DEF SurfaceInv, TargetsInv
  <2> QED BY <2>1, <2>2, <2>3 DEF Quiet, Answered
<1>4. CASE call.op = "element" /\ target.how # "element"
  BY <1>1, <1>4, VerdictIsQuiet DEF Resolved
<1>5. CASE call.op = "element" /\ target.how = "element"
  <2>1. call' = [call EXCEPT !.pc = "read", !.memo = target.name] /\ Continue(call')
    BY <1>5 DEF Resolved, Continue
  <2>2. /\ call'.op = call.op /\ call'.pc = "read" /\ call'.start = call.start
        /\ call'.arg = call.arg /\ DOMAIN call' = DOMAIN call
    BY <1>1, <2>1, CallGoesOn DEF Fields
  <2> QED BY <1>1, <1>5, <2>1, <2>2, MovedOn DEF Places
<1> QED BY <1>2, <1>3, <1>4, <1>5

LEMMA LookupGoesOn ==
  ASSUME SurfaceInv, call.pc \in Lookups, NEW stage \in Lookups
  PROVE  <<call.op, stage>> \in Places
<1>1. <<call.op, call.pc>> \in Places
  BY CallGoesOn DEF Lookups
<1>2. call.op \in {"resolve", "element"}
  BY <1>1 DEF Places, Lookups
<1> QED BY <1>2 DEF Places

LEMMA LeastIndex ==
  ASSUME NEW bundle \in Bundles, NEW hits, hits \subseteq DOMAIN bundle.visual, hits # {}
  PROVE  (CHOOSE i \in hits : \A j \in hits : i <= j) \in hits
<1>1. DOMAIN bundle.visual \subseteq Nat
  BY BundlesAssumption
<1>2. \E i \in hits : \A j \in hits : i <= j
  BY <1>1, LeastNumber
<1> QED BY <1>2

LEMMA LookIsQuiet ==
  ASSUME SurfaceInv, Look
  PROVE  Quiet
<1> DEFINE visual == call.arg.bundle.visual
           Possible(i) == GroundOutcomes(visual[i], Frame(page))
<1>1. call.pc = "look" /\ call.pc \in Lookups /\ call.pc \notin {"idle", "keys"}
  BY DEF Look, Lookups
<1>2. call.arg.bundle \in Bundles
  BY <1>1, CallGoesOn DEF ArgumentInv, Places, Lookups
<1>3. CASE Unresolved(Error("screenshot_failed", FALSE, FALSE))
  BY <1>1, <1>3, UnresolvedIsQuiet
<1>4. CASE \E outcome : (\A i \in DOMAIN visual : outcome[i] \in Possible(i)) /\ Looked(outcome)
  <2>1. PICK outcome : (\A i \in DOMAIN visual : outcome[i] \in Possible(i)) /\ Looked(outcome)
    BY <1>4
  <2> DEFINE hits == {i \in DOMAIN visual : outcome[i].found}
             best == CHOOSE i \in hits : \A j \in hits : i <= j
             found == [how |-> "visual", candidate |-> visual[best],
                       cells |-> outcome[best].cells, bundle |-> call.arg.bundle]
  <2>2. CASE hits # {}
    <3>1. best \in hits
      <4>1. hits \subseteq DOMAIN visual
        OBVIOUS
      <4> HIDE DEF hits
      <4> QED BY <1>2, <2>2, <4>1, LeastIndex
    <3>2. /\ best \in DOMAIN visual /\ outcome[best].found
          /\ outcome[best] \in GroundOutcomes(visual[best], Frame(page))
      <4>1. best \in DOMAIN visual /\ outcome[best].found
        <5> HIDE DEF best
        <5> QED BY <3>1
      <4> HIDE DEF best
      <4> QED BY <2>1, <4>1
    <3>3. visual[best].strategy \in Strategies
      <4> HIDE DEF best
      <4> QED BY <1>2, <3>2, BundlesAssumption DEF Range
    <3>4. Proper(Frame(page))
      BY <1>1, CallGoesOn, FramesAreProper
    <3>5. PICK c : outcome[best].cells = {c} /\ Describes(visual[best], Frame(page), c)
      <4> HIDE DEF best, visual
      <4> QED BY <3>2, <3>3, <3>4, Grounded
    <3>6. Resolved(found)
      BY <2>1, <2>2 DEF Looked
    <3> HIDE DEF best, visual
    <3>7. IsTarget(found)
      BY <3>3 DEF IsTarget
    <3>8. Traced(found)
      BY <1>1, <3>5, CallGoesOn DEF Traced
    <3> HIDE DEF found
    <3> QED BY <1>1, <3>6, <3>7, <3>8, ResolvedIsQuiet
  <2>3. CASE Continue([call EXCEPT !.n = @ + 1])
    <3>1. call' = [call EXCEPT !.n = @ + 1] /\ Continue(call')
      BY <2>3 DEF Continue
    <3>2. /\ call'.op = call.op /\ call'.pc = call.pc /\ call'.start = call.start
          /\ call'.arg = call.arg /\ DOMAIN call' = DOMAIN call
      BY <1>1, <3>1, CallGoesOn DEF Fields
    <3> QED BY <1>1, <3>1, <3>2, CallGoesOn, MovedOn
  <2>4. CASE \E failed : Continue([call EXCEPT !.pc = "dom", !.n = 1, !.failures = failed])
    <3>1. PICK failed : /\ call' = [call EXCEPT !.pc = "dom", !.n = 1, !.failures = failed]
                        /\ Continue(call')
      BY <2>4 DEF Continue
    <3>2. /\ call'.op = call.op /\ call'.pc = "dom" /\ call'.start = call.start
          /\ call'.arg = call.arg /\ DOMAIN call' = DOMAIN call
      BY <1>1, <3>1, CallGoesOn DEF Fields
    <3>3. <<call.op, "dom">> \in Places
      BY <1>1, LookupGoesOn DEF Lookups
    <3> QED BY <1>1, <3>1, <3>2, <3>3, MovedOn
  <2>5. hits = {} => \/ Continue([call EXCEPT !.n = @ + 1])
                     \/ \E failed : Continue([call EXCEPT !.pc = "dom", !.n = 1, !.failures = failed])
    BY <2>1 DEF Looked
  <2> QED BY <2>2, <2>3, <2>4, <2>5
<1> QED BY <1>3, <1>4 DEF Look

LEMMA NextCandidateIsQuiet ==
  ASSUME SurfaceInv, call.pc \in Lookups, NEW reason, NextCandidate(reason)
  PROVE  Quiet
<1>1. call.pc \notin {"idle", "keys"}
  BY DEF Lookups
<1>2. call' = [call EXCEPT !.pc = "dom", !.n = @ + 1, !.failures = @ \cup {reason}] /\ Continue(call')
  BY DEF NextCandidate, Continue
<1>3. /\ call'.op = call.op /\ call'.pc = "dom" /\ call'.start = call.start
      /\ call'.arg = call.arg /\ DOMAIN call' = DOMAIN call
  BY <1>1, <1>2, CallGoesOn DEF Fields
<1>4. <<call.op, "dom">> \in Places
  BY LookupGoesOn DEF Lookups
<1> QED BY <1>1, <1>2, <1>3, <1>4, MovedOn

LEMMA TryCandidateIsQuiet ==
  ASSUME SurfaceInv, TryCandidate
  PROVE  Quiet
<1> DEFINE dom == call.arg.bundle.dom
           candidate == dom[call.n]
<1>1. call.pc = "dom" /\ call.pc \in Lookups /\ call.pc \notin {"idle", "keys"}
  BY DEF TryCandidate, Lookups
<1>2. CASE \E code, recoverable, absent : Unresolved(Error(code, recoverable, absent))
  BY <1>1, <1>2, UnresolvedIsQuiet
<1>3. CASE \E reason : NextCandidate(reason)
  BY <1>1, <1>3, NextCandidateIsQuiet
<1>4. CASE call.n > Len(dom)
  BY <1>2, <1>4 DEF TryCandidate
<1>5. CASE ~(call.n > Len(dom)) /\ candidate.strategy = "coordinates"
  <2> DEFINE target == [how |-> "coordinates", candidate |-> candidate, frame |-> Frame(page),
                        cells |-> {candidate.place}, bundle |-> call.arg.bundle]
  <2>1. \/ NextCandidate("coordinate_not_replayable")
        \/ Unresolved(Error("screenshot_failed", FALSE, FALSE))
        \/ mode.coordinates /\ Resolved(target)
    BY <1>5 DEF TryCandidate
  <2>2. CASE mode.coordinates /\ Resolved(target)
    <3>1. IsTarget(target)
      BY DEF IsTarget
    <3>2. Traced(target)
      BY <1>1, <2>2, CallGoesOn DEF Traced
    <3> HIDE DEF target
    <3> QED BY <1>1, <2>2, <3>1, <3>2, ResolvedIsQuiet
  <2> HIDE DEF target
  <2> QED BY <1>2, <1>3, <2>1, <2>2
<1>6. CASE ~(call.n > Len(dom)) /\ candidate.strategy # "coordinates"
  <2>1. CASE Continue([call EXCEPT !.pc = "count"])
    <3>1. call' = [call EXCEPT !.pc = "count"] /\ Continue(call')
      BY <2>1 DEF Continue
    <3>2. /\ call'.op = call.op /\ call'.pc = "count" /\ call'.start = call.start
          /\ call'.arg = call.arg /\ DOMAIN call' = DOMAIN call
      BY <1>1, <3>1, CallGoesOn DEF Fields
    <3>3. <<call.op, "count">> \in Places
      BY <1>1, LookupGoesOn DEF Lookups
    <3> QED BY <1>1, <3>1, <3>2, <3>3, MovedOn
  <2> QED BY <1>3, <1>6, <2>1 DEF TryCandidate
<1> QED BY <1>4, <1>5, <1>6

\* One element matched at the count; the state is read of whatever matches then.
LEMMA CountMatchesIsQuiet ==
  ASSUME SurfaceInv, CountMatches
  PROVE  Quiet
<1>1. call.pc = "count" /\ call.pc \in Lookups /\ call.pc \notin {"idle", "keys"}
  BY DEF CountMatches, Lookups
<1>2. CASE \E reason : NextCandidate(reason)
  BY <1>1, <1>2, NextCandidateIsQuiet
<1>3. CASE Cardinality(Attached(page, Candidate.value)) = 1 /\ Continue([call EXCEPT !.pc = "state"])
  <2>1. call' = [call EXCEPT !.pc = "state"] /\ Still
    BY <1>3 DEF Continue, Still
  <2>2. /\ call'.op = call.op /\ call'.pc = "state" /\ call'.start = call.start
        /\ call'.arg = call.arg /\ call'.n = call.n /\ DOMAIN call' = DOMAIN call
    BY <1>1, <2>1, CallGoesOn DEF Fields
  <2>3. <<call.op, "state">> \in Places
    BY <1>1, LookupGoesOn DEF Lookups
  <2>4. Located'
    BY <1>1, <1>3, <2>1, <2>2, CallGoesOn DEF Located, Candidate, Still
  <2> QED BY <1>1, <2>1, <2>2, <2>3, <2>4, CallGoesOn, TargetsStay DEF Quiet, Moved, Still
<1> QED BY <1>2, <1>3 DEF CountMatches

LEMMA CheckStateIsQuiet ==
  ASSUME SurfaceInv, CheckState
  PROVE  Quiet
<1> DEFINE target == [how |-> "element", name |-> Candidate.value, bundle |-> call.arg.bundle]
<1>1. call.pc = "state" /\ call.pc \in Lookups /\ call.pc \notin {"idle", "keys"}
  BY DEF CheckState, Lookups
<1>2. CASE \E reason : NextCandidate(reason)
  BY <1>1, <1>2, NextCandidateIsQuiet
<1>3. CASE Resolved(target)
  <2>1. IsTarget(target)
    BY DEF IsTarget
  <2>2. Traced(target)
    BY <1>1, CallGoesOn DEF Traced, Located
  <2> HIDE DEF target
  <2> QED BY <1>1, <1>3, <2>1, <2>2, ResolvedIsQuiet
<1> QED BY <1>2, <1>3 DEF CheckState

LEMMA ReadElementIsQuiet ==
  ASSUME SurfaceInv, ReadElement
  PROVE  Quiet
<1>1. call.pc = "read" /\ call.pc \notin {"idle", "keys"}
  BY DEF ReadElement
<1>2. call.op = "element"
  BY <1>1, CallGoesOn DEF Places, Lookups
<1>3. CASE Escapes
  BY <1>3, RefusalIsQuiet DEF Escapes, Reject
<1>4. CASE \E value : Verdict(value)
  BY <1>1, <1>2, <1>4, VerdictIsQuiet
<1> QED BY <1>3, <1>4 DEF ReadElement

LEMMA ReadTextIsQuiet ==
  ASSUME SurfaceInv, ReadText
  PROVE  Quiet
<1>1. call.pc = "text" /\ call.pc \notin {"idle", "keys"}
  BY DEF ReadText
<1>2. call.op = "text"
  BY <1>1, CallGoesOn DEF Places, Lookups
<1>3. CASE Reject("screenshot_failed")
  BY <1>3, RefusalIsQuiet DEF Reject
<1>4. CASE Answer(Error("visual_grounding_budget_exceeded", FALSE, TRUE))
  BY <1>4, RefusalIsQuiet
<1>5. CASE \E value : Verdict(value)
  BY <1>1, <1>2, <1>5, VerdictIsQuiet
<1> QED BY <1>3, <1>4, <1>5 DEF ReadText

\* The first of several elements in document order is one of them.
LEMMA FirstIsOne ==
  ASSUME NEW cells, cells \subseteq Cells, cells # {}
  PROVE  First(cells) \in cells
<1> DEFINE heights == {c[1] : c \in cells}
<1>1. \A c \in cells : c[1] \in Nat /\ c[2] \in Nat
  BY GridAssumption DEF Cells
<1>2. PICK top \in heights : \A r \in heights : top <= r
  <2>1. heights \subseteq Nat /\ heights # {}
    BY <1>1
  <2> HIDE DEF heights
  <2> QED BY <2>1, LeastNumber
<1> DEFINE columns == {c[2] : c \in {d \in cells : d[1] = top}}
<1>3. PICK left \in columns : \A k \in columns : left <= k
  <2>1. columns \subseteq Nat /\ columns # {}
    BY <1>1, <1>2
  <2> HIDE DEF columns
  <2> QED BY <2>1, LeastNumber
<1>4. PICK c \in cells : c[1] = top /\ c[2] = left
  BY <1>3
<1>5. ASSUME NEW d \in cells \ {c} PROVE Before(c, d)
  <2>1. c[1] <= d[1] /\ (d[1] = c[1] => c[2] <= d[2])
    BY <1>2, <1>3, <1>4
  <2>2. d[1] # c[1] \/ d[2] # c[2]
    BY <1>5 DEF Cells
  <2>3. c[1] \in Nat /\ c[2] \in Nat /\ d[1] \in Nat /\ d[2] \in Nat
    BY <1>1
  <2> QED BY <2>1, <2>2, <2>3 DEF Before
<1>6. \E e \in cells : \A d \in cells \ {e} : Before(e, d)
  BY <1>5
<1> QED BY <1>6 DEF First

LEMMA FirstOfOne ==
  ASSUME NEW c
  PROVE  First({c}) = c
<1>1. \A e \in {c} : \A d \in {c} \ {e} : Before(e, d)
  OBVIOUS
<1> QED BY <1>1 DEF First

\* What grounding a visual target again finds is what the target describes.
LEMMA FreshIsDescribed ==
  ASSUME SurfaceInv, NEW target, IsTarget(target), target.how = "visual",
         NEW cells \in FreshRegions(target)
  PROVE  \E c \in DOMAIN Frame(page).cells :
           cells = {c} /\ Describes(target.candidate, Frame(page), c)
<1>1. PICK outcome \in GroundOutcomes(target.candidate, Frame(page)) :
        outcome.found /\ cells = outcome.cells
  BY DEF FreshRegions
<1>2. Proper(Frame(page))
  BY FramesAreProper DEF SurfaceInv, SeenInv
<1> QED BY <1>1, <1>2, Grounded DEF IsTarget

\* The errors of grounding a target again, raised by a call that is no condition.
LEMMA FreshErrorIsQuiet ==
  ASSUME SurfaceInv, call.op \notin {"element", "text", "observe"},
         NEW target, NEW failure \in FreshErrors(target), Answer(failure)
  PROVE  Quiet
<1>1. PICK code, recoverable, absent : failure = Error(code, recoverable, absent)
  BY DEF FreshErrors
<1> QED BY <1>1, RefusalIsQuiet

LEMMA ActionGoesOn ==
  ASSUME SurfaceInv, call.pc = "prepare", NEW stage \in {"element", "keys", "wheel", "goto"},
         Continue([call EXCEPT !.pc = stage])
  PROVE  Quiet
<1>1. call.pc \notin {"idle", "keys"} /\ call.op = "execute"
  BY CallGoesOn DEF Places, Lookups
<1>2. call' = [call EXCEPT !.pc = stage] /\ Continue(call')
  BY DEF Continue
<1>3. /\ call'.op = call.op /\ call'.pc = stage /\ call'.start = call.start
      /\ call'.arg = call.arg /\ DOMAIN call' = DOMAIN call
  BY <1>1, <1>2, CallGoesOn DEF Fields
<1>4. <<call.op, stage>> \in Places
  BY <1>1 DEF Places
<1> QED BY <1>1, <1>2, <1>3, <1>4, MovedOn

\* The pointer is sent where a frame of this call shows the target.
LEMMA InteractIsQuiet ==
  ASSUME SurfaceInv, call.pc = "prepare", call.arg.target # StaleTarget, Interact(call.arg.target)
  PROVE  Quiet
<1> DEFINE target == call.arg.target
<1>1. call.pc \notin {"idle", "keys"} /\ call.op = "execute"
  BY CallGoesOn DEF Places, Lookups
<1>2. IsTarget(target) \/ target = NoTarget
  BY <1>1, CallGoesOn DEF ArgumentInv
<1>3. CASE IsVisual(target) /\ \E cells \in FreshRegions(target) : Point(cells)
  <2>1. PICK cells \in FreshRegions(target) : Point(cells)
    BY <1>3
  <2>2. call' = [call EXCEPT !.pc = "pointer", !.memo = First(cells)] /\ Still
    BY <2>1 DEF Point, Continue, Still
  <2>3. /\ call'.op = call.op /\ call'.pc = "pointer" /\ call'.start = call.start
        /\ call'.arg = call.arg /\ call'.memo = First(cells) /\ DOMAIN call' = DOMAIN call
    BY <1>1, <2>2, CallGoesOn DEF Fields
  <2>4. <<call.op, "pointer">> \in Places
    BY <1>1 DEF Places
  <2>5. target.how = "visual" => Describes(target.candidate, Frame(page), First(cells))
    <3> SUFFICES ASSUME target.how = "visual"
                 PROVE  Describes(target.candidate, Frame(page), First(cells))
      OBVIOUS
    <3>1. IsTarget(target)
      BY <1>2, <1>3 DEF IsVisual
    <3>2. PICK c : cells = {c} /\ Describes(target.candidate, Frame(page), c)
      BY <3>1, FreshIsDescribed
    <3> QED BY <3>2, FirstOfOne
  <2>6. Located'
    BY <1>1, <2>2, <2>3, <2>5, CallGoesOn DEF Located, Still
  <2> QED BY <1>1, <2>2, <2>3, <2>4, <2>6, CallGoesOn, TargetsStay DEF Quiet, Moved, Still
<1>4. CASE \E failure \in FreshErrors(target) : Answer(failure)
  BY <1>1, <1>4, FreshErrorIsQuiet
<1>5. CASE Reject("target_required")
  BY <1>5, RefusalIsQuiet DEF Reject
<1> QED BY <1>3, <1>4, <1>5, ActionGoesOn DEF Interact

LEMMA PrepareIsQuiet ==
  ASSUME SurfaceInv, Prepare
  PROVE  Quiet
<1> DEFINE target == call.arg.target
<1>1. call.pc = "prepare" /\ call.pc \notin {"idle", "keys"}
  BY DEF Prepare
<1>2. call.op = "execute"
  BY <1>1, CallGoesOn DEF Places, Lookups
<1>3. CASE \E code : Reject(code)
  BY <1>3, RefusalIsQuiet DEF Reject
<1>4. CASE Answer(Error("visual_select_unsupported", TRUE, TRUE))
  BY <1>2, <1>4, RefusalIsQuiet
<1>5. CASE Completed
  <2>1. \A reply : reply = [kind |-> "completed"] => reply.kind \notin {"error", "target", "text"}
    OBVIOUS
  <2> QED BY <1>5, <2>1, AnswerIsQuiet DEF Completed
<1>6. CASE \E stage \in {"goto", "wheel"} : Continue([call EXCEPT !.pc = stage])
  BY <1>1, <1>6, ActionGoesOn
<1>7. CASE target # StaleTarget /\ Interact(target)
  BY <1>1, <1>7, InteractIsQuiet
<1>8. call.arg.kind \in ActionKinds
  BY <1>1, <1>2, CallGoesOn DEF ArgumentInv
<1>9. \/ \E code : Reject(code)
      \/ Answer(Error("visual_select_unsupported", TRUE, TRUE))
      \/ Completed
      \/ \E stage \in {"goto", "wheel"} : Continue([call EXCEPT !.pc = stage])
      \/ target # StaleTarget /\ Interact(target)
  BY <1>8 DEF Prepare, ActionKinds
<1> QED BY <1>3, <1>4, <1>5, <1>6, <1>7, <1>9

\* A text is handed out when it is one of the shown page that the target describes.
LEMMA TextIsQuiet ==
  ASSUME SurfaceInv, NEW target, NEW value,
         ReadsWhatItLocated', Answer([kind |-> "text", value |-> value, target |-> target])
  PROVE  Quiet
<1>1. /\ answer' = [kind |-> "text", value |-> value, target |-> target] /\ call' = Idle
      /\ UNCHANGED <<page, mode, targets, sent, seen>>
  BY DEF Answer
<1>2. Told'
  BY <1>1 DEF Told
<1> QED BY <1>1, <1>2, TargetsStay DEF Quiet, Answered

\* What is read in a region is the text of one of its components.
LEMMA RegionIsRead ==
  ASSUME NEW f, NEW cells, ReadRegion(f, cells) # NoText
  PROVE  \E c \in cells \cap DOMAIN f.cells : ReadRegion(f, cells) = f.cells[c].text
<1> DEFINE texts == {f.cells[c].text : c \in cells \cap Tokens(f)}
<1>1. ReadRegion(f, cells) = IF texts = {} THEN NoText ELSE CHOOSE t \in texts : TRUE
  BY DEF ReadRegion
<1>2. texts # {} /\ ReadRegion(f, cells) \in texts
  <2> HIDE DEF texts
  <2> QED BY <1>1
<1> QED BY <1>2 DEF Tokens

LEMMA ReadTargetIsQuiet ==
  ASSUME SurfaceInv, ReadTarget
  PROVE  Quiet
<1> DEFINE target == call.arg.target
           frame == Frame(page)
<1>1. call.pc = "extract" /\ call.pc \notin {"idle", "keys"}
  BY DEF ReadTarget
<1>2. call.op = "extract"
  BY <1>1, CallGoesOn DEF Places, Lookups
<1>3. target.how = "stale" \/ IsTarget(target)
  BY <1>1, <1>2, CallGoesOn DEF ArgumentInv
<1>4. page \in seen /\ page \in Pages
  BY <1>1, CallGoesOn
<1>5. CASE \E code, recoverable, absent : Answer(Error(code, recoverable, absent))
  BY <1>2, <1>5, RefusalIsQuiet
<1>6. CASE target.how = "stale"
  BY <1>5, <1>6 DEF ReadTarget, Reject
<1>7. CASE target.how = "element"
  <2> DEFINE elements == Attached(page, target.name)
  <2>1. CASE elements = {}
    BY <1>5, <1>7, <2>1 DEF ReadTarget, Escapes, Reject
  <2>2. CASE elements # {}
    <3>1. elements \subseteq Cells
      BY <1>4, PagesAssumption DEF Attached
    <3>2. First(elements) \in elements
      <4> HIDE DEF elements
      <4> QED BY <2>2, <3>1, FirstIsOne
    <3>3. page.cells[First(elements)].text = target.name
      BY <3>2 DEF Attached
    <3>4. Answer([kind |-> "text", value |-> target.name, target |-> target])
      BY <1>7, <2>2, <3>3 DEF ReadTarget
    <3>5. ReadsWhatItLocated'
      BY <1>4, <1>7, <3>4 DEF ReadsWhatItLocated, Answer
    <3> QED BY <3>4, <3>5, TextIsQuiet
  <2> QED BY <2>1, <2>2
<1>8. CASE target.how = "visual"
  <2>1. CASE \E error \in FreshErrors(target) : Answer(error)
    BY <1>2, <2>1, FreshErrorIsQuiet
  <2>2. CASE \E cells \in FreshRegions(target) : Text(frame, cells, target)
    <3>1. PICK cells \in FreshRegions(target) : Text(frame, cells, target)
      BY <2>2
    <3>2. PICK c \in DOMAIN frame.cells : cells = {c} /\ Describes(target.candidate, frame, c)
      BY <1>3, <1>8, FreshIsDescribed
    <3> DEFINE value == ReadRegion(frame, cells)
    <3>3. CASE value = NoText
      BY <1>5, <3>1, <3>3 DEF Text
    <3>4. CASE value # NoText
      <4>1. Answer([kind |-> "text", value |-> value, target |-> target])
        BY <3>1, <3>4 DEF Text
      <4>2. value = frame.cells[c].text
        BY <3>2, <3>4, RegionIsRead
      <4> HIDE DEF value
      <4>3. ReadsWhatItLocated'
        BY <1>4, <1>8, <3>2, <4>1, <4>2 DEF ReadsWhatItLocated, Answer
      <4> QED BY <4>1, <4>3, TextIsQuiet
    <3> QED BY <3>3, <3>4
  <2> QED BY <1>8, <2>1, <2>2 DEF ReadTarget
<1>9. CASE target.how = "coordinates"
  <2>1. CASE frame = target.frame /\ Text(frame, target.cells, target)
    <3> DEFINE value == ReadRegion(frame, target.cells)
    <3>1. CASE value = NoText
      BY <1>5, <2>1, <3>1 DEF Text
    <3>2. CASE value # NoText
      <4>1. Answer([kind |-> "text", value |-> value, target |-> target])
        BY <2>1, <3>2 DEF Text
      <4> HIDE DEF value
      <4>2. ReadsWhatItLocated'
        BY <1>4, <1>9, <2>1, <4>1 DEF ReadsWhatItLocated, Answer
      <4> QED BY <4>1, <4>2, TextIsQuiet
    <3> QED BY <3>1, <3>2
  <2> QED BY <1>5, <1>9, <2>1 DEF ReadTarget, Reject
<1> QED BY <1>3, <1>6, <1>7, <1>8, <1>9 DEF IsTarget

LEMMA DescribeIsQuiet ==
  ASSUME SurfaceInv, Describe
  PROVE  Quiet
<1> DEFINE target == call.arg.target
<1>1. call.pc = "capture" /\ call.pc \notin {"idle", "keys"}
  BY DEF Describe
<1>2. call.op = "capture"
  BY <1>1, CallGoesOn DEF Places, Lookups
<1>3. target.how = "stale" \/ IsTarget(target)
  BY <1>1, <1>2, CallGoesOn DEF ArgumentInv
<1>4. CASE \E code, recoverable, absent : Answer(Error(code, recoverable, absent))
  BY <1>2, <1>4, RefusalIsQuiet
<1>5. CASE \E found : Answer([kind |-> "locator", candidates |-> found])
  <2>1. PICK found : Answer([kind |-> "locator", candidates |-> found])
    BY <1>5
  <2> DEFINE reply == [kind |-> "locator", candidates |-> found]
  <2>2. reply.kind \notin {"error", "target", "text"}
    OBVIOUS
  <2> HIDE DEF reply
  <2> QED BY <2>1, <2>2, AnswerIsQuiet DEF reply
<1>6. CASE target.how = "stale"
  BY <1>4, <1>6 DEF Describe, Reject
<1>7. CASE target.how = "element"
  BY <1>5, <1>7 DEF Describe
<1>8. CASE target.how = "visual"
  BY <1>5, <1>8 DEF Describe
<1>9. CASE target.how = "coordinates"
  BY <1>4, <1>5, <1>9 DEF Describe, Reject
<1> QED BY <1>3, <1>6, <1>7, <1>8, <1>9 DEF IsTarget

LEMMA ObservingIsQuiet ==
  ASSUME SurfaceInv, ReadRoute \/ ReadLandmarks \/ ReadTokens
  PROVE  Quiet
<1>1. call.pc \in {"route", "landmarks", "tokens"} /\ call.pc \notin {"idle", "keys"}
  BY DEF ReadRoute, ReadLandmarks, ReadTokens
<1>2. call.op = "observe"
  BY <1>1, CallGoesOn DEF Places, Lookups
<1>3. ASSUME NEW stage \in {"route", "landmarks", "tokens"}, Continue(call'), DOMAIN call' = DOMAIN call,
             call'.op = call.op, call'.arg = call.arg, call'.start = call.start, call'.pc = stage
      PROVE  Quiet
  <2>1. <<call.op, stage>> \in Places
    BY <1>2 DEF Places
  <2> QED BY <1>1, <1>3, <2>1, MovedOn
<1>4. CASE ReadRoute
  <2>1. call' = [call EXCEPT !.pc = "landmarks", !.memo = page.route] /\ Continue(call')
    BY <1>4 DEF ReadRoute, Continue
  <2> QED BY <1>1, <1>3, <2>1, CallGoesOn DEF Fields
<1>5. CASE ReadLandmarks
  <2>1. CASE Continue([call EXCEPT !.pc = "tokens"])
    <3>1. call' = [call EXCEPT !.pc = "tokens"] /\ Continue(call')
      BY <2>1 DEF Continue
    <3> QED BY <1>1, <1>3, <3>1, CallGoesOn DEF Fields
  <2>2. CASE Continue([call EXCEPT !.pc = "route", !.n = @ + 1])
    <3>1. call' = [call EXCEPT !.pc = "route", !.n = @ + 1] /\ Continue(call')
      BY <2>2 DEF Continue
    <3> QED BY <1>1, <1>3, <3>1, CallGoesOn DEF Fields
  <2>3. CASE Reject("observation_failed")
    BY <2>3, RefusalIsQuiet DEF Reject
  <2> QED BY <1>5, <2>1, <2>2, <2>3 DEF ReadLandmarks
<1>6. CASE ReadTokens
  <2>1. CASE Answer([kind |-> "observation", route |-> call.memo])
    <3> DEFINE reply == [kind |-> "observation", route |-> call.memo]
    <3>1. reply.kind \notin {"error", "target", "text"}
      OBVIOUS
    <3> HIDE DEF reply
    <3> QED BY <2>1, <3>1, AnswerIsQuiet DEF reply
  <2>2. CASE Reject("screenshot_failed")
    BY <2>2, RefusalIsQuiet DEF Reject
  <2>3. CASE Answer(Error("visual_ocr_budget_exceeded", FALSE, TRUE))
    BY <2>3, RefusalIsQuiet
  <2> QED BY <1>6, <2>1, <2>2, <2>3 DEF ReadTokens
<1> QED BY <1>4, <1>5, <1>6

\* An input, whatever came of it: its errors never report the effect absent, and
\* a pointer went where the target was located.
LEMMA SendKeeps ==
  ASSUME SurfaceInv, call.pc # "idle", call.op \in {"execute", "human"},
         NEW input, NEW next \in {"idle", "keys"}, next = "keys" => call.op = "execute",
         input.how = "pointer" /\ input.target.how = "visual" =>
           \E p \in seen : Describes(input.target.candidate, Frame(p), input.place),
         Send(input, next)
  PROVE  SurfaceInv'
<1>1. PICK acted \in BOOLEAN, reply \in {"returned", "timeout", "failed"} :
        /\ sent' = IF acted THEN sent \cup {input} ELSE sent
        /\ IF reply = "returned" /\ next # "idle"
           THEN call' = [call EXCEPT !.pc = next] /\ answer' = answer
           ELSE /\ call' = Idle
                /\ answer' = CASE reply = "returned" -> [kind |-> "completed"]
                               [] reply # "returned" /\ call.op = "human" ->
                                     Error("human_input_failed", FALSE, FALSE)
                               [] reply = "timeout" /\ call.op = "execute" ->
                                     Error("action_timeout", TRUE, FALSE)
                               [] reply = "failed" /\ call.op = "execute" ->
                                     Error("action_failed", FALSE, FALSE)
        /\ UNCHANGED <<page, mode, targets, seen>>
  BY DEF Send
<1>2. SeenInv' /\ TargetsInv'
  BY <1>1 DEF SurfaceInv, SeenInv, TargetsInv
<1>3. \A earlier \in sent' :
        earlier.how = "pointer" /\ earlier.target.how = "visual" =>
          \E p \in seen' : Describes(earlier.target.candidate, Frame(p), earlier.place)
  BY <1>1 DEF SurfaceInv, AimedAtTheTarget
<1>4. CASE reply = "returned" /\ next = "keys"
  <2>1. call' = [call EXCEPT !.pc = "keys"] /\ answer' = answer
    BY <1>1, <1>4
  <2>2. /\ Fields \subseteq DOMAIN call /\ <<call.op, call.start[1]>> \in Places
        /\ call.start[1] \in Starts /\ ArgumentInv /\ answer = NoAnswer
    BY DEF SurfaceInv, CallInv
  <2>3. /\ call'.pc = "keys" /\ call'.op = call.op /\ call'.arg = call.arg /\ call'.start = call.start
        /\ DOMAIN call' = DOMAIN call
    BY <2>1, <2>2 DEF Fields
  <2>4. CallInv'
    BY <1>4, <2>1, <2>2, <2>3 DEF CallInv, ArgumentInv, Places
  <2>5. Located'
    BY <2>3 DEF Located
  <2>6. AbsentMeansUndone' /\ AimedAtTheTarget' /\ ReadsWhatItLocated'
    BY <1>3, <2>1, <2>2 DEF AbsentMeansUndone, AimedAtTheTarget, ReadsWhatItLocated, NoAnswer
  <2> QED BY <1>2, <2>4, <2>5, <2>6 DEF SurfaceInv
<1>5. CASE ~(reply = "returned" /\ next = "keys")
  <2>1. call' = Idle
    BY <1>1, <1>5
  <2>2. answer'.kind \in {"completed", "error"} /\ (answer'.kind = "error" => ~answer'.effect_absent)
    <3>1. CASE reply = "returned"
      BY <1>1, <1>5, <3>1
    <3>2. CASE reply # "returned" /\ call.op = "human"
      BY <1>1, <1>5, <3>2 DEF Error
    <3>3. CASE reply # "returned" /\ call.op = "execute"
      BY <1>1, <1>5, <3>3 DEF Error
    <3> QED BY <3>1, <3>2, <3>3
  <2>3. CallInv' /\ Located'
    BY <2>1 DEF CallInv, Located, Idle
  <2>4. AbsentMeansUndone' /\ AimedAtTheTarget' /\ ReadsWhatItLocated'
    BY <1>3, <2>2 DEF AbsentMeansUndone, AimedAtTheTarget, ReadsWhatItLocated
  <2> QED BY <1>2, <2>3, <2>4 DEF SurfaceInv
<1> QED BY <1>4, <1>5

LEMMA SendingKeeps ==
  ASSUME SurfaceInv, SendPointer \/ SendOther \/ SendHuman
  PROVE  SurfaceInv'
<1>1. CASE SendPointer
  <2>1. call.pc = "pointer"
    BY <1>1 DEF SendPointer
  <2>2. call.op = "execute"
    BY <2>1, CallGoesOn DEF Places, Lookups
  <2> DEFINE input == [how |-> "pointer", place |-> call.memo, target |-> call.arg.target]
             next == IF call.arg.kind = "click" THEN "idle" ELSE "keys"
  <2>3. Send(input, next)
    BY <1>1 DEF SendPointer
  <2>4. next \in {"idle", "keys"}
    OBVIOUS
  <2>5. input.how = "pointer" /\ input.target.how = "visual" =>
          \E p \in seen : Describes(input.target.candidate, Frame(p), input.place)
    BY <2>1 DEF SurfaceInv, Located
  <2> HIDE DEF input, next
  <2> QED BY <2>1, <2>2, <2>3, <2>4, <2>5, SendKeeps
<1>2. CASE SendOther
  <2>1. call.pc \in {"keys", "element", "wheel", "goto"} /\ Send([how |-> call.pc], "idle")
    BY <1>2 DEF SendOther
  <2>2. call.op = "execute"
    BY <2>1 DEF SurfaceInv, CallInv, Places, Lookups
  <2> DEFINE input == [how |-> call.pc]
  <2>3. input.how # "pointer" /\ Send(input, "idle")
    BY <2>1
  <2> HIDE DEF input
  <2> QED BY <2>1, <2>2, <2>3, SendKeeps
<1>3. CASE SendHuman
  <2>1. call.pc = "human" /\ call.pc \notin {"idle", "keys"}
    BY <1>3 DEF SendHuman
  <2>2. call.op = "human"
    BY <2>1, CallGoesOn DEF Places, Lookups
  <2>3. CASE Send([how |-> "human"], "idle")
    <3> DEFINE input == [how |-> "human"]
    <3>1. input.how # "pointer" /\ Send(input, "idle")
      BY <2>3
    <3> HIDE DEF input
    <3> QED BY <2>1, <2>2, <3>1, SendKeeps
  <2>4. CASE Answer(Error("pointer_out_of_bounds", FALSE, TRUE))
    BY <2>1, <2>2, <2>4, RefusalIsQuiet, QuietKeeps
  <2> QED BY <1>3, <2>3, <2>4 DEF SendHuman
<1> QED BY <1>1, <1>2, <1>3

LEMMA LookupBegins ==
  ASSUME SurfaceInv, NEW op \in {"resolve", "element"}, NEW arg, arg.bundle \in Bundles,
         BeginLookup(op, arg)
  PROVE  SurfaceInv'
<1>1. PICK stage, failures : stage \in {"look", "dom"} /\ Begin(op, arg, stage, failures)
  BY DEF BeginLookup
<1>2. <<op, stage>> \in Places /\ stage \in Starts
  BY <1>1 DEF Places, Lookups, Starts
<1> QED BY <1>1, <1>2, BeginKeeps

LEMMA BeginningKeeps ==
  ASSUME SurfaceInv,
         Resolve \/ Evaluate \/ Execute \/ HumanInput \/ Extract \/ CaptureLocator \/ Observe
  PROVE  SurfaceInv'
<1>1. CASE Resolve
  <2>1. PICK arg : arg.bundle \in Bundles /\ BeginLookup("resolve", arg)
    BY <1>1 DEF Resolve
  <2> QED BY <2>1, LookupBegins
<1>2. CASE Evaluate
  <2>1. CASE \E arg : arg.bundle \in Bundles /\ BeginLookup("element", arg)
    BY <2>1, LookupBegins
  <2>2. CASE \E arg : Begin("text", arg, "text", {})
    BY <2>2, BeginKeeps DEF Places, Starts
  <2> QED BY <1>2, <2>1, <2>2 DEF Evaluate
<1>3. CASE Execute
  <2>1. PICK kind \in ActionKinds, target \in targets \cup {NoTarget, StaleTarget}, known \in BOOLEAN :
          Begin("execute", [kind |-> kind, target |-> target, known |-> known], "prepare", {})
    BY <1>3 DEF Execute
  <2> DEFINE arg == [kind |-> kind, target |-> target, known |-> known]
  <2>2. arg.kind \in ActionKinds /\ (arg.target \in {NoTarget, StaleTarget} \/ IsTarget(arg.target))
    BY DEF SurfaceInv, TargetsInv
  <2>3. Begin("execute", arg, "prepare", {})
    BY <2>1
  <2> HIDE DEF arg
  <2> QED BY <2>2, <2>3, BeginKeeps DEF Places, Starts
<1>4. CASE HumanInput
  <2>1. PICK arg : Begin("human", arg, "human", {})
    BY <1>4 DEF HumanInput
  <2> QED BY <2>1, BeginKeeps DEF Places, Starts
<1>5. CASE Extract
  <2>1. PICK target \in targets \cup {StaleTarget} : Begin("extract", [target |-> target], "extract", {})
    BY <1>5 DEF Extract
  <2>2. target.how = "stale" \/ IsTarget(target)
    BY DEF SurfaceInv, TargetsInv, StaleTarget
  <2> QED BY <2>1, <2>2, BeginKeeps DEF Places, Starts
<1>6. CASE CaptureLocator
  <2>1. PICK target \in targets \cup {StaleTarget} : Begin("capture", [target |-> target], "capture", {})
    BY <1>6 DEF CaptureLocator
  <2>2. target.how = "stale" \/ IsTarget(target)
    BY DEF SurfaceInv, TargetsInv, StaleTarget
  <2> QED BY <2>1, <2>2, BeginKeeps DEF Places, Starts
<1>7. CASE Observe
  BY <1>7, BeginKeeps DEF Observe, Places, Starts
<1> QED BY <1>1, <1>2, <1>3, <1>4, <1>5, <1>6, <1>7

\* The page changes by itself; what was seen before stays seen.
LEMMA PageChangesKeeps ==
  ASSUME SurfaceInv, PageChanges
  PROVE  SurfaceInv'
<1>1. /\ page' \in Pages /\ seen' = seen \cup {page'}
      /\ UNCHANGED <<mode, call, targets, sent, answer>>
  BY DEF PageChanges
<1>2. SeenInv' /\ TargetsInv'
  BY <1>1 DEF SurfaceInv, SeenInv, TargetsInv
<1>3. CallInv'
  BY <1>1 DEF SurfaceInv, CallInv, ArgumentInv
<1>4. Located'
  BY <1>1 DEF SurfaceInv, Located, Candidate
<1>5. AbsentMeansUndone' /\ AimedAtTheTarget' /\ ReadsWhatItLocated'
  BY <1>1 DEF SurfaceInv, AbsentMeansUndone, AimedAtTheTarget, ReadsWhatItLocated
<1> QED BY <1>2, <1>3, <1>4, <1>5 DEF SurfaceInv

LEMMA UnchangedKeeps ==
  ASSUME SurfaceInv, UNCHANGED surfaceVars
  PROVE  SurfaceInv'
<1>1. SeenInv' /\ TargetsInv' /\ CallInv' /\ Located'
  BY DEF SurfaceInv, surfaceVars, SeenInv, TargetsInv, CallInv, ArgumentInv, Located, Candidate
<1>2. AbsentMeansUndone' /\ AimedAtTheTarget' /\ ReadsWhatItLocated'
  BY DEF SurfaceInv, surfaceVars, AbsentMeansUndone, AimedAtTheTarget, ReadsWhatItLocated
<1> QED BY <1>1, <1>2 DEF SurfaceInv

\* The invariant the properties of a surface follow from: what a call goes by was
\* true of a page it has seen, and it has sent nothing it does not know of.
THEOREM SurfaceInductive == SurfaceSpec => []SurfaceInv
<1>1. SurfaceInit => SurfaceInv
  BY DEF SurfaceInit, SurfaceInv, SeenInv, TargetsInv, CallInv, Located, AbsentMeansUndone,
         AimedAtTheTarget, ReadsWhatItLocated, Idle, NoAnswer
<1>2. SurfaceInv /\ [SurfaceNext]_surfaceVars => SurfaceInv'
  <2> SUFFICES ASSUME SurfaceInv, [SurfaceNext]_surfaceVars PROVE SurfaceInv'
    OBVIOUS
  <2>1. CASE \/ Look \/ TryCandidate \/ CountMatches \/ CheckState \/ ReadElement \/ ReadText
             \/ Prepare \/ ReadTarget \/ Describe \/ ReadRoute \/ ReadLandmarks \/ ReadTokens
    <3>1. call.pc \notin {"idle", "keys"}
      BY <2>1 DEF Look, TryCandidate, CountMatches, CheckState, ReadElement, ReadText, Prepare,
                  ReadTarget, Describe, ReadRoute, ReadLandmarks, ReadTokens
    <3>2. Quiet
      BY <2>1, LookIsQuiet, TryCandidateIsQuiet, CountMatchesIsQuiet, CheckStateIsQuiet,
         ReadElementIsQuiet, ReadTextIsQuiet, PrepareIsQuiet, ReadTargetIsQuiet, DescribeIsQuiet,
         ObservingIsQuiet
    <3> QED BY <3>1, <3>2, QuietKeeps
  <2>2. CASE SendPointer \/ SendOther \/ SendHuman
    BY <2>2, SendingKeeps
  <2>3. CASE Resolve \/ Evaluate \/ Execute \/ HumanInput \/ Extract \/ CaptureLocator \/ Observe
    BY <2>3, BeginningKeeps
  <2>4. CASE PageChanges \/ UNCHANGED surfaceVars
    BY <2>4, PageChangesKeeps, UnchangedKeeps
  <2> QED BY <2>1, <2>2, <2>3, <2>4 DEF SurfaceNext
<1> QED BY <1>1, <1>2, PTL DEF SurfaceSpec

\* AbsentMeansUndone: an error that says the effect is absent follows no input
\* that took effect, and one of a condition or an observation never both says so
\* and offers a retry.
THEOREM AbsentErrorsFollowNoInput == SurfaceSpec => []AbsentMeansUndone
<1>1. SurfaceInv => AbsentMeansUndone
  BY DEF SurfaceInv
<1> QED BY <1>1, SurfaceInductive, PTL

\* AimedAtTheTarget: a pointer is sent, and a target is handed out, only where a
\* page shown during the call shows what the target describes, and nothing else
\* that it could mean; the page itself may have changed since.
THEOREM InputsAreAimed == SurfaceSpec => []AimedAtTheTarget
<1>1. SurfaceInv => AimedAtTheTarget
  BY DEF SurfaceInv
<1> QED BY <1>1, SurfaceInductive, PTL

\* ReadsWhatItLocated: a text that extract returns was shown during the call, at
\* a component that the target describes.
THEOREM TextsAreLocated == SurfaceSpec => []ReadsWhatItLocated
<1>1. SurfaceInv => ReadsWhatItLocated
  BY DEF SurfaceInv
<1> QED BY <1>1, SurfaceInductive, PTL
==============================================================================
