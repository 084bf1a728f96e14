------------------------ MODULE SessionHandoffProofs ------------------------
(***************************************************************************)
(* Proofs about SessionHandoff, for any runs, request threads and number   *)
(* of pauses.                                                              *)
(***************************************************************************)
EXTENDS SessionHandoff, FiniteSetTheorems, TLAPS

Busy == {"run", "opened", "retain", "paused", "ended"}  \* the engine has the worker

\* A request thread is at one of these stages with intervention i.
On(q, stages, i) == request[q] # None /\ request[q].stage \in stages /\ request[q].id = i

\* The pauses of a run are numbered as they are opened.
Numbered ==
  \A r \in Runs : /\ Pauses(r) \in 0..MaxPauses
                  /\ \A n \in 1..MaxPauses : status[<<r, n>>] # "unrouted" <=> n <= Pauses(r)

Threads ==
  /\ \A q \in Requests : holder = q <=> At(q, "touch")
  /\ server # "up" => \A q \in Requests : request[q] = None
  /\ server \in {"closing", "down"} => \A r \in Runs : caller[r] \in {"fresh", "returned"}
  /\ \A r \in Runs :
       /\ caller[r] = "fresh" => worker[r] = "none" /\ Pauses(r) = 0
       /\ caller[r] = "executing" => worker[r] \in Busy
       /\ caller[r] = "waiting" => r \in Discoveries
       /\ worker[r] \in {"opened", "retain", "paused"} => Pauses(r) > 0
       /\ worker[r] = "retain" => r \in Replays

\* One registration per run, of a browser that waits for an operator, is in the hands
\* of the request that resumed it, or was left behind by one.
Registered ==
  /\ waits = {i \in live : Run(i) \in Discoveries}
  /\ \A r \in Runs, i \in live : Run(i) = r =>
       /\ status[i] # "unrouted"
       /\ worker[r] \in Busy \cup {"idle"}
       /\ caller[r] = IF r \in Replays THEN "returned" ELSE "waiting"
       /\ worker[r] = "idle" => i = Latest(r)
       /\ worker[r] # "idle" => \/ \E q \in Requests : On(q, {"running"}, i)
                                \/ worker[r] = "ended" /\ status[i] = "resolved" /\ r \in Replays
       /\ \A j \in live : Run(j) = r => j = i

\* What each operation may rely on at each of its stages.
Settling == {"validate", "reopen", "complete"}
Resuming == {"resume", "running"}
Waking == {"signal", "cancel"}

Relies ==
  \A q \in Requests, i \in Ids :
    /\ On(q, {"touch"}, i) => status[i] = "claimed" /\ i \in live /\ worker[Run(i)] = "idle"
    /\ On(q, Settling, i) => status[i] = "resuming"
    /\ On(q, {"validate", "complete"}, i) => i \in live /\ i \in continuations \cup waits
    /\ On(q, Resuming, i) => status[i] = "resolved" /\ i \in live /\ Run(i) \in Replays
    /\ On(q, {"resume"}, i) => worker[Run(i)] = "idle"
    /\ On(q, {"running"}, i) => worker[Run(i)] \in Busy
    /\ On(q, {"signal"}, i) => status[i] = "resolved" /\ i \in waits /\ signal[Run(i)] = "unset"
    /\ On(q, {"cancel"}, i) => caller[Run(i)] = "waiting" /\ signal[Run(i)] = "unset"
    /\ On(q, {"close"}, i) => caller[Run(i)] = "returned"
    /\ On(q, {"cancel", "close"}, i) => \A j \in live : Run(j) # Run(i)

\* No two operations settle, resume or wake the same thing.
Alone ==
  \A p, q \in Requests, i, j \in Ids :
    /\ On(p, Settling, i) /\ On(q, Settling, i) => p = q
    /\ On(p, Resuming, i) /\ On(q, Resuming, j) /\ Run(i) = Run(j) => p = q
    /\ On(p, Waking, i) /\ On(q, Waking, j) /\ Run(i) = Run(j) => p = q

Signals ==
  /\ \A r \in Runs : signal[r] = "resume" => /\ Latest(r) \in waits
                                             /\ status[Latest(r)] = "resolved"
  /\ server = "up" => \A i \in waits : signal[Run(i)] \in {"unset", "resume"}

IInv ==
  /\ TypeOK /\ Numbered /\ Threads /\ Registered /\ Relies /\ Alone /\ Signals
  /\ RunsOnlyWhenResolved
------------------------------------------------------------------------------
(* Lemmas about identifiers, pauses and operations *)

\* An intervention is a run with a number.
LEMMA Identifiers ==
  /\ \A i \in Ids : Run(i) \in Runs /\ \E n \in 1..MaxPauses : i = <<Run(i), n>>
  /\ \A r \in Runs, n \in 1..MaxPauses : <<r, n>> \in Ids /\ Run(<<r, n>>) = r
BY DEF Ids, Run

LEMMA LatestOfRun == \A r \in Runs : Run(Latest(r)) = r
BY DEF Run, Latest

LEMMA LatestIsRouted ==
  ASSUME TypeOK, Numbered, NEW r \in Runs, Pauses(r) > 0
  PROVE  Latest(r) \in Ids /\ Run(Latest(r)) = r /\ status[Latest(r)] # "unrouted"
<1>1. Pauses(r) \in 1..MaxPauses
  BY MaxPausesAssumption DEF Numbered
<1> QED
  BY <1>1, Identifiers DEF Numbered, Latest

\* While no request holds the lock, none is on a browser.
LEMMA FreeBrowsers ==
  ASSUME IInv, Free
  PROVE  \A q \in Requests : request[q] # None => request[q].stage # "touch"
BY KindsAssumption DEF IInv, Threads, At, Free

\* A registered session is in the hands of the request that resumed it, or idle.
LEMMA IdleOrResumed ==
  ASSUME IInv, NEW i \in live, status[i] # "resolved"
  PROVE  worker[Run(i)] = "idle" /\ i = Latest(Run(i))
<1> DEFINE r == Run(i)
<1>1. i \in Ids /\ r \in Runs
  BY Identifiers DEF IInv, TypeOK
<1>2. ~\E q \in Requests : On(q, {"running"}, i)
  BY <1>1 DEF IInv, Relies, On, Resuming
<1>3. worker[r] = "idle" /\ i = Latest(r)
  BY <1>1, <1>2 DEF IInv, Registered
<1> QED
  BY <1>3

\* Only RunPauses opens an intervention.
LEMMA PausesStay ==
  ASSUME \A i \in Ids : status'[i] = "unrouted" <=> status[i] = "unrouted"
  PROVE  \A s \in Runs : Pauses(s)' = Pauses(s) /\ Latest(s)' = Latest(s)
<1> SUFFICES ASSUME NEW r \in Runs
             PROVE  Pauses(r)' = Pauses(r) /\ Latest(r)' = Latest(r)
  OBVIOUS
<1>1. {n \in 1..MaxPauses : status'[<<r, n>>] # "unrouted"}
        = {n \in 1..MaxPauses : status[<<r, n>>] # "unrouted"}
  BY Identifiers
<1> QED
  BY <1>1 DEF Pauses, Latest

LEMMA NumberedStays ==
  ASSUME Numbered, \A i \in Ids : status'[i] = "unrouted" <=> status[i] = "unrouted"
  PROVE  Numbered'
BY PausesStay, Identifiers DEF Numbered

LEMMA AtOn ==
  ASSUME TypeOK, NEW q \in Requests, NEW stage, At(q, stage)
  PROVE  request[q].id \in Ids /\ request[q].stage = stage /\ request[q] # None
BY DEF TypeOK, At, Operations

\* A request thread moves on to a stage, or is done.
LEMMA Moves ==
  ASSUME TypeOK, NEW q \in Requests, NEW stage \in Stages, NEW i \in Ids, Go(q, stage, i)
  PROVE  /\ request' \in [Requests -> Operations \cup {None}]
         /\ request'[q] # None /\ request'[q].stage = stage /\ request'[q].id = i
         /\ \A p \in Requests : p # q => request'[p] = request[p]
BY OperationsAssumption DEF Go, TypeOK, Operations

LEMMA Finishes ==
  ASSUME TypeOK, NEW q \in Requests, Done(q)
  PROVE  /\ request' \in [Requests -> Operations \cup {None}]
         /\ request'[q] = None
         /\ \A p \in Requests : p # q => request'[p] = request[p]
BY DEF Done, TypeOK

\* A pause takes the next number of its run.
LEMMA Opens ==
  ASSUME TypeOK, Numbered, NEW r \in Runs, Pauses(r) < MaxPauses,
         status' = [status EXCEPT ![<<r, Pauses(r) + 1>>] = "open"]
  PROVE  /\ <<r, Pauses(r) + 1>> \in Ids /\ status[<<r, Pauses(r) + 1>>] = "unrouted"
         /\ \A i \in Ids : status'[i] = IF i = <<r, Pauses(r) + 1>> THEN "open" ELSE status[i]
         /\ \A s \in Runs : Pauses(s)' = IF s = r THEN Pauses(r) + 1 ELSE Pauses(s)
         /\ Latest(r)' = <<r, Pauses(r) + 1>>
<1> DEFINE k == Pauses(r) + 1
<1>1. k \in 1..MaxPauses /\ Pauses(r) \in Nat
  BY MaxPausesAssumption DEF Numbered
<1>2. <<r, k>> \in Ids /\ status[<<r, k>>] = "unrouted"
  BY <1>1, Identifiers DEF Numbered
<1>3. \A i \in Ids : status'[i] = IF i = <<r, k>> THEN "open" ELSE status[i]
  BY <1>2 DEF TypeOK
<1>4. ASSUME NEW s \in Runs
      PROVE  Pauses(s)' = IF s = r THEN k ELSE Pauses(s)
  <2> DEFINE N(x) == {n \in 1..MaxPauses : status[<<x, n>>] # "unrouted"}
  <2>1. CASE s # r
    <3>1. N(s)' = N(s)
      BY <1>3, <2>1, Identifiers
    <3> QED
      BY <2>1, <3>1 DEF Pauses
  <2>2. CASE s = r
    <3>1. N(r)' = N(r) \cup {k} /\ k \notin N(r)
      BY <1>1, <1>2, <1>3, Identifiers
    <3>2. IsFiniteSet(N(r))
      <4>1. IsFiniteSet(1..MaxPauses)
        BY MaxPausesAssumption, FS_Interval
      <4> QED
        BY <4>1, FS_Subset
    <3>3. Cardinality(N(r) \cup {k}) = Cardinality(N(r)) + 1
      BY <3>1, <3>2, FS_AddElement
    <3> QED
      BY <2>2, <3>1, <3>3 DEF Pauses
  <2> QED
    BY <2>1, <2>2
<1> QED
  BY <1>2, <1>3, <1>4 DEF Latest

LEMMA InitInv == Init => IInv
<1> SUFFICES ASSUME Init
             PROVE  IInv
  OBVIOUS
<1>1. TypeOK
  BY DEF Init, TypeOK
<1>2. \A r \in Runs : Pauses(r) = 0
  <2>1. \A r \in Runs : {n \in 1..MaxPauses : status[<<r, n>>] # "unrouted"} = {}
    BY Identifiers DEF Init
  <2> QED
    BY <2>1, FS_EmptySet DEF Pauses
<1>3. Numbered
  BY <1>2, Identifiers, MaxPausesAssumption DEF Init, Numbered
<1>4. Threads
  BY <1>2, KindsAssumption DEF Init, Threads, At
<1>5. Registered /\ Relies /\ Alone /\ Signals /\ RunsOnlyWhenResolved
  BY <1>2 DEF Init, Registered, Relies, Alone, On, Signals, RunsOnlyWhenResolved
<1> QED
  BY <1>1, <1>3, <1>4, <1>5 DEF IInv
------------------------------------------------------------------------------
(* One lemma per action *)

\* The engine has the worker before and after.
LEMMA RunEndsKeeps ==
  ASSUME IInv, NEW r \in Runs, RunEnds(r)
  PROVE  IInv'
<1> USE DEF IInv
<1>1. /\ worker[r] = "run" /\ worker' = [worker EXCEPT ![r] = "ended"]
      /\ UNCHANGED <<server, caller, status, expired, live, continuations, waits, corrected, signal, holder, request>>
  BY DEF RunEnds, registries
<1>2. worker' \in [Runs -> {"none", "run", "opened", "retain", "paused", "idle", "ended", "closed"}] /\ \A s \in Runs : worker'[s] = IF s = r THEN "ended" ELSE worker[s]
  BY <1>1 DEF TypeOK
<1>3. \A s \in Runs : Pauses(s)' = Pauses(s) /\ Latest(s)' = Latest(s)
  BY <1>1, <1>2, PausesStay
<1>4. Numbered'
  BY <1>1, <1>2, NumberedStays
<1>5. TypeOK'
  BY <1>1, <1>2, <1>3, Identifiers DEF TypeOK
<1>6. Threads'
  BY <1>1, <1>2, <1>3, Identifiers DEF Threads, On, At, Waking, Busy
<1>7. Registered'
  BY <1>1, <1>2, <1>3, Identifiers DEF Registered, On, At, Waking, Busy
<1>8. Relies'
  BY <1>1, <1>2, <1>3, Identifiers DEF Relies, Registered, On, At, Waking, Busy
<1>9. Alone'
  BY <1>1, <1>2, <1>3, Identifiers DEF Alone, Registered, Relies, On
<1>10. Signals'
  BY <1>1, <1>2, <1>3, LatestIsRouted, Identifiers DEF Signals, Registered, TypeOK
<1>11. RunsOnlyWhenResolved'
  BY <1>1, <1>2, <1>3, LatestIsRouted, Identifiers DEF RunsOnlyWhenResolved
<1> QED
  BY <1>4, <1>5, <1>6, <1>7, <1>8, <1>9, <1>10, <1>11

\* A pause that is recorded, or fails to be, leaves the worker with the engine.
LEMMA PauseRecordedKeeps ==
  ASSUME IInv, NEW r \in Runs, PauseRecorded(r)
  PROVE  IInv'
<1> USE DEF IInv
<1>1. /\ worker[r] = "opened" /\ worker' = [worker EXCEPT ![r] = (IF r \in Replays THEN "retain" ELSE "paused")]
      /\ UNCHANGED <<server, caller, status, expired, live, continuations, waits, corrected, signal, holder, request>>
  BY DEF PauseRecorded, registries
<1>2. worker' \in [Runs -> {"none", "run", "opened", "retain", "paused", "idle", "ended", "closed"}] /\ \A s \in Runs : worker'[s] = IF s = r THEN (IF r \in Replays THEN "retain" ELSE "paused") ELSE worker[s]
  BY <1>1 DEF TypeOK
<1>3. \A s \in Runs : Pauses(s)' = Pauses(s) /\ Latest(s)' = Latest(s)
  BY <1>1, <1>2, PausesStay
<1>4. Numbered'
  BY <1>1, <1>2, NumberedStays
<1>5. TypeOK'
  BY <1>1, <1>2, <1>3, Identifiers DEF TypeOK
<1>6. Threads'
  BY <1>1, <1>2, <1>3, Identifiers DEF Threads, On, At, Waking, Busy
<1>7. Registered'
  BY <1>1, <1>2, <1>3, Identifiers DEF Registered, On, At, Waking, Busy
<1>8. Relies'
  BY <1>1, <1>2, <1>3, Identifiers DEF Relies, Registered, On, At, Waking, Busy
<1>9. Alone'
  BY <1>1, <1>2, <1>3, Identifiers DEF Alone, Registered, Relies, On
<1>10. Signals'
  BY <1>1, <1>2, <1>3, LatestIsRouted, Identifiers DEF Signals, Registered, TypeOK
<1>11. RunsOnlyWhenResolved'
  BY <1>1, <1>2, <1>3, LatestIsRouted, Identifiers DEF RunsOnlyWhenResolved
<1> QED
  BY <1>4, <1>5, <1>6, <1>7, <1>8, <1>9, <1>10, <1>11

LEMMA PauseFailsKeeps ==
  ASSUME IInv, NEW r \in Runs, PauseFails(r)
  PROVE  IInv'
<1> USE DEF IInv
<1>1. /\ worker[r] = "opened" /\ worker' = [worker EXCEPT ![r] = "ended"]
      /\ UNCHANGED <<server, caller, status, expired, live, continuations, waits, corrected, signal, holder, request>>
  BY DEF PauseFails, registries
<1>2. worker' \in [Runs -> {"none", "run", "opened", "retain", "paused", "idle", "ended", "closed"}] /\ \A s \in Runs : worker'[s] = IF s = r THEN "ended" ELSE worker[s]
  BY <1>1 DEF TypeOK
<1>3. \A s \in Runs : Pauses(s)' = Pauses(s) /\ Latest(s)' = Latest(s)
  BY <1>1, <1>2, PausesStay
<1>4. Numbered'
  BY <1>1, <1>2, NumberedStays
<1>5. TypeOK'
  BY <1>1, <1>2, <1>3, Identifiers DEF TypeOK
<1>6. Threads'
  BY <1>1, <1>2, <1>3, Identifiers DEF Threads, On, At, Waking, Busy
<1>7. Registered'
  BY <1>1, <1>2, <1>3, Identifiers DEF Registered, On, At, Waking, Busy
<1>8. Relies'
  BY <1>1, <1>2, <1>3, Identifiers DEF Relies, Registered, On, At, Waking, Busy
<1>9. Alone'
  BY <1>1, <1>2, <1>3, Identifiers DEF Alone, Registered, Relies, On
<1>10. Signals'
  BY <1>1, <1>2, <1>3, LatestIsRouted, Identifiers DEF Signals, Registered, TypeOK
<1>11. RunsOnlyWhenResolved'
  BY <1>1, <1>2, <1>3, LatestIsRouted, Identifiers DEF RunsOnlyWhenResolved
<1> QED
  BY <1>4, <1>5, <1>6, <1>7, <1>8, <1>9, <1>10, <1>11

LEMMA RetainContinuationKeeps ==
  ASSUME IInv, NEW r \in Runs, RetainContinuation(r)
  PROVE  IInv'
<1> USE DEF IInv
<1>1. /\ worker[r] = "retain" /\ worker' = [worker EXCEPT ![r] = "paused"]
      /\ continuations' = continuations \cup {Latest(r)}
      /\ UNCHANGED <<server, caller, status, expired, live, waits, corrected, signal, holder, request>>
  BY DEF RetainContinuation
<1>2. /\ worker' \in [Runs -> {"none", "run", "opened", "retain", "paused", "idle", "ended", "closed"}]
      /\ \A s \in Runs : worker'[s] = IF s = r THEN "paused" ELSE worker[s]
  BY <1>1 DEF TypeOK
<1>3. Latest(r) \in Ids /\ Run(Latest(r)) = r /\ status[Latest(r)] # "unrouted" /\ r \in Replays
  BY <1>1, LatestIsRouted DEF Threads
<1>4. \A s \in Runs : Pauses(s)' = Pauses(s) /\ Latest(s)' = Latest(s)
  BY <1>1, <1>2, <1>3, PausesStay
<1>5. Numbered'
  BY <1>1, <1>2, <1>3, NumberedStays
<1>6. TypeOK'
  BY <1>1, <1>2, <1>3, <1>4, Identifiers DEF TypeOK
<1>7. Threads'
  BY <1>1, <1>2, <1>3, <1>4, Identifiers DEF Threads, On, At, Waking, Busy
<1>8. Registered'
  BY <1>1, <1>2, <1>3, <1>4, Identifiers DEF Registered, On, At, Waking, Busy
<1>9. Relies'
  BY <1>1, <1>2, <1>3, <1>4, Identifiers DEF Relies, Registered, On, Busy
<1>10. Alone'
  BY <1>1, <1>2, <1>3, <1>4, Identifiers DEF Alone, Registered, Relies, On
<1>11. Signals'
  BY <1>1, <1>2, <1>3, <1>4, Identifiers DEF Signals, Registered, TypeOK
<1>12. RunsOnlyWhenResolved'
  BY <1>1, <1>2, <1>3, <1>4, LatestIsRouted, Identifiers DEF RunsOnlyWhenResolved
<1> QED
  BY <1>5, <1>6, <1>7, <1>8, <1>9, <1>10, <1>11, <1>12

\* A run begins without a pause, a registration or a request.
LEMMA CallerExecutesKeeps ==
  ASSUME IInv, NEW r \in Runs, CallerExecutes(r)
  PROVE  IInv'
<1> USE DEF IInv
<1>1. /\ caller[r] = "fresh" /\ server = "up"
      /\ worker' = [worker EXCEPT ![r] = "run"] /\ caller' = [caller EXCEPT ![r] = "executing"]
      /\ UNCHANGED <<server, status, expired, live, continuations, waits, corrected, signal, holder, request>>
  BY DEF CallerExecutes, registries
<1>2. /\ worker' \in [Runs -> {"none", "run", "opened", "retain", "paused", "idle", "ended", "closed"}]
      /\ \A s \in Runs : worker'[s] = IF s = r THEN "run" ELSE worker[s]
  BY <1>1 DEF TypeOK
<1>3. /\ caller' \in [Runs -> {"fresh", "executing", "waiting", "returned"}]
      /\ \A s \in Runs : caller'[s] = IF s = r THEN "executing" ELSE caller[s]
  BY <1>1 DEF TypeOK
<1>4. (\A i \in live : Run(i) # r) /\ worker[r] = "none" /\ Pauses(r) = 0
  BY <1>1 DEF Registered, Threads
<1>5. \A s \in Runs : Pauses(s)' = Pauses(s) /\ Latest(s)' = Latest(s)
  BY <1>1, <1>2, <1>3, <1>4, PausesStay
<1>6. Numbered'
  BY <1>1, <1>2, <1>3, <1>4, NumberedStays
<1>7. TypeOK'
  BY <1>1, <1>2, <1>3, <1>4, <1>5, Identifiers DEF TypeOK
<1>8. Threads'
  BY <1>1, <1>2, <1>3, <1>4, <1>5, Identifiers DEF Threads, On, At, Waking, Busy
<1>9. Registered'
  BY <1>1, <1>2, <1>3, <1>4, <1>5, Identifiers DEF Registered, On
<1>10. Relies'
  BY <1>1, <1>2, <1>3, <1>4, <1>5, Identifiers DEF Relies, Registered, On, Resuming
<1>11. Alone'
  BY <1>1, <1>2, <1>3, <1>4, <1>5, Identifiers DEF Alone, Registered, Relies, On
<1>12. Signals'
  BY <1>1, <1>2, <1>3, <1>4, <1>5, Identifiers DEF Signals, Registered, TypeOK
<1>13. RunsOnlyWhenResolved'
  BY <1>1, <1>2, <1>4, <1>5 DEF RunsOnlyWhenResolved
<1> QED
  BY <1>6, <1>7, <1>8, <1>9, <1>10, <1>11, <1>12, <1>13

\* While its caller executes it, a run is not registered.
LEMMA ReplayRegistersKeeps ==
  ASSUME IInv, NEW r \in Runs, ReplayRegisters(r)
  PROVE  IInv'
<1> USE DEF IInv
<1>1. /\ r \in Replays /\ caller[r] = "executing" /\ worker[r] = "paused"
      /\ live' = live \cup {Latest(r)}
      /\ worker' = [worker EXCEPT ![r] = "idle"] /\ caller' = [caller EXCEPT ![r] = "returned"]
      /\ UNCHANGED <<server, status, expired, continuations, waits, corrected, signal, holder, request>>
  BY DEF ReplayRegisters
<1>2. /\ worker' \in [Runs -> {"none", "run", "opened", "retain", "paused", "idle", "ended", "closed"}]
      /\ \A s \in Runs : worker'[s] = IF s = r THEN "idle" ELSE worker[s]
  BY <1>1 DEF TypeOK
<1>3. /\ caller' \in [Runs -> {"fresh", "executing", "waiting", "returned"}]
      /\ \A s \in Runs : caller'[s] = IF s = r THEN "returned" ELSE caller[s]
  BY <1>1 DEF TypeOK
<1>4. (\A i \in live : Run(i) # r) /\ r \notin Discoveries
  BY <1>1, KindsAssumption DEF Registered
<1>5. Latest(r) \in Ids /\ Run(Latest(r)) = r /\ status[Latest(r)] # "unrouted"
  BY <1>1, LatestIsRouted DEF Threads
<1>6. \A s \in Runs : Pauses(s)' = Pauses(s) /\ Latest(s)' = Latest(s)
  BY <1>1, <1>2, <1>3, <1>4, <1>5, PausesStay
<1>7. Numbered'
  BY <1>1, <1>2, <1>3, <1>4, <1>5, NumberedStays
<1>8. TypeOK'
  BY <1>1, <1>2, <1>3, <1>4, <1>5, <1>6, Identifiers DEF TypeOK
<1>9. Threads'
  BY <1>1, <1>2, <1>3, <1>4, <1>5, <1>6 DEF Threads, On, At, Waking, Busy
<1>10. Registered'
  <2>1. waits' = {i \in live' : Run(i) \in Discoveries}
    BY <1>1, <1>4, <1>5 DEF Registered
  <2>2. ASSUME NEW s \in Runs, NEW i \in live', Run(i) = s
        PROVE  /\ status'[i] # "unrouted"
               /\ worker'[s] \in Busy \cup {"idle"}
               /\ caller'[s] = IF s \in Replays THEN "returned" ELSE "waiting"
               /\ worker'[s] = "idle" => i = Latest(s)'
               /\ worker'[s] # "idle" =>
                    \/ \E q \in Requests : On(q, {"running"}, i)'
                    \/ worker'[s] = "ended" /\ status'[i] = "resolved" /\ s \in Replays
               /\ \A j \in live' : Run(j) = s => j = i
    <3>1. CASE s = r
      BY <1>1, <1>2, <1>3, <1>4, <1>5, <1>6, <2>2, <3>1
    <3>2. CASE s # r
      BY <1>1, <1>2, <1>3, <1>4, <1>5, <1>6, <2>2, <3>2 DEF Registered, On
    <3> QED
      BY <3>1, <3>2
  <2> QED
    BY <2>1, <2>2 DEF Registered
<1>11. Relies'
  BY <1>1, <1>2, <1>3, <1>4, <1>5, <1>6 DEF Relies, Registered, On, Resuming
<1>12. Alone'
  BY <1>1, <1>2, <1>3, <1>4, <1>5, <1>6 DEF Alone, Registered, Relies, On
<1>13. Signals'
  BY <1>1, <1>2, <1>3, <1>4, <1>5, <1>6, Identifiers DEF Signals, Registered, TypeOK
<1>14. RunsOnlyWhenResolved'
  BY <1>1, <1>2, <1>3, <1>4, <1>5, <1>6, Identifiers DEF RunsOnlyWhenResolved
<1> QED
  BY <1>7, <1>8, <1>9, <1>10, <1>11, <1>12, <1>13, <1>14

LEMMA DiscoveryWaitsKeeps ==
  ASSUME IInv, NEW r \in Runs, DiscoveryWaits(r)
  PROVE  IInv'
<1> USE DEF IInv
<1>1. /\ r \in Discoveries /\ caller[r] = "executing" /\ worker[r] = "paused"
      /\ live' = live \cup {Latest(r)} /\ waits' = waits \cup {Latest(r)}
      /\ signal' = [signal EXCEPT ![r] = IF server = "up" THEN "unset" ELSE "cancel"]
      /\ worker' = [worker EXCEPT ![r] = "idle"] /\ caller' = [caller EXCEPT ![r] = "waiting"]
      /\ UNCHANGED <<server, status, expired, continuations, corrected, holder, request>>
  BY DEF DiscoveryWaits
<1>2. /\ worker' \in [Runs -> {"none", "run", "opened", "retain", "paused", "idle", "ended", "closed"}]
      /\ \A s \in Runs : worker'[s] = IF s = r THEN "idle" ELSE worker[s]
  BY <1>1 DEF TypeOK
<1>3. /\ caller' \in [Runs -> {"fresh", "executing", "waiting", "returned"}]
      /\ \A s \in Runs : caller'[s] = IF s = r THEN "waiting" ELSE caller[s]
  BY <1>1 DEF TypeOK
<1>4. /\ signal' \in [Runs -> {"none", "unset", "resume", "cancel"}]
      /\ \A s \in Runs : signal'[s] = IF s = r THEN (IF server = "up" THEN "unset" ELSE "cancel") ELSE signal[s]
  BY <1>1 DEF TypeOK
<1>5. (\A i \in live : Run(i) # r) /\ r \notin Replays
  BY <1>1, KindsAssumption DEF Registered
<1>6. Latest(r) \in Ids /\ Run(Latest(r)) = r /\ status[Latest(r)] # "unrouted"
  BY <1>1, LatestIsRouted DEF Threads
<1>7. \A s \in Runs : Pauses(s)' = Pauses(s) /\ Latest(s)' = Latest(s)
  BY <1>1, <1>2, <1>3, <1>4, <1>5, <1>6, PausesStay
<1>8. Numbered'
  BY <1>1, <1>2, <1>3, <1>4, <1>5, <1>6, NumberedStays
<1>9. TypeOK'
  BY <1>1, <1>2, <1>3, <1>4, <1>5, <1>6, <1>7, Identifiers DEF TypeOK
<1>10. Threads'
  BY <1>1, <1>2, <1>3, <1>4, <1>5, <1>6, <1>7 DEF Threads, On, At, Waking, Busy
<1>11. Registered'
  <2>1. waits' = {i \in live' : Run(i) \in Discoveries}
    BY <1>1, <1>5, <1>6 DEF Registered
  <2>2. ASSUME NEW s \in Runs, NEW i \in live', Run(i) = s
        PROVE  /\ status'[i] # "unrouted"
               /\ worker'[s] \in Busy \cup {"idle"}
               /\ caller'[s] = IF s \in Replays THEN "returned" ELSE "waiting"
               /\ worker'[s] = "idle" => i = Latest(s)'
               /\ worker'[s] # "idle" =>
                    \/ \E q \in Requests : On(q, {"running"}, i)'
                    \/ worker'[s] = "ended" /\ status'[i] = "resolved" /\ s \in Replays
               /\ \A j \in live' : Run(j) = s => j = i
    <3>1. CASE s = r
      BY <1>1, <1>2, <1>3, <1>5, <1>6, <1>7, <2>2, <3>1
    <3>2. CASE s # r
      BY <1>1, <1>2, <1>3, <1>5, <1>6, <1>7, <2>2, <3>2 DEF Registered, On
    <3> QED
      BY <3>1, <3>2
  <2> QED
    BY <2>1, <2>2 DEF Registered
<1>12. Relies'
  BY <1>1, <1>2, <1>3, <1>4, <1>5, <1>6, <1>7 DEF Relies, Registered, On, Resuming
<1>13. Alone'
  BY <1>1, <1>2, <1>3, <1>4, <1>5, <1>6, <1>7 DEF Alone, Registered, Relies, On
<1>14. Signals'
  BY <1>1, <1>2, <1>3, <1>4, <1>5, <1>6, <1>7 DEF Signals, Registered, TypeOK
<1>15. RunsOnlyWhenResolved'
  BY <1>1, <1>2, <1>3, <1>4, <1>5, <1>6, <1>7, Identifiers DEF RunsOnlyWhenResolved
<1> QED
  BY <1>8, <1>9, <1>10, <1>11, <1>12, <1>13, <1>14, <1>15

\* Who wakes the caller has left, or the server is stopping.
LEMMA DiscoveryWakesKeeps ==
  ASSUME IInv, NEW r \in Runs, DiscoveryWakes(r)
  PROVE  IInv'
<1> USE DEF IInv
<1>1. /\ caller[r] = "waiting" /\ signal[r] # "unset" /\ Free /\ worker[r] = "idle"
      /\ waits' = waits \ {Latest(r)} /\ live' = live \ {Latest(r)}
      /\ worker' = [worker EXCEPT ![r] = IF signal[r] = "resume" THEN "run" ELSE "ended"]
      /\ signal' = [signal EXCEPT ![r] = "none"] /\ caller' = [caller EXCEPT ![r] = "executing"]
      /\ UNCHANGED <<server, status, expired, continuations, corrected, holder, request>>
  BY DEF DiscoveryWakes
<1>2. /\ worker' \in [Runs -> {"none", "run", "opened", "retain", "paused", "idle", "ended", "closed"}]
      /\ \A s \in Runs : worker'[s] = IF s = r THEN (IF signal[r] = "resume" THEN "run" ELSE "ended") ELSE worker[s]
  BY <1>1 DEF TypeOK
<1>3. /\ caller' \in [Runs -> {"fresh", "executing", "waiting", "returned"}]
      /\ \A s \in Runs : caller'[s] = IF s = r THEN "executing" ELSE caller[s]
  BY <1>1 DEF TypeOK
<1>4. /\ signal' \in [Runs -> {"none", "unset", "resume", "cancel"}]
      /\ \A s \in Runs : signal'[s] = IF s = r THEN "none" ELSE signal[s]
  BY <1>1 DEF TypeOK
<1>5. /\ r \in Discoveries /\ r \notin Replays
      /\ \A i \in live : Run(i) = r <=> i = Latest(r)
      /\ \A i \in live : Run(i) = r => i \in waits
  <2>1. \A i \in live : Run(i) = r <=> i = Latest(r)
    BY <1>1, LatestOfRun DEF Registered
  <2>2. r \in Discoveries /\ r \notin Replays
    BY <1>1, KindsAssumption DEF Threads
  <2> QED
    BY <2>1, <2>2 DEF Registered
<1>6. \A q \in Requests : request[q] # None => Run(request[q].id) # r \/ request[q].stage \in {"reopen", "await"}
  <2> SUFFICES ASSUME NEW q \in Requests, request[q] # None, Run(request[q].id) = r
               PROVE  request[q].stage \in {"reopen", "await"}
    OBVIOUS
  <2>1. request[q].id \in Ids /\ request[q].stage \in Stages /\ server = "up"
    BY DEF TypeOK, Operations, Threads
  <2>2. request[q].stage # "touch"
    BY <1>1, FreeBrowsers
  <2>3. request[q].stage \notin {"validate", "complete"}
    <3> SUFFICES ASSUME request[q].stage \in {"validate", "complete"}
                 PROVE  FALSE
      OBVIOUS
    <3>1. status[request[q].id] = "resuming" /\ request[q].id \in live
      BY <2>1 DEF Relies, On, Settling
    <3>2. request[q].id = Latest(r) /\ Latest(r) \in waits
      BY <1>5, <3>1
    <3>3. signal[r] = "resume"
      BY <1>1, <2>1, <3>2 DEF Signals
    <3> QED
      BY <3>1, <3>2, <3>3 DEF Signals
  <2>4. request[q].stage \notin {"resume", "running", "signal", "cancel", "close"}
    BY <1>1, <1>5, <2>1 DEF Relies, On, Resuming
  <2> QED
    BY <2>1, <2>2, <2>3, <2>4 DEF Stages
<1>7. \A s \in Runs : Pauses(s)' = Pauses(s) /\ Latest(s)' = Latest(s)
  BY <1>1, <1>2, <1>3, <1>4, <1>5, <1>6, PausesStay
<1>8. Numbered'
  BY <1>1, <1>2, <1>3, <1>4, <1>5, <1>6, NumberedStays
<1>9. TypeOK'
  BY <1>1, <1>2, <1>3, <1>4, <1>5, <1>6, <1>7, Identifiers DEF TypeOK
<1>10. Threads'
  BY <1>1, <1>2, <1>3, <1>4, <1>5, <1>6, <1>7 DEF Threads, On, At, Waking, Busy
<1>11. Registered'
  BY <1>1, <1>2, <1>3, <1>4, <1>5, <1>6, <1>7, Identifiers DEF Registered, On
<1>12. Relies'
  BY <1>1, <1>2, <1>3, <1>4, <1>5, <1>6, <1>7 DEF Relies, Registered, On
<1>13. Alone'
  BY <1>1, <1>2, <1>3, <1>4, <1>5, <1>6, <1>7 DEF Alone, Registered, Relies, On
<1>14. Signals'
  <2>1. \A s \in Runs : signal'[s] = "resume" => s # r /\ signal[s] = "resume"
    BY <1>4
  <2>2. \A s \in Runs : s # r => Latest(s) # Latest(r)
    BY LatestOfRun
  <2>3. \A i \in waits' : i \in live /\ Run(i) \in Runs /\ Run(i) # r
    BY <1>1, <1>5, Identifiers DEF TypeOK, Registered
  <2> QED
    BY <1>1, <1>4, <1>7, <2>1, <2>2, <2>3 DEF Signals
<1>15. RunsOnlyWhenResolved'
  BY <1>1, <1>2, <1>7 DEF RunsOnlyWhenResolved, Signals
<1> QED
  BY <1>8, <1>9, <1>10, <1>11, <1>12, <1>13, <1>14, <1>15

LEMMA CallerReturnsKeeps ==
  ASSUME IInv, NEW r \in Runs, CallerReturns(r)
  PROVE  IInv'
<1> USE DEF IInv
<1>1. /\ caller[r] = "executing" /\ worker[r] = "ended"
      /\ worker' = [worker EXCEPT ![r] = "closed"] /\ caller' = [caller EXCEPT ![r] = "returned"]
      /\ UNCHANGED <<server, status, expired, live, continuations, waits, corrected, signal, holder, request>>
  BY DEF CallerReturns, registries
<1>2. /\ worker' \in [Runs -> {"none", "run", "opened", "retain", "paused", "idle", "ended", "closed"}]
      /\ \A s \in Runs : worker'[s] = IF s = r THEN "closed" ELSE worker[s]
  BY <1>1 DEF TypeOK
<1>3. /\ caller' \in [Runs -> {"fresh", "executing", "waiting", "returned"}]
      /\ \A s \in Runs : caller'[s] = IF s = r THEN "returned" ELSE caller[s]
  BY <1>1 DEF TypeOK
<1>4. \A i \in live : Run(i) # r
  BY <1>1 DEF Registered
<1>5. \A s \in Runs : Pauses(s)' = Pauses(s) /\ Latest(s)' = Latest(s)
  BY <1>1, <1>2, <1>3, <1>4, PausesStay
<1>6. Numbered'
  BY <1>1, <1>2, <1>3, <1>4, NumberedStays
<1>7. TypeOK'
  BY <1>1, <1>2, <1>3, <1>4, <1>5, Identifiers DEF TypeOK
<1>8. Threads'
  BY <1>1, <1>2, <1>3, <1>4, <1>5, Identifiers DEF Threads, On, At, Waking, Busy
<1>9. Registered'
  BY <1>1, <1>2, <1>3, <1>4, <1>5, Identifiers DEF Registered, On
<1>10. Relies'
  BY <1>1, <1>2, <1>3, <1>4, <1>5, Identifiers DEF Relies, Registered, On, Resuming
<1>11. Alone'
  BY <1>1, <1>2, <1>3, <1>4, <1>5, Identifiers DEF Alone, Registered, Relies, On
<1>12. Signals'
  BY <1>1, <1>2, <1>3, <1>4, <1>5, Identifiers DEF Signals, Registered, TypeOK
<1>13. RunsOnlyWhenResolved'
  BY <1>1, <1>2, <1>3, <1>4, <1>5, Identifiers DEF RunsOnlyWhenResolved
<1> QED
  BY <1>6, <1>7, <1>8, <1>9, <1>10, <1>11, <1>12, <1>13

\* The new intervention is no other operation's.
LEMMA RunPausesKeeps ==
  ASSUME IInv, NEW r \in Runs, RunPauses(r)
  PROVE  IInv'
<1> USE DEF IInv
<1>1. /\ worker[r] = "run" /\ Pauses(r) < MaxPauses
      /\ status' = [status EXCEPT ![<<r, Pauses(r) + 1>>] = "open"]
      /\ expired' = [expired EXCEPT ![r] = FALSE] /\ worker' = [worker EXCEPT ![r] = "opened"]
      /\ UNCHANGED <<server, caller, live, continuations, waits, corrected, signal, holder, request>>
  BY DEF RunPauses, registries
<1>2. /\ worker' \in [Runs -> {"none", "run", "opened", "retain", "paused", "idle", "ended", "closed"}]
      /\ \A s \in Runs : worker'[s] = IF s = r THEN "opened" ELSE worker[s]
  BY <1>1 DEF TypeOK
<1>3. /\ <<r, Pauses(r) + 1>> \in Ids /\ status[<<r, Pauses(r) + 1>>] = "unrouted"
      /\ \A i \in Ids : status'[i] = IF i = <<r, Pauses(r) + 1>> THEN "open" ELSE status[i]
      /\ \A s \in Runs : Pauses(s)' = IF s = r THEN Pauses(r) + 1 ELSE Pauses(s)
  BY <1>1, Opens
<1>4. \A s \in Runs : s # r => Latest(s)' = Latest(s)
  BY <1>3 DEF Latest
<1>5. caller[r] # "fresh" /\ Pauses(r) \in 0..MaxPauses /\ Pauses(r) + 1 > 0 /\ signal[r] # "resume"
  <2>1. caller[r] # "fresh" /\ Pauses(r) \in 0..MaxPauses /\ Pauses(r) + 1 > 0
    BY <1>1, MaxPausesAssumption DEF Threads, Numbered
  <2>2. ASSUME signal[r] = "resume"
        PROVE  FALSE
    <3>1. Latest(r) \in live /\ Run(Latest(r)) \in Discoveries /\ Latest(r) \in Ids
      BY <2>2 DEF Signals, Registered, TypeOK
    <3>2. Run(Latest(r)) = r
      BY LatestOfRun
    <3> QED
      BY <1>1, <3>1, <3>2, KindsAssumption DEF Registered, Relies, On, Resuming
  <2> QED
    BY <2>1, <2>2
<1>6. Numbered'
  BY <1>3, <1>5, Identifiers, MaxPausesAssumption DEF Numbered
<1>7. TypeOK'
  <2>1. status' \in [Ids -> Active \cup {"unrouted", "resolved", "terminated"}]
    BY <1>1, <1>3 DEF TypeOK, Active
  <2> QED
    BY <1>1, <1>2, <2>1 DEF TypeOK
<1>8. Threads'
  BY <1>1, <1>2, <1>3, <1>4, <1>5, <1>6 DEF Threads, On, At, Waking, Busy
<1>9. Registered'
  BY <1>1, <1>2, <1>3, <1>4, <1>5, <1>6, Identifiers DEF Registered, On, Busy
<1>10. Relies'
  BY <1>1, <1>2, <1>3, <1>4, <1>5, <1>6 DEF Relies, Registered, On, Busy
<1>11. Alone'
  BY <1>1, <1>2, <1>3, <1>4, <1>5, <1>6 DEF Alone, Registered, Relies, On
<1>12. Signals'
  BY <1>1, <1>3, <1>4, <1>5 DEF Signals, TypeOK
<1>13. RunsOnlyWhenResolved'
  BY <1>1, <1>2, <1>3, <1>4, <1>5, <1>6, Identifiers DEF RunsOnlyWhenResolved
<1> QED
  BY <1>6, <1>7, <1>8, <1>9, <1>10, <1>11, <1>12, <1>13

\* A claim and a release concern an intervention that no operation settles.
LEMMA ClaimKeeps ==
  ASSUME IInv, NEW q \in Requests, NEW i \in Ids, Claim(q, i)
  PROVE  IInv'
<1> USE DEF IInv
<1>1. /\ server = "up" /\ request[q] = None /\ Free /\ status[i] \in {"open", "claimed"}
      /\ Transition(i, "claimed")
      /\ UNCHANGED <<server, caller, worker, live, continuations, waits, corrected, signal, holder, request>>
  BY DEF Claim, registries, Begin
<1>2. /\ status' \in [Ids -> Active \cup {"unrouted", "resolved", "terminated"}]
      /\ \A j \in Ids : status'[j] = IF j = i THEN "claimed" ELSE status[j]
      /\ expired' \in [Runs -> BOOLEAN]
  BY <1>1, Identifiers DEF TypeOK, Transition, Active
<1>3. \A s \in Runs : Pauses(s)' = Pauses(s) /\ Latest(s)' = Latest(s)
  BY <1>1, <1>2, PausesStay
<1>4. Numbered'
  BY <1>1, <1>2, NumberedStays
<1>5. TypeOK'
  BY <1>1, <1>2, <1>3, Identifiers DEF TypeOK
<1>6. Threads'
  BY <1>1, <1>2, <1>3, Identifiers DEF Threads, On, At, Waking, Busy
<1>7. Registered'
  BY <1>1, <1>2, <1>3, Identifiers DEF Registered, TypeOK, On
<1>8. Relies'
  BY <1>1, <1>2, FreeBrowsers DEF Relies, On, Settling, Resuming
<1>9. Alone'
  BY <1>1, <1>2, <1>3, Identifiers DEF Alone, Registered, Relies, On
<1>10. Signals'
  BY <1>1, <1>2, <1>3, LatestIsRouted, Identifiers DEF Signals, Registered, TypeOK
<1>11. RunsOnlyWhenResolved'
  BY <1>1, <1>2, <1>3, LatestIsRouted, Identifiers DEF RunsOnlyWhenResolved
<1> QED
  BY <1>4, <1>5, <1>6, <1>7, <1>8, <1>9, <1>10, <1>11

LEMMA ReleaseKeeps ==
  ASSUME IInv, NEW q \in Requests, NEW i \in Ids, Release(q, i)
  PROVE  IInv'
<1> USE DEF IInv
<1>1. /\ server = "up" /\ request[q] = None /\ Free /\ status[i] = "claimed"
      /\ Transition(i, "open")
      /\ UNCHANGED <<server, caller, worker, live, continuations, waits, corrected, signal, holder, request>>
  BY DEF Release, registries, Begin, Held
<1>2. /\ status' \in [Ids -> Active \cup {"unrouted", "resolved", "terminated"}]
      /\ \A j \in Ids : status'[j] = IF j = i THEN "open" ELSE status[j]
      /\ expired' \in [Runs -> BOOLEAN]
  BY <1>1, Identifiers DEF TypeOK, Transition, Active
<1>3. \A s \in Runs : Pauses(s)' = Pauses(s) /\ Latest(s)' = Latest(s)
  BY <1>1, <1>2, PausesStay
<1>4. Numbered'
  BY <1>1, <1>2, NumberedStays
<1>5. TypeOK'
  BY <1>1, <1>2, <1>3, Identifiers DEF TypeOK
<1>6. Threads'
  BY <1>1, <1>2, <1>3, Identifiers DEF Threads, On, At, Waking, Busy
<1>7. Registered'
  BY <1>1, <1>2, <1>3, Identifiers DEF Registered, TypeOK, On
<1>8. Relies'
  BY <1>1, <1>2, FreeBrowsers DEF Relies, On, Settling, Resuming
<1>9. Alone'
  BY <1>1, <1>2, <1>3, Identifiers DEF Alone, Registered, Relies, On
<1>10. Signals'
  BY <1>1, <1>2, <1>3, LatestIsRouted, Identifiers DEF Signals, Registered, TypeOK
<1>11. RunsOnlyWhenResolved'
  BY <1>1, <1>2, <1>3, LatestIsRouted, Identifiers DEF RunsOnlyWhenResolved
<1> QED
  BY <1>4, <1>5, <1>6, <1>7, <1>8, <1>9, <1>10, <1>11

LEMMA ExpireKeeps ==
  ASSUME IInv, NEW i \in Ids, Expire(i)
  PROVE  IInv'
<1> USE DEF IInv
<1>1. /\ expired' \in [Runs -> BOOLEAN]
      /\ UNCHANGED <<server, caller, worker, status, live, continuations, waits, corrected, signal, holder, request>>
  BY Identifiers DEF Expire, registries, TypeOK
<1>2. \A s \in Runs : Pauses(s)' = Pauses(s) /\ Latest(s)' = Latest(s)
  BY <1>1, PausesStay
<1>3. Numbered'
  BY <1>1, NumberedStays
<1>4. TypeOK'
  BY <1>1, <1>2, Identifiers DEF TypeOK, On, At, Settling, Resuming, Waking, Busy
<1>5. Threads'
  BY <1>1, <1>2, Identifiers DEF Threads, On, At, Settling, Resuming, Waking, Busy
<1>6. Registered'
  BY <1>1, <1>2, Identifiers DEF Registered, On, Settling, Resuming
<1>7. Relies'
  BY <1>1, <1>2, Identifiers DEF Relies, Registered, On, Settling, Resuming
<1>8. Alone'
  BY <1>1, <1>2, Identifiers DEF Alone, Registered, Relies, On, Settling, Resuming
<1>9. Signals'
  BY <1>1, <1>2, LatestIsRouted, Identifiers DEF Signals, Registered, TypeOK
<1>10. RunsOnlyWhenResolved'
  BY <1>1, <1>2, LatestIsRouted, Identifiers DEF RunsOnlyWhenResolved
<1> QED
  BY <1>3, <1>4, <1>5, <1>6, <1>7, <1>8, <1>9, <1>10

\* A claimed intervention that is registered has an idle worker: it is not the one
\* that a request is running.
LEMMA TouchKeeps ==
  ASSUME IInv, NEW q \in Requests, NEW i \in Ids, Touch(q, i)
  PROVE  IInv'
<1> USE DEF IInv
<1>1. /\ server = "up" /\ request[q] = None /\ Free /\ status[i] = "claimed" /\ i \in live
      /\ holder' = q /\ corrected' \in {corrected, corrected \cup {i}} /\ Go(q, "touch", i)
      /\ UNCHANGED <<server, caller, worker, status, expired, live, continuations, waits, signal>>
  BY DEF Touch, Begin, Held
<1>2. /\ request' \in [Requests -> Operations \cup {None}]
      /\ request'[q] # None /\ request'[q].stage = "touch" /\ request'[q].id = i
      /\ \A p \in Requests : p # q => request'[p] = request[p]
  BY <1>1, Moves DEF Stages
<1>3. worker[Run(i)] = "idle"
  BY <1>1, IdleOrResumed
<1>4. \A p \in Requests : ~At(p, "touch")
  BY <1>1, KindsAssumption DEF Threads, Free
<1>5. \A s \in Runs : Pauses(s)' = Pauses(s) /\ Latest(s)' = Latest(s)
  BY <1>1, <1>2, <1>3, <1>4, PausesStay
<1>6. Numbered'
  BY <1>1, <1>2, <1>3, <1>4, NumberedStays
<1>7. TypeOK'
  BY <1>1, <1>2, <1>3, <1>4, <1>5, Identifiers DEF TypeOK
<1>8. Threads'
  BY <1>1, <1>2, <1>3, <1>4, <1>5, Identifiers DEF Threads, On, At, Waking, Busy
<1>9. Registered'
  BY <1>1, <1>2, <1>3, <1>4, <1>5, Identifiers DEF Registered, On
<1>10. Relies'
  BY <1>1, <1>2, <1>3, <1>4, <1>5 DEF Relies, Registered, On, Settling, Resuming
<1>11. Alone'
  BY <1>1, <1>2, <1>3, <1>4, <1>5, Identifiers DEF Alone, Registered, Relies, On, Waking
<1>12. Signals'
  BY <1>1, <1>2, <1>3, <1>4, <1>5, Identifiers DEF Signals, Registered, TypeOK
<1>13. RunsOnlyWhenResolved'
  BY <1>1, <1>2, <1>3, <1>4, <1>5, Identifiers DEF RunsOnlyWhenResolved
<1> QED
  BY <1>6, <1>7, <1>8, <1>9, <1>10, <1>11, <1>12, <1>13

LEMMA TouchedKeeps ==
  ASSUME IInv, NEW q \in Requests, Touched(q)
  PROVE  IInv'
<1> USE DEF IInv
<1>1. /\ At(q, "touch") /\ holder' = None /\ Done(q)
      /\ UNCHANGED <<server, caller, worker, status, expired, live, continuations, waits, corrected, signal>>
  BY DEF Touched, registries
<1>2. /\ request' \in [Requests -> Operations \cup {None}] /\ request'[q] = None
      /\ \A p \in Requests : p # q => request'[p] = request[p]
  BY <1>1, Finishes
<1>3. /\ \A p \in Requests : p # q => ~At(p, "touch")
      /\ q # None
  BY <1>1, KindsAssumption DEF Threads, At
<1>4. \A s \in Runs : Pauses(s)' = Pauses(s) /\ Latest(s)' = Latest(s)
  BY <1>1, <1>2, <1>3, PausesStay
<1>5. Numbered'
  BY <1>1, <1>2, <1>3, NumberedStays
<1>6. TypeOK'
  BY <1>1, <1>2, <1>3, <1>4, Identifiers DEF TypeOK
<1>7. Threads'
  <2>1. \A p \in Requests : ~At(p, "touch")' /\ p # None
    BY <1>2, <1>3, KindsAssumption DEF At
  <2> QED
    BY <1>1, <1>2, <1>4, <2>1 DEF Threads
<1>8. Registered'
  BY <1>1, <1>2, <1>3, <1>4, Identifiers DEF Registered, On, At, Waking, Busy
<1>9. Relies'
  BY <1>1, <1>2, <1>3, <1>4, Identifiers DEF Relies, Registered, On
<1>10. Alone'
  BY <1>1, <1>2, <1>3, <1>4, Identifiers DEF Alone, Registered, Relies, On
<1>11. Signals'
  BY <1>1, <1>2, <1>3, <1>4, Identifiers DEF Signals, Registered, TypeOK
<1>12. RunsOnlyWhenResolved'
  BY <1>1, <1>2, <1>3, <1>4, LatestIsRouted, Identifiers DEF RunsOnlyWhenResolved
<1> QED
  BY <1>5, <1>6, <1>7, <1>8, <1>9, <1>10, <1>11, <1>12

\* The intervention was claimed, so no operation settles it yet.
LEMMA BeginResumeKeeps ==
  ASSUME IInv, NEW q \in Requests, NEW i \in Ids, BeginResume(q, i)
  PROVE  IInv'
<1> USE DEF IInv
<1>1. /\ server = "up" /\ request[q] = None /\ Free /\ status[i] = "claimed"
      /\ Transition(i, "resuming")
      /\ \/ Go(q, "validate", i) /\ i \in live /\ i \in continuations \cup waits
         \/ Go(q, "reopen", i)
         \/ UNCHANGED request
      /\ UNCHANGED <<server, caller, worker, live, continuations, waits, corrected, signal, holder>>
  BY DEF BeginResume, registries, Begin, Held
<1>2. /\ request' \in [Requests -> Operations \cup {None}]
      /\ \A p \in Requests : p # q => request'[p] = request[p]
      /\ request'[q] # None =>
           request'[q].stage \in {"validate", "reopen"} /\ request'[q].id = i
  BY <1>1, Moves DEF Stages, TypeOK
<1>3. request'[q] # None /\ request'[q].stage = "validate" =>
        i \in live /\ i \in continuations \cup waits
  BY <1>1, Moves DEF Stages
<1>4. /\ status' \in [Ids -> Active \cup {"unrouted", "resolved", "terminated"}]
      /\ \A j \in Ids : status'[j] = IF j = i THEN "resuming" ELSE status[j]
      /\ expired' \in [Runs -> BOOLEAN]
  BY <1>1, Identifiers DEF TypeOK, Transition, Active
<1>5. \A s \in Runs : Pauses(s)' = Pauses(s) /\ Latest(s)' = Latest(s)
  BY <1>1, <1>2, <1>3, <1>4, PausesStay
<1>6. Numbered'
  BY <1>1, <1>2, <1>3, <1>4, NumberedStays
<1>7. TypeOK'
  BY <1>1, <1>2, <1>3, <1>4, <1>5, Identifiers DEF TypeOK
<1>8. Threads'
  BY <1>1, <1>2, <1>3, <1>4, <1>5, KindsAssumption DEF Threads, On, At, Free
<1>9. Registered'
  <2>1. \A p \in Requests, j \in Ids : On(p, {"running"}, j) => On(p, {"running"}, j)'
    BY <1>1, <1>2 DEF On
  <2>2. \A j \in live : j \in Ids /\ (status'[j] = "unrouted" <=> status[j] = "unrouted")
               /\ (status[j] = "resolved" => status'[j] = "resolved")
    BY <1>1, <1>4 DEF TypeOK
  <2> QED
    BY <1>1, <1>5, <2>1, <2>2 DEF Registered
<1>10. Relies'
  BY <1>1, <1>2, <1>3, <1>4, FreeBrowsers DEF Relies, On, Settling, Resuming
<1>11. Alone'
  BY <1>1, <1>2, <1>3, <1>4, <1>5 DEF Alone, Relies, On, Settling, Resuming, Waking
<1>12. Signals'
  BY <1>1, <1>2, <1>3, <1>4, <1>5, Identifiers DEF Signals, Registered, TypeOK
<1>13. RunsOnlyWhenResolved'
  BY <1>1, <1>2, <1>3, <1>4, <1>5, LatestIsRouted DEF RunsOnlyWhenResolved
<1> QED
  BY <1>6, <1>7, <1>8, <1>9, <1>10, <1>11, <1>12, <1>13

LEMMA ValidateKeeps ==
  ASSUME IInv, NEW q \in Requests, Validate(q)
  PROVE  IInv'
<1> USE DEF IInv
<1>1. /\ At(q, "validate")
      /\ (\E stage \in {"complete", "reopen"} : Go(q, stage, request[q].id)) \/ Done(q)
      /\ UNCHANGED <<server, caller, worker, status, expired, live, continuations, waits, corrected, signal, holder>>
  BY DEF Validate, registries
<1>2. request[q].id \in Ids /\ request[q].stage = "validate" /\ request[q] # None
  BY <1>1, AtOn
<1>3. /\ request' \in [Requests -> Operations \cup {None}]
      /\ \A p \in Requests : p # q => request'[p] = request[p]
      /\ request'[q] # None => request'[q].stage \in {"complete", "reopen"} /\ request'[q].id = request[q].id
  BY <1>1, <1>2, Moves, Finishes DEF Stages
<1>4. \A s \in Runs : Pauses(s)' = Pauses(s) /\ Latest(s)' = Latest(s)
  BY <1>1, <1>2, <1>3, PausesStay
<1>5. Numbered'
  BY <1>1, <1>2, <1>3, NumberedStays
<1>6. TypeOK'
  BY <1>1, <1>2, <1>3, <1>4, Identifiers DEF TypeOK
<1>7. Threads'
  BY <1>1, <1>2, <1>3, <1>4, Identifiers DEF Threads, On, At, Waking, Busy
<1>8. Registered'
  BY <1>1, <1>2, <1>3, <1>4, Identifiers DEF Registered, On, Settling, Resuming
<1>9. Relies'
  BY <1>1, <1>2, <1>3, <1>4 DEF Relies, Registered, On, Settling, Resuming
<1>10. Alone'
  BY <1>1, <1>2, <1>3, <1>4 DEF Alone, Relies, On, Settling, Resuming, Waking, Busy
<1>11. Signals'
  BY <1>1, <1>2, <1>3, <1>4, Identifiers DEF Signals, Registered, TypeOK
<1>12. RunsOnlyWhenResolved'
  BY <1>1, <1>2, <1>3, <1>4, LatestIsRouted, Identifiers DEF RunsOnlyWhenResolved
<1> QED
  BY <1>5, <1>6, <1>7, <1>8, <1>9, <1>10, <1>11, <1>12

LEMMA ReopenKeeps ==
  ASSUME IInv, NEW q \in Requests, Reopen(q)
  PROVE  IInv'
<1> USE DEF IInv
<1>1. /\ At(q, "reopen") /\ Done(q) /\ Free
      /\ status' = [status EXCEPT ![request[q].id] = "open"]
      /\ UNCHANGED <<server, caller, worker, expired, live, continuations, waits, corrected, signal, holder>>
  BY DEF Reopen, registries
<1>2. PICK i \in Ids : i = request[q].id /\ request[q].stage = "reopen" /\ request[q] # None
  BY <1>1, AtOn
<1>3. /\ request' \in [Requests -> Operations \cup {None}] /\ request'[q] = None
      /\ \A p \in Requests : p # q => request'[p] = request[p]
  BY <1>1, Finishes
<1>4. /\ status' \in [Ids -> Active \cup {"unrouted", "resolved", "terminated"}]
      /\ \A j \in Ids : status'[j] = IF j = i THEN "open" ELSE status[j]
      /\ status[i] = "resuming"
  BY <1>1, <1>2 DEF TypeOK, Active, Relies, On, Settling
<1>5. \A s \in Runs : Pauses(s)' = Pauses(s) /\ Latest(s)' = Latest(s)
  BY <1>1, <1>2, <1>3, <1>4, PausesStay
<1>6. Numbered'
  BY <1>1, <1>2, <1>3, <1>4, NumberedStays
<1>7. TypeOK'
  BY <1>1, <1>2, <1>3, <1>4, <1>5, Identifiers DEF TypeOK
<1>8. Threads'
  BY <1>1, <1>2, <1>3, <1>4, <1>5, Identifiers DEF Threads, On, At, Waking, Busy
<1>9. Registered'
  BY <1>1, <1>2, <1>3, <1>4, <1>5, Identifiers DEF Registered, On
<1>10. Relies'
  BY <1>1, <1>2, <1>3, <1>4, FreeBrowsers DEF Relies, Alone, On, Settling, Resuming
<1>11. Alone'
  BY <1>1, <1>2, <1>3, <1>4, <1>5, Identifiers DEF Alone, Registered, Relies, On
<1>12. Signals'
  BY <1>1, <1>2, <1>3, <1>4, <1>5, Identifiers DEF Signals, Registered, TypeOK
<1>13. RunsOnlyWhenResolved'
  BY <1>1, <1>2, <1>3, <1>4, <1>5, Identifiers DEF RunsOnlyWhenResolved
<1> QED
  BY <1>6, <1>7, <1>8, <1>9, <1>10, <1>11, <1>12, <1>13

\* The lease ran out meanwhile, or the pause is resolved.
LEMMA CompleteResumeKeeps ==
  ASSUME IInv, NEW q \in Requests, CompleteResume(q)
  PROVE  IInv'
<1> USE DEF IInv
<1>1. /\ At(q, "complete") /\ Free
      /\ LET i == request[q].id IN
           IF expired[Run(i)]
             THEN Done(q) /\ UNCHANGED <<status, expired, continuations>>
             ELSE /\ Transition(i, "resolved")
                  /\ continuations' = continuations \ {i}
                  /\ \/ Go(q, IF i \in continuations THEN "resume" ELSE "signal", i)
                     \/ Done(q)
      /\ UNCHANGED <<server, caller, worker, live, waits, corrected, signal, holder>>
  BY DEF CompleteResume, registries
<1>2. PICK i \in Ids : i = request[q].id /\ request[q].stage = "complete" /\ request[q] # None
  BY <1>1, AtOn
<1>3. /\ status[i] = "resuming" /\ i \in live /\ i \in continuations \cup waits
      /\ worker[Run(i)] = "idle" /\ i = Latest(Run(i)) /\ server = "up"
  <2>1. status[i] = "resuming" /\ i \in live /\ i \in continuations \cup waits
    BY <1>2 DEF Relies, On, Settling
  <2>2. worker[Run(i)] = "idle" /\ i = Latest(Run(i))
    BY <2>1, IdleOrResumed
  <2> QED
    BY <1>2, <2>1, <2>2 DEF Threads
<1>4. i \in continuations => Run(i) \in Replays
  BY <1>2 DEF TypeOK
<1>5. i \in waits => signal[Run(i)] = "unset" /\ Run(i) \in Discoveries
  BY <1>2, <1>3, Identifiers DEF Signals, Registered, TypeOK
<1>6. IInv'
  <2>1. CASE expired[Run(i)]
    <3>1. Done(q) /\ UNCHANGED <<server, caller, worker, status, expired, live, continuations, waits, corrected, signal, holder>>
      BY <1>1, <1>2, <2>1
    <3>2. /\ request' \in [Requests -> Operations \cup {None}] /\ request'[q] = None
          /\ \A p \in Requests : p # q => request'[p] = request[p]
      BY <3>1, Finishes
    <3>3. \A s \in Runs : Pauses(s)' = Pauses(s) /\ Latest(s)' = Latest(s)
      BY <3>1, PausesStay
    <3>4. Numbered'
      BY <3>1, NumberedStays
    <3>5. TypeOK' /\ Threads'
      BY <1>1, <1>2, <3>1, <3>2, <3>3 DEF TypeOK, Threads, On, At, Free
    <3>6. Registered'
      BY <1>2, <3>1, <3>2, <3>3, Identifiers DEF Registered, On
    <3>7. Relies'
      BY <1>2, <3>1, <3>2, <3>3 DEF Relies, On
    <3>8. Alone' /\ Signals' /\ RunsOnlyWhenResolved'
      BY <1>2, <3>1, <3>2, <3>3 DEF Alone, On, Signals, RunsOnlyWhenResolved
    <3> QED
      BY <3>4, <3>5, <3>6, <3>7, <3>8
  <2>2. CASE ~expired[Run(i)]
    <3>1. \/ Go(q, "resume", i) /\ i \in continuations
          \/ Go(q, "signal", i) /\ i \notin continuations
          \/ Done(q)
      BY <1>1, <1>2, <2>2
    <3>2. /\ request' \in [Requests -> Operations \cup {None}]
          /\ \A p \in Requests : p # q => request'[p] = request[p]
          /\ request'[q] # None =>
               /\ request'[q].stage = IF i \in continuations THEN "resume" ELSE "signal"
               /\ request'[q].id = i
      BY <3>1, Moves, Finishes DEF Stages
    <3>3. /\ status' \in [Ids -> Active \cup {"unrouted", "resolved", "terminated"}]
          /\ \A j \in Ids : status'[j] = IF j = i THEN "resolved" ELSE status[j]
          /\ expired' \in [Runs -> BOOLEAN]
      BY <1>1, <1>2, <2>2, Identifiers DEF TypeOK, Transition, Active
    <3>4. continuations' = continuations \ {i} /\ UNCHANGED <<server, caller, worker, live, waits, corrected, signal, holder>>
      BY <1>1, <1>2, <2>2
    <3>5. \A s \in Runs : Pauses(s)' = Pauses(s) /\ Latest(s)' = Latest(s)
      BY <1>3, <3>3, PausesStay
    <3>6. Numbered'
      BY <1>3, <3>3, NumberedStays
    <3>7. TypeOK' /\ Threads'
      BY <1>1, <1>2, <1>3, <3>1, <3>2, <3>3, <3>4, <3>5 DEF TypeOK, Threads, On, At, Free
    <3>8. Registered'
      <4>1. \A p \in Requests, j \in Ids : On(p, {"running"}, j) => On(p, {"running"}, j)'
        BY <1>2, <3>2 DEF On
      <4>2. \A j \in live : j \in Ids /\ (status'[j] = "unrouted" <=> status[j] = "unrouted")
                   /\ (status[j] = "resolved" => status'[j] = "resolved")
        BY <1>3, <3>3 DEF TypeOK
      <4> QED
        BY <3>4, <3>5, <4>1, <4>2 DEF Registered
    <3>9. Relies'
      BY <1>1, <1>2, <1>3, <1>4, <1>5, <3>1, <3>2, <3>3, <3>4, FreeBrowsers
         DEF Relies, On, Settling, Resuming, Alone
    <3>10. Alone'
      BY <1>2, <1>3, <1>4, <1>5, <3>1, <3>2, <3>3, <3>4, <3>5, Identifiers
         DEF Alone, Relies, On, Registered, Settling, Resuming, Waking
    <3>11. Signals' /\ RunsOnlyWhenResolved'
      BY <1>2, <1>3, <3>3, <3>4, <3>5, LatestIsRouted DEF Signals, RunsOnlyWhenResolved, TypeOK
    <3> QED
      BY <3>6, <3>7, <3>8, <3>9, <3>10, <3>11
  <2> QED
    BY <2>1, <2>2
<1> QED
  BY <1>6

\* The caller of a resolved pause has not been woken before.
LEMMA SignalResumeKeeps ==
  ASSUME IInv, NEW q \in Requests, SignalResume(q)
  PROVE  IInv'
<1> USE DEF IInv
<1>1. /\ At(q, "signal") /\ Done(q)
      /\ signal' = [signal EXCEPT ![Run(request[q].id)] = "resume"]
      /\ UNCHANGED <<server, caller, worker, status, expired, live, continuations, waits, corrected, holder>>
  BY DEF SignalResume, registries
<1>2. PICK i \in Ids : i = request[q].id /\ request[q].stage = "signal" /\ request[q] # None
  BY <1>1, AtOn
<1>3. /\ request' \in [Requests -> Operations \cup {None}] /\ request'[q] = None
      /\ \A p \in Requests : p # q => request'[p] = request[p]
  BY <1>1, Finishes
<1>4. /\ signal' \in [Runs -> {"none", "unset", "resume", "cancel"}]
      /\ \A s \in Runs : signal'[s] = IF s = Run(i) THEN "resume" ELSE signal[s]
  BY <1>1, <1>2, Identifiers DEF TypeOK
<1>5. /\ status[i] = "resolved" /\ i \in waits /\ i \in live
      /\ i = Latest(Run(i))
  BY <1>2, Identifiers, KindsAssumption DEF Relies, On, Registered, Resuming, TypeOK
<1>6. \A s \in Runs : Pauses(s)' = Pauses(s) /\ Latest(s)' = Latest(s)
  BY <1>1, <1>2, <1>3, <1>4, <1>5, PausesStay
<1>7. Numbered'
  BY <1>1, <1>2, <1>3, <1>4, <1>5, NumberedStays
<1>8. TypeOK'
  BY <1>1, <1>2, <1>3, <1>4, <1>5, <1>6, Identifiers DEF TypeOK
<1>9. Threads'
  BY <1>1, <1>2, <1>3, <1>4, <1>5, <1>6 DEF Threads, On, At, Waking, Busy
<1>10. Registered'
  BY <1>1, <1>2, <1>3, <1>4, <1>5, <1>6, Identifiers DEF Registered, On
<1>11. Relies'
  BY <1>1, <1>2, <1>3, <1>4, <1>5, <1>6 DEF Relies, Alone, On, Waking, TypeOK
<1>12. Alone'
  BY <1>1, <1>2, <1>3, <1>4, <1>5, <1>6 DEF Alone, Registered, Relies, On
<1>13. Signals'
  BY <1>1, <1>2, <1>3, <1>4, <1>5, <1>6, Identifiers DEF Signals, Registered, TypeOK
<1>14. RunsOnlyWhenResolved'
  BY <1>1, <1>2, <1>3, <1>4, <1>5, <1>6, Identifiers DEF RunsOnlyWhenResolved
<1> QED
  BY <1>7, <1>8, <1>9, <1>10, <1>11, <1>12, <1>13, <1>14

LEMMA ReplayResumesKeeps ==
  ASSUME IInv, NEW q \in Requests, ReplayResumes(q)
  PROVE  IInv'
<1> USE DEF IInv
<1>1. /\ At(q, "resume")
      /\ worker' = [worker EXCEPT ![Run(request[q].id)] = "run"]
      /\ Go(q, "running", request[q].id)
      /\ UNCHANGED <<server, caller, status, expired, live, continuations, waits, corrected, signal, holder>>
  BY DEF ReplayResumes, registries
<1>2. PICK i \in Ids : i = request[q].id /\ request[q].stage = "resume" /\ request[q] # None
  BY <1>1, AtOn
<1>3. /\ request' \in [Requests -> Operations \cup {None}]
      /\ request'[q] # None /\ request'[q].stage = "running" /\ request'[q].id = i
      /\ \A p \in Requests : p # q => request'[p] = request[p]
  BY <1>1, <1>2, Moves DEF Stages
<1>4. /\ worker' \in [Runs -> {"none", "run", "opened", "retain", "paused", "idle", "ended", "closed"}]
      /\ \A s \in Runs : worker'[s] = IF s = Run(i) THEN "run" ELSE worker[s]
  BY <1>1, <1>2, Identifiers DEF TypeOK
<1>5. /\ status[i] = "resolved" /\ i \in live /\ Run(i) \in Replays /\ worker[Run(i)] = "idle"
      /\ i = Latest(Run(i)) /\ caller[Run(i)] = "returned" /\ Run(i) \notin Discoveries
  BY <1>2, Identifiers, KindsAssumption DEF Relies, On, Registered, Resuming
<1>6. \A p \in Requests : p # q /\ request[p] # None =>
        Run(request[p].id) # Run(i) \/ request[p].stage \in {"reopen", "await", "validate", "complete"}
  BY <1>2, <1>5, Identifiers DEF Relies, Alone, On, Resuming, Registered, TypeOK, Operations, Stages
<1>7. \A p \in Requests : p # q /\ request[p] # None /\ request[p].stage \in {"validate", "complete"} =>
        Run(request[p].id) # Run(i)
  BY <1>2, <1>5, Identifiers DEF Relies, On, Settling, Registered, TypeOK, Operations
<1>8. \A s \in Runs : Pauses(s)' = Pauses(s) /\ Latest(s)' = Latest(s)
  BY <1>1, <1>2, <1>3, <1>4, <1>5, <1>6, <1>7, PausesStay
<1>9. Numbered'
  BY <1>1, <1>2, <1>3, <1>4, <1>5, <1>6, <1>7, NumberedStays
<1>10. TypeOK'
  BY <1>1, <1>2, <1>3, <1>4, <1>5, <1>6, <1>7, <1>8, Identifiers DEF TypeOK
<1>11. Threads'
  BY <1>1, <1>2, <1>3, <1>4, <1>5, <1>6, <1>7, <1>8 DEF Threads, On, At, Waking
<1>12. Registered'
  BY <1>1, <1>2, <1>3, <1>4, <1>5, <1>6, <1>7, <1>8 DEF Registered, On, Busy
<1>13. Relies'
  BY <1>1, <1>2, <1>3, <1>4, <1>5, <1>6, <1>7, <1>8 DEF Relies, On, Settling, Resuming, Waking, Busy
<1>14. Alone'
  BY <1>1, <1>2, <1>3, <1>4, <1>5, <1>6, <1>7, <1>8 DEF Alone, Relies, On, Settling, Resuming, Waking
<1>15. Signals'
  BY <1>1, <1>2, <1>3, <1>4, <1>5, <1>6, <1>7, <1>8 DEF Signals, Registered, TypeOK
<1>16. RunsOnlyWhenResolved'
  BY <1>1, <1>2, <1>3, <1>4, <1>5, <1>6, <1>7, <1>8 DEF RunsOnlyWhenResolved
<1> QED
  BY <1>9, <1>10, <1>11, <1>12, <1>13, <1>14, <1>15, <1>16

\* The session is registered anew, under the intervention of the new pause.
LEMMA ReplayPausesAgainKeeps ==
  ASSUME IInv, NEW q \in Requests, ReplayPausesAgain(q)
  PROVE  IInv'
<1> USE DEF IInv
<1>1. /\ At(q, "running") /\ Free
      /\ worker[Run(request[q].id)] = "paused" /\ request[q].id \in live
      /\ live' = (live \ {request[q].id}) \cup {Latest(Run(request[q].id))}
      /\ worker' = [worker EXCEPT ![Run(request[q].id)] = "idle"]
      /\ corrected' \in {corrected, corrected \cup {Latest(Run(request[q].id))}}
      /\ Done(q)
      /\ UNCHANGED <<server, caller, status, expired, continuations, waits, signal, holder>>
  BY DEF ReplayPausesAgain, registries
<1>2. PICK i \in Ids : i = request[q].id /\ request[q].stage = "running" /\ request[q] # None
  BY <1>1, AtOn
<1>3. /\ request' \in [Requests -> Operations \cup {None}] /\ request'[q] = None
      /\ \A p \in Requests : p # q => request'[p] = request[p]
  BY <1>1, Finishes
<1>4. /\ worker' \in [Runs -> {"none", "run", "opened", "retain", "paused", "idle", "ended", "closed"}]
      /\ \A s \in Runs : worker'[s] = IF s = Run(i) THEN "idle" ELSE worker[s]
  BY <1>1, <1>2, Identifiers DEF TypeOK
<1>5. /\ status[i] = "resolved" /\ i \in live /\ Run(i) \in Replays
      /\ caller[Run(i)] = "returned" /\ Run(i) \notin Discoveries /\ Run(i) \in Runs
  BY <1>2, Identifiers, KindsAssumption DEF Relies, On, Registered, Resuming
<1>6. /\ Latest(Run(i)) \in Ids /\ Run(Latest(Run(i))) = Run(i)
      /\ status[Latest(Run(i))] # "unrouted"
  BY <1>1, <1>2, <1>5, LatestIsRouted DEF Threads
<1>7. \A j \in live : Run(j) = Run(i) => j = i
  BY <1>5 DEF Registered
<1>8. \A p \in Requests : p # q /\ request[p] # None =>
        Run(request[p].id) # Run(i) \/ request[p].stage \in {"reopen", "await"}
  BY <1>1, <1>2, <1>5, <1>7, KindsAssumption DEF Relies, Alone, On, Resuming, Settling, TypeOK, Operations, Stages
<1>9. \A s \in Runs : Pauses(s)' = Pauses(s) /\ Latest(s)' = Latest(s)
  BY <1>1, <1>2, <1>3, <1>4, <1>5, <1>6, <1>7, <1>8, PausesStay
<1>10. Numbered'
  BY <1>1, <1>2, <1>3, <1>4, <1>5, <1>6, <1>7, <1>8, NumberedStays
<1>11. TypeOK'
  BY <1>1, <1>2, <1>3, <1>4, <1>5, <1>6, <1>7, <1>8, <1>9, Identifiers DEF TypeOK
<1>12. Threads'
  BY <1>1, <1>2, <1>3, <1>4, <1>5, <1>6, <1>7, <1>8, <1>9 DEF Threads, On, At, Waking
<1>13. Registered'
  BY <1>1, <1>2, <1>3, <1>4, <1>5, <1>6, <1>7, <1>8, <1>9 DEF Registered, On
<1>14. Relies'
  BY <1>1, <1>2, <1>3, <1>4, <1>5, <1>6, <1>7, <1>8, <1>9 DEF Relies, On, Resuming
<1>15. Alone'
  BY <1>1, <1>2, <1>3, <1>4, <1>5, <1>6, <1>7, <1>8, <1>9 DEF Alone, Relies, On
<1>16. Signals'
  BY <1>1, <1>2, <1>3, <1>4, <1>5, <1>6, <1>7, <1>8, <1>9 DEF Signals, TypeOK
<1>17. RunsOnlyWhenResolved'
  BY <1>1, <1>2, <1>3, <1>4, <1>5, <1>6, <1>7, <1>8, <1>9 DEF RunsOnlyWhenResolved
<1> QED
  BY <1>10, <1>11, <1>12, <1>13, <1>14, <1>15, <1>16, <1>17

LEMMA ReplayFinishesKeeps ==
  ASSUME IInv, NEW q \in Requests, ReplayFinishes(q)
  PROVE  IInv'
<1> USE DEF IInv
<1>1. /\ At(q, "running")
      /\ worker[Run(request[q].id)] = "ended"
      /\ \/ Free /\ live' = live \ {request[q].id} /\ Go(q, "close", request[q].id)
         \/ live' = live /\ Done(q)
      /\ UNCHANGED <<server, caller, worker, status, expired, continuations, waits, corrected, signal, holder>>
  BY DEF ReplayFinishes, registries
<1>2. PICK i \in Ids : i = request[q].id /\ request[q].stage = "running" /\ request[q] # None
  BY <1>1, AtOn
<1>3. /\ request' \in [Requests -> Operations \cup {None}]
      /\ \A p \in Requests : p # q => request'[p] = request[p]
      /\ request'[q] # None => /\ request'[q].stage = "close" /\ request'[q].id = i
                               /\ Free /\ live' = live \ {i}
      /\ live' \in {live, live \ {i}}
  BY <1>1, <1>2, Moves, Finishes DEF Stages
<1>4. /\ status[i] = "resolved" /\ i \in live /\ Run(i) \in Replays
      /\ caller[Run(i)] = "returned" /\ Run(i) \notin Discoveries /\ Run(i) \in Runs
  BY <1>2, Identifiers, KindsAssumption DEF Relies, On, Registered, Resuming
<1>5. \A j \in live : Run(j) = Run(i) => j = i
  BY <1>4 DEF Registered
<1>6. \A p \in Requests : p # q /\ request[p] # None =>
        Run(request[p].id) # Run(i) \/ request[p].stage \in {"reopen", "await"}
  BY <1>1, <1>2, <1>4, <1>5, KindsAssumption DEF Relies, Alone, On, Resuming, Settling, TypeOK, Operations, Stages
<1>7. \A s \in Runs : Pauses(s)' = Pauses(s) /\ Latest(s)' = Latest(s)
  BY <1>1, <1>2, <1>3, <1>4, <1>5, <1>6, PausesStay
<1>8. Numbered'
  BY <1>1, <1>2, <1>3, <1>4, <1>5, <1>6, NumberedStays
<1>9. TypeOK'
  BY <1>1, <1>2, <1>3, <1>4, <1>5, <1>6, <1>7, Identifiers DEF TypeOK
<1>10. Threads'
  BY <1>1, <1>2, <1>3, <1>4, <1>5, <1>6, <1>7 DEF Threads, On, At, Waking, Busy
<1>11. Registered'
  BY <1>1, <1>2, <1>3, <1>4, <1>5, <1>6, <1>7, Identifiers DEF Registered, On
<1>12. Relies'
  BY <1>1, <1>2, <1>3, <1>4, <1>5, <1>6, <1>7 DEF Relies, On, Settling, Resuming
<1>13. Alone'
  BY <1>1, <1>2, <1>3, <1>4, <1>5, <1>6, <1>7 DEF Alone, Relies, On, Settling, Resuming, Waking
<1>14. Signals'
  BY <1>1, <1>2, <1>3, <1>4, <1>5, <1>6, <1>7 DEF Signals, Registered, TypeOK
<1>15. RunsOnlyWhenResolved'
  BY <1>1, <1>2, <1>3, <1>4, <1>5, <1>6, <1>7, Identifiers DEF RunsOnlyWhenResolved
<1> QED
  BY <1>8, <1>9, <1>10, <1>11, <1>12, <1>13, <1>14, <1>15

\* What is terminated was not being settled, resumed or woken.
LEMMA TerminateKeeps ==
  ASSUME IInv, NEW q \in Requests, NEW i \in Ids, Terminate(q, i)
  PROVE  IInv'
<1> USE DEF IInv
<1>1. /\ server = "up" /\ request[q] = None /\ Free /\ status[i] \in {"open", "claimed"}
      /\ Transition(i, "terminated")
      /\ IF i \in waits THEN Go(q, "cancel", i)
         ELSE IF i \in live THEN Go(q, "close", i) ELSE UNCHANGED request
      /\ live' = live \ {i} /\ waits' = waits \ {i} /\ continuations' = continuations \ {i}
      /\ UNCHANGED <<server, caller, worker, corrected, signal, holder>>
  BY DEF Terminate, Begin, Held
<1>2. /\ request' \in [Requests -> Operations \cup {None}]
      /\ \A p \in Requests : p # q => request'[p] = request[p]
      /\ i \in live => /\ request'[q] # None /\ request'[q].id = i
                       /\ request'[q].stage = IF i \in waits THEN "cancel" ELSE "close"
      /\ i \notin live => request'[q] = None
  BY <1>1, Moves DEF Stages, Registered, TypeOK
<1>3. /\ status' \in [Ids -> Active \cup {"unrouted", "resolved", "terminated"}]
      /\ \A j \in Ids : status'[j] = IF j = i THEN "terminated" ELSE status[j]
      /\ expired' \in [Runs -> BOOLEAN]
  BY <1>1, Identifiers DEF TypeOK, Transition, Active
<1>4. /\ i \in waits => /\ i \in live /\ caller[Run(i)] = "waiting" /\ signal[Run(i)] = "unset"
      /\ i \in live => \A j \in live : Run(j) = Run(i) => j = i
      /\ i \in live /\ i \notin waits => caller[Run(i)] = "returned" /\ Run(i) \in Replays
  BY <1>1, Identifiers, KindsAssumption DEF Registered, Signals, Runs, TypeOK, Relies, On, Resuming
<1>5. \A p \in Requests : request[p] # None => request[p].stage # "touch"
  BY <1>1, KindsAssumption DEF Threads, At, Free
<1>6. \A s \in Runs : Pauses(s)' = Pauses(s) /\ Latest(s)' = Latest(s)
  BY <1>1, <1>2, <1>3, <1>4, <1>5, PausesStay
<1>7. Numbered'
  BY <1>1, <1>2, <1>3, <1>4, <1>5, NumberedStays
<1>8. TypeOK'
  BY <1>1, <1>2, <1>3, <1>4, <1>5, <1>6, Identifiers DEF TypeOK
<1>9. Threads'
  <2>1. \A p \in Requests : ~At(p, "touch")' /\ ~At(p, "touch") /\ p # None
    BY <1>1, <1>2, <1>5, KindsAssumption DEF At
  <2> QED
    BY <1>1, <1>6, <2>1 DEF Threads, Free
<1>10. Registered'
  <2>1. waits' = {j \in live' : Run(j) \in Discoveries}
    BY <1>1 DEF Registered
  <2>2. ASSUME NEW r \in Runs, NEW j \in live', Run(j) = r
        PROVE  /\ status'[j] # "unrouted"
               /\ worker'[r] \in Busy \cup {"idle"}
               /\ caller'[r] = IF r \in Replays THEN "returned" ELSE "waiting"
               /\ worker'[r] = "idle" => j = Latest(r)'
               /\ worker'[r] # "idle" =>
                    \/ \E p \in Requests : On(p, {"running"}, j)'
                    \/ worker'[r] = "ended" /\ status'[j] = "resolved" /\ r \in Replays
               /\ \A k \in live' : Run(k) = r => k = j
    <3>1. j \in live /\ j # i /\ j \in Ids /\ status'[j] = status[j]
      BY <1>1, <1>3 DEF TypeOK
    <3>2. \A p \in Requests : On(p, {"running"}, j) => On(p, {"running"}, j)'
      BY <1>1, <1>2 DEF On
    <3> QED
      BY <1>1, <1>6, <2>2, <3>1, <3>2 DEF Registered
  <2> QED
    BY <2>1, <2>2 DEF Registered
<1>11. Relies'
  <2> SUFFICES ASSUME NEW p \in Requests, NEW j \in Ids, request'[p] # None, request'[p].id = j
               PROVE  /\ request'[p].stage # "touch"
                      /\ request'[p].stage \in Settling => status'[j] = "resuming"
                      /\ request'[p].stage \in {"validate", "complete"} =>
                           j \in live' /\ j \in continuations' \cup waits'
                      /\ request'[p].stage \in Resuming =>
                           status'[j] = "resolved" /\ j \in live' /\ Run(j) \in Replays
                      /\ request'[p].stage = "resume" => worker'[Run(j)] = "idle"
                      /\ request'[p].stage = "running" => worker'[Run(j)] \in Busy
                      /\ request'[p].stage = "signal" =>
                           status'[j] = "resolved" /\ j \in waits' /\ signal'[Run(j)] = "unset"
                      /\ request'[p].stage = "cancel" =>
                           caller'[Run(j)] = "waiting" /\ signal'[Run(j)] = "unset"
                      /\ request'[p].stage = "close" => caller'[Run(j)] = "returned"
                      /\ request'[p].stage \in {"cancel", "close"} =>
                           \A k \in live' : Run(k) # Run(j)
    BY DEF Relies, On
  <2>1. CASE p = q
    BY <1>1, <1>2, <1>4, <2>1 DEF Settling, Resuming
  <2>2. CASE p # q
    BY <1>1, <1>2, <1>3, <1>5, <2>2 DEF Relies, On, Settling, Resuming
  <2> QED
    BY <2>1, <2>2
<1>12. Alone'
  BY <1>1, <1>2, <1>3, <1>4, <1>5, <1>6 DEF Alone, Registered, Relies, On, Waking
<1>13. Signals'
  BY <1>1, <1>2, <1>3, <1>4, <1>5, <1>6, Identifiers DEF Signals, Registered, TypeOK
<1>14. RunsOnlyWhenResolved'
  BY <1>1, <1>2, <1>3, <1>4, <1>5, <1>6, LatestIsRouted DEF RunsOnlyWhenResolved
<1> QED
  BY <1>7, <1>8, <1>9, <1>10, <1>11, <1>12, <1>13, <1>14

LEMMA CancelWaitKeeps ==
  ASSUME IInv, NEW q \in Requests, CancelWait(q)
  PROVE  IInv'
<1> USE DEF IInv
<1>1. /\ At(q, "cancel")
      /\ signal' = [signal EXCEPT ![Run(request[q].id)] = "cancel"] /\ Go(q, "await", request[q].id)
      /\ UNCHANGED <<server, caller, worker, status, expired, live, continuations, waits, corrected, holder>>
  BY DEF CancelWait, registries
<1>2. PICK i \in Ids : i = request[q].id /\ request[q].stage = "cancel" /\ request[q] # None
  BY <1>1, AtOn
<1>3. /\ request' \in [Requests -> Operations \cup {None}]
      /\ request'[q] # None /\ request'[q].stage = "await" /\ request'[q].id = i
      /\ \A p \in Requests : p # q => request'[p] = request[p]
  BY <1>1, <1>2, Moves DEF Stages
<1>4. /\ signal' \in [Runs -> {"none", "unset", "resume", "cancel"}]
      /\ \A s \in Runs : signal'[s] = IF s = Run(i) THEN "cancel" ELSE signal[s]
  BY <1>1, <1>2, Identifiers DEF TypeOK
<1>5. /\ \A j \in live : Run(j) # Run(i)
      /\ waits \subseteq live
  BY <1>2 DEF Relies, On, Registered
<1>6. \A s \in Runs : Pauses(s)' = Pauses(s) /\ Latest(s)' = Latest(s)
  BY <1>1, <1>2, <1>3, <1>4, <1>5, PausesStay
<1>7. Numbered'
  BY <1>1, <1>2, <1>3, <1>4, <1>5, NumberedStays
<1>8. TypeOK'
  BY <1>1, <1>2, <1>3, <1>4, <1>5, <1>6, Identifiers DEF TypeOK
<1>9. Threads'
  BY <1>1, <1>2, <1>3, <1>4, <1>5, <1>6 DEF Threads, On, At, Waking, Busy
<1>10. Registered'
  BY <1>1, <1>2, <1>3, <1>4, <1>5, <1>6, Identifiers DEF Registered, On
<1>11. Relies'
  <2>1. \A p \in Requests, j \in Ids : p # q /\ On(p, Waking, j) => Run(j) # Run(i)
    BY <1>2 DEF Alone, On, Waking
  <2>2. \A p \in Requests, j \in Ids :
          p # q /\ request[p] # None /\ request[p].stage \in {"signal", "cancel"} /\ request[p].id = j =>
            signal'[Run(j)] = signal[Run(j)]
    BY <1>4, <2>1, Identifiers DEF On, Waking
  <2> QED
    BY <1>1, <1>2, <1>3, <2>2 DEF Relies, On, Settling, Resuming
<1>12. Alone'
  BY <1>1, <1>2, <1>3, <1>4, <1>5, <1>6 DEF Alone, Relies, On, At, Settling, Waking
<1>13. Signals'
  BY <1>1, <1>2, <1>3, <1>4, <1>5, <1>6, Identifiers DEF Signals, Registered, TypeOK
<1>14. RunsOnlyWhenResolved'
  BY <1>1, <1>2, <1>3, <1>4, <1>5, <1>6, Identifiers DEF RunsOnlyWhenResolved
<1> QED
  BY <1>7, <1>8, <1>9, <1>10, <1>11, <1>12, <1>13, <1>14

LEMMA CallerCompletedKeeps ==
  ASSUME IInv, NEW q \in Requests, CallerCompleted(q)
  PROVE  IInv'
<1> USE DEF IInv
<1>1. /\ At(q, "await") /\ Done(q)
      /\ UNCHANGED <<server, caller, worker, status, expired, live, continuations, waits, corrected, signal, holder>>
  BY DEF CallerCompleted, registries
<1>2. PICK i \in Ids : i = request[q].id /\ request[q].stage = "await" /\ request[q] # None
  BY <1>1, AtOn
<1>3. /\ request' \in [Requests -> Operations \cup {None}] /\ request'[q] = None
      /\ \A p \in Requests : p # q => request'[p] = request[p]
  BY <1>1, Finishes
<1>4. \A s \in Runs : Pauses(s)' = Pauses(s) /\ Latest(s)' = Latest(s)
  BY <1>1, <1>2, <1>3, PausesStay
<1>5. Numbered'
  BY <1>1, <1>2, <1>3, NumberedStays
<1>6. TypeOK'
  BY <1>1, <1>2, <1>3, <1>4, Identifiers DEF TypeOK
<1>7. Threads'
  BY <1>1, <1>2, <1>3, <1>4, Identifiers DEF Threads, On, At, Waking, Busy
<1>8. Registered'
  BY <1>1, <1>2, <1>3, <1>4, Identifiers DEF Registered, On, Settling, Resuming
<1>9. Relies'
  BY <1>1, <1>2, <1>3, <1>4, Identifiers DEF Relies, Registered, On
<1>10. Alone'
  BY <1>1, <1>2, <1>3, <1>4, Identifiers DEF Alone, Registered, Relies, On
<1>11. Signals'
  BY <1>1, <1>2, <1>3, <1>4, Identifiers DEF Signals, Registered, TypeOK
<1>12. RunsOnlyWhenResolved'
  BY <1>1, <1>2, <1>3, <1>4, LatestIsRouted, Identifiers DEF RunsOnlyWhenResolved
<1> QED
  BY <1>5, <1>6, <1>7, <1>8, <1>9, <1>10, <1>11, <1>12

\* The session it closes is not registered any more.
LEMMA CloseBrowserKeeps ==
  ASSUME IInv, NEW q \in Requests, CloseBrowser(q)
  PROVE  IInv'
<1> USE DEF IInv
<1>1. /\ At(q, "close") /\ Done(q)
      /\ worker[Run(request[q].id)] \in {"idle", "ended", "closed"}
      /\ worker' = [worker EXCEPT ![Run(request[q].id)] = "closed"]
      /\ UNCHANGED <<server, caller, status, expired, live, continuations, waits, corrected, signal, holder>>
  BY DEF CloseBrowser, registries
<1>2. PICK i \in Ids : i = request[q].id /\ request[q].stage = "close" /\ request[q] # None
  BY <1>1, AtOn
<1>3. /\ request' \in [Requests -> Operations \cup {None}] /\ request'[q] = None
      /\ \A p \in Requests : p # q => request'[p] = request[p]
  BY <1>1, Finishes
<1>4. /\ worker' \in [Runs -> {"none", "run", "opened", "retain", "paused", "idle", "ended", "closed"}]
      /\ \A s \in Runs : worker'[s] = IF s = Run(i) THEN "closed" ELSE worker[s]
  BY <1>1, <1>2, Identifiers DEF TypeOK
<1>5. /\ \A j \in live : Run(j) # Run(i)
      /\ caller[Run(i)] = "returned" /\ waits \subseteq live
  BY <1>2 DEF Relies, On, Registered
<1>6. \A s \in Runs : Pauses(s)' = Pauses(s) /\ Latest(s)' = Latest(s)
  BY <1>1, <1>2, <1>3, <1>4, <1>5, PausesStay
<1>7. Numbered'
  BY <1>1, <1>2, <1>3, <1>4, <1>5, NumberedStays
<1>8. TypeOK'
  BY <1>1, <1>2, <1>3, <1>4, <1>5, <1>6, Identifiers DEF TypeOK
<1>9. Threads'
  BY <1>1, <1>2, <1>3, <1>4, <1>5, <1>6 DEF Threads, On, At, Waking, Busy
<1>10. Registered'
  BY <1>1, <1>2, <1>3, <1>4, <1>5, <1>6, Identifiers DEF Registered, On
<1>11. Relies'
  BY <1>1, <1>2, <1>3, <1>4, <1>5, <1>6 DEF Relies, Registered, On, Resuming
<1>12. Alone'
  BY <1>1, <1>2, <1>3, <1>4, <1>5, <1>6 DEF Alone, Registered, Relies, On
<1>13. Signals'
  BY <1>1, <1>2, <1>3, <1>4, <1>5, <1>6, Identifiers DEF Signals, Registered, TypeOK
<1>14. RunsOnlyWhenResolved'
  BY <1>1, <1>2, <1>3, <1>4, <1>5, <1>6, Identifiers DEF RunsOnlyWhenResolved
<1> QED
  BY <1>7, <1>8, <1>9, <1>10, <1>11, <1>12, <1>13, <1>14

LEMMA StopServerKeeps ==
  ASSUME IInv, StopServer
  PROVE  IInv'
<1> USE DEF IInv
<1>1. /\ \A q \in Requests : request[q] = None
      /\ server' = "stopping"
      /\ UNCHANGED <<caller, worker, status, expired, live, continuations, waits, corrected, signal, holder, request>>
  BY DEF StopServer, registries
<1>2. \A s \in Runs : Pauses(s)' = Pauses(s) /\ Latest(s)' = Latest(s)
  BY <1>1, PausesStay
<1>3. Numbered'
  BY <1>1, NumberedStays
<1>4. TypeOK'
  BY <1>1, <1>2, Identifiers DEF TypeOK, On, At, Settling, Resuming, Waking, Busy
<1>5. Threads'
  BY <1>1, <1>2, Identifiers DEF Threads, On, At, Settling, Resuming, Waking, Busy
<1>6. Registered'
  BY <1>1, <1>2, Identifiers DEF Registered, On, Settling, Resuming
<1>7. Relies'
  BY <1>1, <1>2, Identifiers DEF Relies, Registered, On, Settling, Resuming
<1>8. Alone'
  BY <1>1, <1>2, Identifiers DEF Alone, Registered, Relies, On, Settling, Resuming
<1>9. Signals'
  BY <1>1, <1>2, LatestIsRouted, Identifiers DEF Signals, Registered, TypeOK
<1>10. RunsOnlyWhenResolved'
  BY <1>1, <1>2, LatestIsRouted, Identifiers DEF RunsOnlyWhenResolved
<1> QED
  BY <1>3, <1>4, <1>5, <1>6, <1>7, <1>8, <1>9, <1>10

LEMMA CancelWaitsKeeps ==
  ASSUME IInv, CancelWaits
  PROVE  IInv'
<1> USE DEF IInv
<1>1. /\ server = "stopping" /\ server' = "draining"
      /\ signal' = [r \in Runs |-> IF \E i \in waits : Run(i) = r THEN "cancel" ELSE signal[r]]
      /\ UNCHANGED <<caller, worker, status, expired, live, continuations, waits, corrected, holder, request>>
  BY DEF CancelWaits, registries
<1>2. /\ signal' \in [Runs -> {"none", "unset", "resume", "cancel"}]
      /\ \A r \in Runs : signal'[r] = "resume" => signal[r] = "resume"
      /\ \A q \in Requests : request[q] = None
  BY <1>1 DEF TypeOK, Threads
<1>3. \A s \in Runs : Pauses(s)' = Pauses(s) /\ Latest(s)' = Latest(s)
  BY <1>1, <1>2, PausesStay
<1>4. Numbered'
  BY <1>1, <1>2, NumberedStays
<1>5. TypeOK'
  BY <1>1, <1>2, <1>3, Identifiers DEF TypeOK
<1>6. Threads'
  BY <1>1, <1>2, <1>3, Identifiers DEF Threads, On, At, Waking, Busy
<1>7. Registered'
  BY <1>1, <1>2, <1>3, Identifiers DEF Registered, On, Settling, Resuming
<1>8. Relies'
  BY <1>1, <1>2, <1>3, Identifiers DEF Relies, Registered, On, Settling, Resuming
<1>9. Alone'
  BY <1>1, <1>2, <1>3, Identifiers DEF Alone, Registered, Relies, On
<1>10. Signals'
  BY <1>1, <1>2, <1>3, LatestIsRouted, Identifiers DEF Signals, Registered, TypeOK
<1>11. RunsOnlyWhenResolved'
  BY <1>1, <1>2, <1>3, LatestIsRouted, Identifiers DEF RunsOnlyWhenResolved
<1> QED
  BY <1>4, <1>5, <1>6, <1>7, <1>8, <1>9, <1>10, <1>11

LEMMA RunsReturnedKeeps ==
  ASSUME IInv, RunsReturned
  PROVE  IInv'
<1> USE DEF IInv
<1>1. /\ server = "draining" /\ server' = "closing"
      /\ \A r \in Runs : caller[r] \in {"fresh", "returned"}
      /\ UNCHANGED <<caller, worker, status, expired, live, continuations, waits, corrected, signal, holder, request>>
  BY DEF RunsReturned, registries
<1>2. \A s \in Runs : Pauses(s)' = Pauses(s) /\ Latest(s)' = Latest(s)
  BY <1>1, PausesStay
<1>3. Numbered'
  BY <1>1, NumberedStays
<1>4. TypeOK'
  BY <1>1, <1>2, Identifiers DEF TypeOK, On, At, Settling, Resuming, Waking, Busy
<1>5. Threads'
  BY <1>1, <1>2, Identifiers DEF Threads, On, At, Settling, Resuming, Waking, Busy
<1>6. Registered'
  BY <1>1, <1>2, Identifiers DEF Registered, On, Settling, Resuming
<1>7. Relies'
  BY <1>1, <1>2, Identifiers DEF Relies, Registered, On, Settling, Resuming
<1>8. Alone'
  BY <1>1, <1>2, Identifiers DEF Alone, Registered, Relies, On, Settling, Resuming
<1>9. Signals'
  BY <1>1, <1>2, LatestIsRouted, Identifiers DEF Signals, Registered, TypeOK
<1>10. RunsOnlyWhenResolved'
  BY <1>1, <1>2, LatestIsRouted, Identifiers DEF RunsOnlyWhenResolved
<1> QED
  BY <1>3, <1>4, <1>5, <1>6, <1>7, <1>8, <1>9, <1>10

\* When every caller is back, the registered sessions are those of replays.
LEMMA CloseBrowsersKeeps ==
  ASSUME IInv, CloseBrowsers
  PROVE  IInv'
<1> USE DEF IInv
<1>1. /\ server = "closing" /\ server' = "down" /\ live' = {}
      /\ worker' = [r \in Runs |-> IF \E i \in live : Run(i) = r THEN "closed" ELSE worker[r]]
      /\ UNCHANGED <<caller, status, expired, continuations, waits, corrected, signal, holder, request>>
  BY DEF CloseBrowsers
<1>2. /\ worker' \in [Runs -> {"none", "run", "opened", "retain", "paused", "idle", "ended", "closed"}]
      /\ \A r \in Runs : worker'[r] = worker[r] \/ (worker'[r] = "closed" /\ \E i \in live : Run(i) = r)
      /\ \A q \in Requests : request[q] = None
  BY <1>1 DEF TypeOK, Threads
<1>3. waits = {}
  BY <1>1, Identifiers, KindsAssumption DEF Threads, Registered, TypeOK
<1>4. \A i \in live : caller[Run(i)] = "returned" /\ Run(i) \in Runs
  BY <1>1, Identifiers DEF Threads, Registered, TypeOK
<1>5. \A s \in Runs : Pauses(s)' = Pauses(s) /\ Latest(s)' = Latest(s)
  BY <1>1, <1>2, <1>3, <1>4, PausesStay
<1>6. Numbered'
  BY <1>1, <1>2, <1>3, <1>4, NumberedStays
<1>7. TypeOK'
  BY <1>1, <1>2, <1>3, <1>4, <1>5, Identifiers DEF TypeOK
<1>8. Threads'
  BY <1>1, <1>2, <1>3, <1>4, <1>5, Identifiers DEF Threads, On, At, Waking, Busy
<1>9. Registered'
  BY <1>1, <1>2, <1>3, <1>4, <1>5, Identifiers DEF Registered
<1>10. Relies'
  BY <1>1, <1>2, <1>3, <1>4, <1>5, Identifiers DEF Relies, Registered, On
<1>11. Alone'
  BY <1>1, <1>2, <1>3, <1>4, <1>5, Identifiers DEF Alone, Registered, Relies, On
<1>12. Signals'
  BY <1>1, <1>2, <1>3, <1>4, <1>5, Identifiers DEF Signals, Registered, TypeOK
<1>13. RunsOnlyWhenResolved'
  BY <1>1, <1>2, <1>3, <1>4, <1>5, Identifiers DEF RunsOnlyWhenResolved
<1> QED
  BY <1>6, <1>7, <1>8, <1>9, <1>10, <1>11, <1>12, <1>13
------------------------------------------------------------------------------
(* The theorems *)

LEMMA StepKeeps ==
  ASSUME IInv, [Next]_vars
  PROVE  IInv'
<1>1. ASSUME NEW r \in Runs, CallerExecutes(r) \/ WorkerStep(r) \/ CallerStep(r)
      PROVE  IInv'
  BY <1>1, CallerExecutesKeeps, RunEndsKeeps, RunPausesKeeps, PauseRecordedKeeps,
     PauseFailsKeeps, RetainContinuationKeeps, ReplayRegistersKeeps, DiscoveryWaitsKeeps,
     DiscoveryWakesKeeps, CallerReturnsKeeps
     DEF WorkerStep, CallerStep
<1>2. ASSUME NEW q \in Requests, OperatorAsks(q)
      PROVE  IInv'
  BY <1>2, ClaimKeeps, ReleaseKeeps, TouchKeeps, BeginResumeKeeps, TerminateKeeps
     DEF OperatorAsks
<1>3. ASSUME NEW q \in Requests, RequestStep(q)
      PROVE  IInv'
  BY <1>3, TouchedKeeps, ValidateKeeps, ReopenKeeps, CompleteResumeKeeps, SignalResumeKeeps,
     ReplayResumesKeeps, ReplayPausesAgainKeeps, ReplayFinishesKeeps, CancelWaitKeeps,
     CallerCompletedKeeps, CloseBrowserKeeps
     DEF RequestStep
<1>4. CASE StopServer \/ Shutdown
  BY <1>4, StopServerKeeps, CancelWaitsKeeps, RunsReturnedKeeps, CloseBrowsersKeeps
     DEF Shutdown
<1>5. CASE UNCHANGED vars
  <2>1. /\ UNCHANGED <<server, caller, worker, status, expired, live, continuations, waits, corrected, signal, holder, request>>
    BY <1>5 DEF vars, registries
  <2>2. \A s \in Runs : Pauses(s)' = Pauses(s) /\ Latest(s)' = Latest(s)
    BY <2>1, PausesStay
  <2>3. TypeOK' /\ Numbered' /\ Threads'
    BY <2>1, <2>2 DEF IInv, TypeOK, Numbered, Threads, At
  <2>4. Registered' /\ Relies' /\ Alone' /\ Signals' /\ RunsOnlyWhenResolved'
    BY <2>1, <2>2 DEF IInv, Registered, Relies, Alone, On, Signals, RunsOnlyWhenResolved
  <2> QED
    BY <2>3, <2>4 DEF IInv
<1> QED
  BY <1>1, <1>2, <1>3, <1>4, <1>5, ExpireKeeps DEF Next

THEOREM InductiveInvariant == Spec => []IInv
BY InitInv, StepKeeps, PTL DEF Spec

\* Whatever the callers, the request threads and the shutdown do in which order, an
\* operator's viewport or input has the browser to itself, under the claim it was
\* checked against, and what is registered is open (viewport, send_input, terminate
\* and the registrations of composition.py).
THEOREM OperatorAlwaysHasTheBrowser == Spec => []OperatorHasTheBrowser
<1>1. IInv => OperatorHasTheBrowser
  <2> SUFFICES ASSUME IInv
               PROVE  OperatorHasTheBrowser
    OBVIOUS
  <2>1. LiveSessionsAreOpen
    BY Identifiers DEF IInv, Registered, LiveSessionsAreOpen, Busy, TypeOK
  <2>2. ASSUME NEW q \in Requests, At(q, "touch")
        PROVE  status[request[q].id] = "claimed" /\ worker[Run(request[q].id)] = "idle"
    <3>1. request[q].id \in Ids /\ request[q].stage = "touch" /\ request[q] # None
      BY <2>2, AtOn DEF IInv
    <3> QED
      BY <3>1 DEF IInv, Relies, On
  <2> QED
    BY <2>1, <2>2 DEF IInv, OperatorHasTheBrowser
<1> QED
  BY <1>1, InductiveInvariant, PTL

\* Automation goes on after a pause only if that pause was resolved, whichever of the
\* threads wakes it and whatever ended the pause (DiscoveryWakes and ReplayResumes).
THEOREM AutomationRunsOnlyWhenResolved == Spec => []RunsOnlyWhenResolved
<1>1. IInv => RunsOnlyWhenResolved
  BY DEF IInv
<1> QED
  BY <1>1, InductiveInvariant, PTL
=============================================================================
