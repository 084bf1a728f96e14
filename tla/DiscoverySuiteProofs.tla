------------------------- MODULE DiscoverySuiteProofs -------------------------
(***************************************************************************)
(* The registry that the discovery suites publish to implements            *)
(* CapabilityCatalog, for any processes, threads, tenants, codes and       *)
(* bounds.                                                                 *)
(***************************************************************************)
EXTENDS DiscoverySuite, TLAPS, WellFoundedInduction

(***************************************************************************)
(* What the lock, the order of the file operations and the flush establish *)
(* together: only durable names are confirmed; the version of a writer is  *)
(* above all files until its own is linked, and its file is durable before *)
(* it is read back.                                                        *)
(***************************************************************************)
Publishable(file) ==
  /\ file \in [version : 1 .. MaxVersion, content : Artifacts]
  /\ ~file.content.extended => Proven(file.content)

FilesOrdered ==
  /\ \A file \in files : Publishable(file)
  /\ confirmed \subseteq synced /\ synced \subseteq files

WriterPrepared ==
  writer # None =>
    /\ writer = [thread |-> writer.thread, stage |-> writer.stage, file |-> writer.file]
    /\ writer.thread \in Threads
    /\ writer.stage \in {"write", "sync", "load"}
    /\ Publishable(writer.file)
    /\ writer.stage = "write" => \A file \in files : file.version < writer.file.version
    /\ writer.stage = "sync" => writer.file \in files
    /\ writer.stage = "load" => writer.file \in synced

RegistryInvariant == FilesOrdered /\ WriterPrepared

(***************************************************************************)
(* A suite, stored or read by a request.  What it holds as its artifact is *)
(* its own primary with its own scenarios, and every tenant that it added  *)
(* has been replayed; of a primary discovered here, nothing else is        *)
(* claimed yet.                                                            *)
(***************************************************************************)
Parts(suite) == {suite.primary.trace} \cup {scenario.trace : scenario \in suite.scenarios}

FreshPrimary(suite) ==
  ~suite.primary.extended =>
    suite.primary.scenarios = {} /\ suite.primary.tenants = {suite.tenant}

Matches(suite, artifact) ==
  /\ artifact \in Artifacts
  /\ artifact.trace = suite.primary.trace
  /\ artifact.extended = suite.primary.extended
  /\ artifact.scenarios = suite.primary.scenarios \cup suite.scenarios

ProvenFor(artifact, tenant, parts) ==
  \A trace \in parts : [tenant |-> tenant, trace |-> trace] \in artifact.proven

OthersProven(suite, artifact) ==
  ~suite.primary.extended =>
    \A tenant \in artifact.tenants \ {suite.tenant} : ProvenFor(artifact, tenant, Parts(suite))

Sound(suite) ==
  /\ suite \in Suites
  /\ FreshPrimary(suite)
  /\ suite.artifact # None => Matches(suite, suite.artifact) /\ OthersProven(suite, suite.artifact)
  /\ suite.status \in {"validated", "published"} => suite.artifact # None

\* What a request was asked for.
Proper(asked) ==
  /\ asked.op = "scenario" => asked.code \in Codes
  /\ asked.op = "validate" => asked.tenant \in Tenants

SuitesSound ==
  /\ suites \in [Processes -> Suites \cup {None}]
  /\ task = [t \in Threads |-> task[t]]
  /\ \A p \in Processes : suites[p] # None => Sound(suites[p])
  /\ \A t \in Threads : task[t] # None =>
       /\ Proper(task[t]) /\ Sound(task[t].suite)
       /\ task[t].suite.status \in {"collecting", "validated"}
       /\ Suite(t) # None
  /\ traces \in Nat

\* The file being written is the replayed artifact of the suite that its writer read.
WriterServes ==
  writer # None =>
    LET t == writer.thread
    IN /\ t \in Threads /\ task[t] # None /\ task[t].op = "finalize" /\ ~task[t].suite.risky
       /\ writer.file.content = Replayed(task[t].suite, task[t].suite.tenant)

PublishedConfirmed ==
  \A p \in Processes : suites[p] # None /\ suites[p].status = "published" =>
    [version |-> suites[p].version, content |-> suites[p].artifact] \in confirmed

RequestsInvariant == SuitesSound /\ WriterServes /\ PublishedConfirmed

SuiteInvariant == RegistryInvariant /\ RequestsInvariant

------------------------------------------------------------------------------
\* A set of numbers with an upper bound has a largest one: the version that
\* publish_next computes exists and is above every version in the directory.
LEMMA BoundedMax ==
  ASSUME NEW S, S \subseteq Nat, S # {}, NEW bound \in Nat, \A x \in S : x <= bound
  PROVE  /\ Max(S) \in S
         /\ \A x \in S : Max(S) >= x
<1> DEFINE Below == {bound - x : x \in S}
<1>1. Below \subseteq Nat /\ Below # {}
  <2>1. \A x \in S : bound - x \in Nat
    OBVIOUS
  <2>2. PICK x \in S : TRUE
    OBVIOUS
  <2>3. bound - x \in Below
    BY <2>2
  <2> QED
    BY <2>1, <2>3, Zenon
<1>2. PICK least \in Below : \A other \in Below : ~(<<other, least>> \in OpToRel(<, Nat))
  BY <1>1, WFMin, NatLessThanWellFounded, Zenon
<1>3. \A other \in Below : ~(other < least)
  BY <1>1, <1>2, Zenon DEF OpToRel
<1>4. PICK greatest \in S : least = bound - greatest
  OBVIOUS
<1>5. \A x \in S : greatest >= x
  <2> SUFFICES ASSUME NEW x \in S PROVE greatest >= x
    OBVIOUS
  <2>1. bound - x \in Below
    OBVIOUS
  <2>2. ~(bound - x < bound - greatest)
    BY <2>1, <1>3, <1>4, Zenon
  <2> QED
    BY <2>2, <1>4
<1> QED
  BY <1>4, <1>5, Zenon DEF Max

\* The next version is above every version in the directory.
LEMMA NextVersionIsNew ==
  ASSUME FilesOrdered, NEW proposed \in Nat \ {0}
  PROVE  /\ NextVersion(proposed) \in Nat \ {0}
         /\ \A file \in files : file.version < NextVersion(proposed)
<1> DEFINE S == {proposed} \cup {version + 1 : version \in Versions}
           bound == proposed + MaxVersion + 1
<1>1. MaxVersion \in Nat
  BY ThreadsAssumption
<1>2. \A version \in Versions : version \in Nat /\ version <= MaxVersion
  BY ThreadsAssumption DEF Versions, FilesOrdered, Publishable
<1>3. S \subseteq Nat \ {0} /\ S # {} /\ bound \in Nat /\ \A x \in S : x <= bound
  BY <1>1, <1>2
<1>4. Max(S) \in S /\ \A x \in S : Max(S) >= x
  <2> HIDE DEF S, bound
  <2> QED
    BY <1>3, BoundedMax
<1>5. \A file \in files : file.version + 1 \in S
  BY DEF Versions
<1>6. ASSUME NEW file \in files
      PROVE  file.version < Max(S)
  <2>1. file.version + 1 \in S /\ file.version \in Nat
    BY <1>5, <1>6, ThreadsAssumption DEF FilesOrdered, Publishable
  <2> HIDE DEF S, bound
  <2>2. Max(S) >= file.version + 1 /\ Max(S) \in Nat
    BY <2>1, <1>3, <1>4
  <2> DEFINE greatest == Max(S)
  <2> HIDE DEF greatest
  <2>3. greatest >= file.version + 1 /\ greatest \in Nat
    BY <2>2 DEF greatest
  <2>4. file.version < greatest
    BY <2>1, <2>3
  <2> QED
    BY <2>4 DEF greatest
<1> QED
  BY <1>3, <1>4, <1>6 DEF NextVersion

------------------------------------------------------------------------------
(* The operations of the registry *)

LEMMA BeginPublishKeeps ==
  ASSUME RegistryInvariant, NEW t \in Threads, NEW proposed \in Nat \ {0},
         NEW content \in Artifacts, ~content.extended => Proven(content),
         BeginPublish(t, content, proposed)
  PROVE  RegistryInvariant'
<1>1. FilesOrdered'
  BY DEF RegistryInvariant, FilesOrdered, BeginPublish
<1> DEFINE version == NextVersion(proposed)
<1>2. version \in Nat \ {0} /\ version <= MaxVersion
  BY NextVersionIsNew DEF RegistryInvariant, BeginPublish
<1>3. \A file \in files : file.version < version
  BY NextVersionIsNew DEF RegistryInvariant
<1>4. /\ writer' = [thread |-> t, stage |-> "write",
                    file |-> [version |-> version, content |-> content]]
      /\ files' = files
  BY DEF BeginPublish
<1>5. WriterPrepared'
  <2> HIDE DEF version
  <2>1. Publishable([version |-> version, content |-> content])
    BY <1>2 DEF Publishable
  <2> QED
    BY <1>3, <1>4, <2>1, ThreadsAssumption DEF WriterPrepared
<1> QED
  BY <1>1, <1>5 DEF RegistryInvariant

LEMMA LinkFileKeeps ==
  ASSUME RegistryInvariant, NEW t, LinkFile(t)
  PROVE  RegistryInvariant'
BY DEF RegistryInvariant, FilesOrdered, WriterPrepared, LinkFile, At

LEMMA SyncDirectoryKeeps ==
  ASSUME RegistryInvariant, NEW t, SyncDirectory(t)
  PROVE  RegistryInvariant'
BY DEF RegistryInvariant, FilesOrdered, WriterPrepared, SyncDirectory, At

LEMMA ConfirmPublicationKeeps ==
  ASSUME RegistryInvariant, NEW t, ConfirmPublication(t)
  PROVE  RegistryInvariant'
BY DEF RegistryInvariant, FilesOrdered, WriterPrepared, ConfirmPublication, At

LEMMA FailPublicationKeeps ==
  ASSUME RegistryInvariant, NEW t, FailPublication(t)
  PROVE  RegistryInvariant'
BY DEF RegistryInvariant, FilesOrdered, WriterPrepared, FailPublication

LEMMA StopProcessKeeps ==
  ASSUME RegistryInvariant, NEW p, StopProcess(p)
  PROVE  RegistryInvariant'
BY DEF RegistryInvariant, FilesOrdered, WriterPrepared, StopProcess

\* What is lost was not flushed, and only what was flushed is confirmed.
LEMMA LosePowerKeeps ==
  ASSUME RegistryInvariant, LosePower
  PROVE  /\ RegistryInvariant'
         /\ confirmed \subseteq files' /\ files' \subseteq files
<1>1. PICK lost \in SUBSET (files \ synced) : files' = files \ lost
  BY DEF LosePower
<1>2. synced \subseteq files' /\ files' \subseteq files
  BY <1>1 DEF RegistryInvariant, FilesOrdered
<1> QED
  BY <1>2 DEF LosePower, RegistryInvariant, FilesOrdered, WriterPrepared

LEMMA RegistryUnchangedKeeps ==
  ASSUME RegistryInvariant, UNCHANGED registry
  PROVE  RegistryInvariant'
BY DEF RegistryInvariant, FilesOrdered, WriterPrepared, registry

------------------------------------------------------------------------------
(* The artifacts of a suite *)

LEMMA PartsAreTraces ==
  ASSUME NEW suite \in Suites
  PROVE  Parts(suite) \subseteq Nat
BY DEF Parts, Suites, Artifacts, Scenarios

\* The artifact that a suite would hold by merging: nothing is claimed yet but the
\* tenant of a primary discovered here.
LEMMA MergedMatches ==
  ASSUME NEW suite, Sound(suite)
  PROVE  Matches(suite, Merged(suite)) /\ OthersProven(suite, Merged(suite))
<1>1. suite.primary \in Artifacts /\ suite.scenarios \subseteq Scenarios
  BY DEF Sound, Suites
<1>2. Matches(suite, Merged(suite)) /\ Merged(suite).tenants = suite.primary.tenants
  BY <1>1 DEF Matches, Merged, Artifacts
<1> QED
  BY <1>2 DEF OthersProven, Sound, FreshPrimary

LEMMA CandidateMatches ==
  ASSUME NEW suite, Sound(suite)
  PROVE  Matches(suite, Candidate(suite)) /\ OthersProven(suite, Candidate(suite))
BY MergedMatches DEF Candidate, Sound

\* Replaying for a tenant proves every part for it and forgets no proof.
LEMMA ReplayedMatches ==
  ASSUME NEW suite, Sound(suite), NEW tenant \in Tenants
  PROVE  LET replayed == Replayed(suite, tenant)
         IN /\ Matches(suite, replayed) /\ OthersProven(suite, replayed)
            /\ replayed.tenants = Candidate(suite).tenants
            /\ ProvenFor(replayed, tenant, Parts(suite))
<1> DEFINE candidate == Candidate(suite)
           proofs == {[tenant |-> tenant, trace |-> part] : part \in Parts(suite)}
           replayed == Replayed(suite, tenant)
<1>1. Matches(suite, candidate) /\ OthersProven(suite, candidate)
  BY CandidateMatches
<1>2. proofs \subseteq [tenant : Tenants, trace : Nat]
  BY PartsAreTraces DEF Sound
<1>3. replayed = [candidate EXCEPT !.proven = @ \cup proofs]
  BY DEF Replayed, Parts
<1> HIDE DEF candidate, replayed
<1>4. Matches(suite, replayed) /\ replayed.tenants = candidate.tenants
      /\ replayed.proven = candidate.proven \cup proofs
  BY <1>1, <1>2, <1>3 DEF Matches, Artifacts
<1>5. OthersProven(suite, replayed)
  BY <1>1, <1>4 DEF OthersProven, ProvenFor
<1>6. ProvenFor(replayed, tenant, Parts(suite))
  BY <1>4 DEF ProvenFor
<1> QED
  BY <1>4, <1>5, <1>6 DEF replayed, candidate

\* What is published has been replayed for every tenant it claims.
LEMMA ReplayedIsProven ==
  ASSUME NEW suite, Sound(suite)
  PROVE  LET replayed == Replayed(suite, suite.tenant)
         IN replayed \in Artifacts /\ (~replayed.extended => Proven(replayed))
<1> DEFINE replayed == Replayed(suite, suite.tenant)
<1>1. suite.tenant \in Tenants
  BY DEF Sound, Suites
<1>2. /\ Matches(suite, replayed) /\ OthersProven(suite, replayed)
      /\ ProvenFor(replayed, suite.tenant, Parts(suite))
  BY <1>1, ReplayedMatches
<1> HIDE DEF replayed
<1>3. ASSUME ~replayed.extended
      PROVE  Proven(replayed)
  <2>1. ~suite.primary.extended
    BY <1>2, <1>3 DEF Matches
  <2>2. replayed.scenarios = suite.scenarios /\ replayed.trace = suite.primary.trace
    BY <1>2, <2>1 DEF Matches, Sound, FreshPrimary
  <2>3. {replayed.trace} \cup {scenario.trace : scenario \in replayed.scenarios} = Parts(suite)
    BY <2>2 DEF Parts
  <2>4. \A tenant \in replayed.tenants : ProvenFor(replayed, tenant, Parts(suite))
    BY <1>2, <2>1 DEF OthersProven
  <2> QED
    BY <2>3, <2>4 DEF Proven, ProvenFor
<1> QED
  BY <1>2, <1>3 DEF Matches, replayed
------------------------------------------------------------------------------
(* Suites and the requests that have read them *)

LEMMA StoreKeeps ==
  ASSUME SuitesSound, PublishedConfirmed, NEW t \in Threads,
         NEW suite, Sound(suite), Store(t, suite), confirmed \subseteq confirmed',
         suite.status = "published" =>
           [version |-> suite.version, content |-> suite.artifact] \in confirmed'
  PROVE  /\ suites' \in [Processes -> Suites \cup {None}]
         /\ \A p \in Processes : suites'[p] # None => Sound(suites'[p])
         /\ \A p \in Processes : suites[p] # None => suites'[p] # None
         /\ Suite(t)' # None
         /\ PublishedConfirmed'
<1>1. ProcessOf[t] \in Processes
  BY ThreadsAssumption
<1>2. suite \in Suites /\ suite # None
  BY SuiteAssumption DEF Sound
<1>3. suites' \in [Processes -> Suites \cup {None}]
  BY <1>1, <1>2 DEF Store, SuitesSound
<1>4. /\ suites'[ProcessOf[t]] = suite
      /\ \A p \in Processes : suites'[p] = suite \/ suites'[p] = suites[p]
  BY <1>1 DEF Store, SuitesSound
<1>5. \A p \in Processes : suites'[p] # None => Sound(suites'[p])
  BY <1>4, Zenon DEF SuitesSound
<1>6. \A p \in Processes : suites[p] # None => suites'[p] # None
  BY <1>2, <1>4, Zenon
<1>7. PublishedConfirmed'
  BY <1>4 DEF PublishedConfirmed
<1> QED
  BY <1>2, <1>3, <1>4, <1>5, <1>6, <1>7 DEF Suite

\* A request ends by storing a suite, after or without a publication of its own.
LEMMA EndOfRequestKeeps ==
  ASSUME RequestsInvariant, NEW t \in Threads,
         NEW suite, Sound(suite), Store(t, suite), Done(t),
         confirmed \subseteq confirmed',
         suite.status = "published" =>
           [version |-> suite.version, content |-> suite.artifact] \in confirmed',
         writer' = None \/ (writer' = writer /\ ~Publishing(t)),
         traces' \in Nat
  PROVE  RequestsInvariant'
<1>1. /\ suites' \in [Processes -> Suites \cup {None}]
      /\ \A p \in Processes : suites'[p] # None => Sound(suites'[p])
      /\ \A p \in Processes : suites[p] # None => suites'[p] # None
      /\ PublishedConfirmed'
  BY StoreKeeps DEF RequestsInvariant
<1>2. task' = [u \in Threads |-> IF u = t THEN None ELSE task[u]]
  BY DEF Done, RequestsInvariant, SuitesSound
<1>3. \A u \in Threads : task'[u] = None \/ (u # t /\ task'[u] = task[u])
  BY <1>2
<1>4. \A u \in Threads : task'[u] # None =>
        /\ Proper(task'[u]) /\ Sound(task'[u].suite)
        /\ task'[u].suite.status \in {"collecting", "validated"}
        /\ Suite(u)' # None
  <2> SUFFICES ASSUME NEW u \in Threads, task'[u] # None
               PROVE  /\ Proper(task'[u]) /\ Sound(task'[u].suite)
                      /\ task'[u].suite.status \in {"collecting", "validated"}
                      /\ Suite(u)' # None
    OBVIOUS
  <2>1. task'[u] = task[u] /\ task[u] # None
    BY <1>3
  <2>2. Suite(u) # None /\ ProcessOf[u] \in Processes
    BY <2>1, ThreadsAssumption DEF RequestsInvariant, SuitesSound
  <2> QED
    BY <1>1, <2>1, <2>2, Zenon DEF RequestsInvariant, SuitesSound, Suite
<1>5. SuitesSound'
  BY <1>1, <1>2, <1>4 DEF SuitesSound
<1>6. WriterServes'
  <2>1. CASE writer' = None
    BY <2>1 DEF WriterServes
  <2>2. CASE writer' = writer /\ writer # None /\ writer.thread # t /\ writer.thread \in Threads
    <3>1. task'[writer.thread] = task[writer.thread]
      BY <1>2, <2>2
    <3> QED
      BY <2>2, <3>1 DEF RequestsInvariant, WriterServes
  <2>3. writer # None => writer.thread \in Threads
    BY DEF RequestsInvariant, WriterServes
  <2> QED
    BY <2>1, <2>2, <2>3 DEF Publishing
<1> QED
  BY <1>1, <1>5, <1>6 DEF RequestsInvariant
LEMMA ReadsKeeps ==
  ASSUME RequestsInvariant, NEW t \in Threads, NEW request,
         request.suite = Suite(t), Proper(request), Reads(t, request)
  PROVE  RequestsInvariant'
<1>1. /\ Suite(t) # None /\ ProcessOf[t] \in Processes
      /\ Suite(t).status \in {"collecting", "validated"}
  BY ThreadsAssumption DEF Reads
<1>2. Sound(request.suite) /\ request.suite.status \in {"collecting", "validated"}
  BY <1>1, Zenon DEF RequestsInvariant, SuitesSound, Suite
<1>3. task' = [u \in Threads |-> IF u = t THEN request ELSE task[u]]
  BY DEF Reads, RequestsInvariant, SuitesSound
<1>4. \A u \in Threads : (u = t /\ task'[u] = request) \/ task'[u] = task[u]
  BY <1>3
<1>5. suites' = suites /\ traces' = traces /\ writer' = writer /\ confirmed' = confirmed
  BY DEF Reads, registry
<1>6. \A u \in Threads : task'[u] # None =>
        /\ Proper(task'[u]) /\ Sound(task'[u].suite)
        /\ task'[u].suite.status \in {"collecting", "validated"}
        /\ Suite(u)' # None
  <2> SUFFICES ASSUME NEW u \in Threads, task'[u] # None
               PROVE  /\ Proper(task'[u]) /\ Sound(task'[u].suite)
                      /\ task'[u].suite.status \in {"collecting", "validated"}
                      /\ Suite(u)' # None
    OBVIOUS
  <2>1. Suite(u)' = Suite(u)
    BY <1>5 DEF Suite
  <2> QED
    BY <1>1, <1>2, <1>4, <2>1, Zenon DEF RequestsInvariant, SuitesSound
<1>7. SuitesSound'
  BY <1>3, <1>5, <1>6 DEF RequestsInvariant, SuitesSound
<1>8. WriterServes' /\ PublishedConfirmed'
  <2>1. writer # None => writer.thread # t
    BY DEF RequestsInvariant, WriterServes, Reads
  <2>2. writer # None => writer.thread \in Threads /\ task'[writer.thread] = task[writer.thread]
    BY <1>3, <2>1 DEF RequestsInvariant, WriterServes
  <2> QED
    BY <1>5, <2>2 DEF RequestsInvariant, WriterServes, PublishedConfirmed
<1> QED
  BY <1>7, <1>8 DEF RequestsInvariant

\* The registry works on while the suites and requests stay as they are.
LEMMA RequestsUnchangedKeep ==
  ASSUME RequestsInvariant, UNCHANGED <<suites, task, traces>>,
         confirmed \subseteq confirmed',
         writer' = None \/ writer' = writer
           \/ (writer # None /\ writer' # None
                 /\ writer'.thread = writer.thread /\ writer'.file = writer.file)
  PROVE  RequestsInvariant'
<1>1. SuitesSound'
  BY DEF RequestsInvariant, SuitesSound, Suite
<1>2. WriterServes'
  BY DEF RequestsInvariant, WriterServes
<1>3. PublishedConfirmed'
  BY DEF RequestsInvariant, PublishedConfirmed
<1> QED
  BY <1>1, <1>2, <1>3 DEF RequestsInvariant

------------------------------------------------------------------------------
(* One lemma per group of requests *)

\* A new suite joins a process that has none.
LEMMA NewSuiteKeeps ==
  ASSUME RequestsInvariant, NEW t \in Threads, task[t] = None,
         NEW suite, Sound(suite), suite.status # "published", Store(t, suite),
         UNCHANGED <<registry, task>>, traces' \in Nat
  PROVE  RequestsInvariant'
<1>1. confirmed' = confirmed /\ writer' = writer /\ task' = task
  BY DEF registry
<1>2. /\ suites' \in [Processes -> Suites \cup {None}]
      /\ \A p \in Processes : suites'[p] # None => Sound(suites'[p])
      /\ \A p \in Processes : suites[p] # None => suites'[p] # None
      /\ PublishedConfirmed'
  BY <1>1, StoreKeeps DEF RequestsInvariant
<1>3. \A u \in Threads : Suite(u) # None => Suite(u)' # None
  BY <1>2, ThreadsAssumption DEF Suite
<1>4. SuitesSound'
  BY <1>1, <1>2, <1>3 DEF RequestsInvariant, SuitesSound
<1>5. WriterServes'
  BY <1>1 DEF RequestsInvariant, WriterServes
<1> QED
  BY <1>2, <1>4, <1>5 DEF RequestsInvariant

LEMMA CreateKeeps ==
  ASSUME RequestsInvariant, NEW t \in Threads, Create(t)
  PROVE  RequestsInvariant'
<1>1. PICK tenant \in Tenants, status \in {"collecting", "failed"}, risky \in BOOLEAN :
        Store(t, [status |-> status, tenant |-> tenant, risky |-> risky, proposed |-> 1,
                  primary |-> [trace |-> traces + 1, scenarios |-> {}, tenants |-> {tenant},
                               proven |-> {}, extended |-> FALSE],
                  scenarios |-> {}, artifact |-> None, version |-> None])
  BY DEF Create
<1> DEFINE primary == [trace |-> traces + 1, scenarios |-> {}, tenants |-> {tenant},
                       proven |-> {}, extended |-> FALSE]
           suite == [status |-> status, tenant |-> tenant, risky |-> risky, proposed |-> 1,
                     primary |-> primary, scenarios |-> {}, artifact |-> None, version |-> None]
<1>2. traces \in Nat /\ traces' \in Nat
  BY DEF Create, RequestsInvariant, SuitesSound
<1>3. primary \in Artifacts
  BY <1>2 DEF Artifacts
<1>4. suite \in Suites
  BY <1>3 DEF Suites, Statuses
<1>5. Sound(suite)
  BY <1>4 DEF Sound, FreshPrimary
<1> QED
  BY <1>1, <1>2, <1>5, NewSuiteKeeps DEF Create

LEMMA FromPublishedKeeps ==
  ASSUME FilesOrdered, RequestsInvariant, NEW t \in Threads, FromPublished(t)
  PROVE  RequestsInvariant'
<1>1. PICK file \in files, tenant \in Tenants :
        Store(t, [status |-> "collecting", tenant |-> tenant, risky |-> FALSE,
                  proposed |-> file.version,
                  primary |-> [file.content EXCEPT !.extended = TRUE],
                  scenarios |-> {}, artifact |-> None, version |-> None])
  BY DEF FromPublished
<1> DEFINE primary == [file.content EXCEPT !.extended = TRUE]
           suite == [status |-> "collecting", tenant |-> tenant, risky |-> FALSE,
                     proposed |-> file.version, primary |-> primary,
                     scenarios |-> {}, artifact |-> None, version |-> None]
<1>2. file.version \in Nat \ {0} /\ file.content \in Artifacts
  BY ThreadsAssumption DEF FilesOrdered, Publishable
<1>3. primary \in Artifacts /\ primary.extended
  BY <1>2 DEF Artifacts
<1>4. suite \in Suites
  BY <1>2, <1>3 DEF Suites, Statuses
<1>5. Sound(suite)
  BY <1>3, <1>4 DEF Sound, FreshPrimary
<1>6. traces' \in Nat
  BY DEF FromPublished, RequestsInvariant, SuitesSound
<1> QED
  BY <1>1, <1>5, <1>6, NewSuiteKeeps DEF FromPublished

LEMMA StartsKeep ==
  ASSUME RequestsInvariant, NEW t \in Threads,
         StartScenario(t) \/ StartValidation(t) \/ StartFinalize(t)
  PROVE  RequestsInvariant'
<1>1. PICK request : request.suite = Suite(t) /\ Proper(request) /\ Reads(t, request)
  <2>1. CASE StartScenario(t)
    <3>1. PICK code \in Codes : Reads(t, [op |-> "scenario", suite |-> Suite(t), code |-> code])
      BY <2>1 DEF StartScenario
    <3> QED
      BY <3>1 DEF Proper
  <2>2. CASE StartValidation(t)
    <3>1. PICK tenant \in Tenants : Reads(t, [op |-> "validate", suite |-> Suite(t), tenant |-> tenant])
      BY <2>2 DEF StartValidation
    <3> QED
      BY <3>1 DEF Proper
  <2>3. CASE StartFinalize(t)
    <3>1. Reads(t, [op |-> "finalize", suite |-> Suite(t), tenant |-> Suite(t).tenant])
      BY <2>3 DEF StartFinalize
    <3> QED
      BY <3>1 DEF Proper
  <2> QED
    BY <2>1, <2>2, <2>3
<1> QED
  BY <1>1, ReadsKeeps
\* What a request knows of the suite that it read.
LEMMA RequestKnows ==
  ASSUME RequestsInvariant, NEW t \in Threads, task[t] # None
  PROVE  /\ Sound(task[t].suite) /\ task[t].suite \in Suites /\ Proper(task[t])
         /\ task[t].suite.status \in {"collecting", "validated"}
         /\ Publishing(t) => task[t].op = "finalize" /\ ~task[t].suite.risky
         /\ traces \in Nat
BY DEF RequestsInvariant, SuitesSound, WriterServes, Publishing, Sound

\* Another scenario leaves the suite without an artifact.
LEMMA FinishScenarioKeeps ==
  ASSUME RequestsInvariant, NEW t \in Threads, FinishScenario(t) \/ RestoreScenarios(t)
  PROVE  RequestsInvariant'
<1> DEFINE read == task[t].suite
           joining(verified) == [code |-> task[t].code, trace |-> traces + 1, verified |-> verified]
<1>1. task[t] # None /\ task[t].op = "scenario" /\ Done(t) /\ UNCHANGED registry
      /\ traces' = traces + 1
  BY DEF FinishScenario, RestoreScenarios, Serving
<1>2. /\ read \in Suites /\ FreshPrimary(read) /\ task[t].code \in Codes
      /\ ~Publishing(t) /\ traces' \in Nat
  BY <1>1, RequestKnows DEF Proper, Sound
<1>3. \A verified \in BOOLEAN : joining(verified) \in Scenarios
  BY <1>1, <1>2 DEF Scenarios
<1>4. PICK suite : Sound(suite) /\ suite.status # "published" /\ Store(t, suite)
  <2> HIDE DEF read, joining
  <2>1. CASE FinishScenario(t)
    <3>1. PICK verified \in BOOLEAN :
            Store(t, [read EXCEPT !.scenarios = @ \cup {joining(verified)},
                                  !.artifact = None, !.status = "collecting"])
      BY <2>1 DEF FinishScenario, read, joining
    <3> DEFINE suite == [read EXCEPT !.scenarios = @ \cup {joining(verified)},
                                     !.artifact = None, !.status = "collecting"]
    <3>2. /\ suite \in Suites /\ suite.artifact = None /\ suite.status = "collecting"
          /\ suite.primary = read.primary /\ suite.tenant = read.tenant
      BY <1>2, <1>3 DEF Suites, Statuses
    <3> HIDE DEF suite
    <3>3. Sound(suite)
      BY <1>2, <3>2 DEF Sound, FreshPrimary
    <3> QED
      BY <3>1, <3>2, <3>3 DEF suite
  <2>2. CASE RestoreScenarios(t)
    <3> DEFINE suite == [read EXCEPT !.scenarios = {joining(TRUE)}, !.artifact = None]
    <3>1. Store(t, suite) /\ read.status = "collecting"
      BY <2>2 DEF RestoreScenarios, read, joining
    <3>2. /\ suite \in Suites /\ suite.artifact = None /\ suite.status = "collecting"
          /\ suite.primary = read.primary /\ suite.tenant = read.tenant
      BY <1>2, <1>3, <3>1 DEF Suites, Statuses
    <3> HIDE DEF suite
    <3>3. Sound(suite)
      BY <1>2, <3>2 DEF Sound, FreshPrimary
    <3> QED
      BY <3>1, <3>2, <3>3
  <2> QED
    BY <2>1, <2>2
<1>5. confirmed' = confirmed /\ writer' = writer
  BY <1>1 DEF registry
<1> QED
  BY <1>1, <1>2, <1>4, <1>5, EndOfRequestKeeps

\* The suite that was read is saved again, with the artifact it would have merged.
LEMMA RecordFailureKeeps ==
  ASSUME RequestsInvariant, NEW t \in Threads, RecordFailure(t)
  PROVE  RequestsInvariant'
<1>1. /\ task[t] # None /\ ~Publishing(t) /\ Done(t) /\ Store(t, task[t].suite)
      /\ confirmed' = confirmed /\ writer' = writer /\ traces' = traces
  BY DEF RecordFailure, registry
<1>2. /\ Sound(task[t].suite) /\ task[t].suite.status \in {"collecting", "validated"}
      /\ traces \in Nat
  BY <1>1, RequestKnows
<1> QED
  BY <1>1, <1>2, EndOfRequestKeeps

\* Another artifact of the same suite.
LEMMA ArtifactKeepsSound ==
  ASSUME NEW read, Sound(read), NEW artifact, Matches(read, artifact), OthersProven(read, artifact),
         NEW status \in {"validated", "failed"}
  PROVE  Sound([read EXCEPT !.artifact = artifact, !.status = status])
<1> DEFINE suite == [read EXCEPT !.artifact = artifact, !.status = status]
<1>1. artifact \in Artifacts /\ read \in Suites
  BY DEF Matches, Sound
<1>2. /\ suite \in Suites /\ suite.artifact = artifact
      /\ suite.primary = read.primary /\ suite.tenant = read.tenant
      /\ suite.scenarios = read.scenarios
  BY <1>1 DEF Suites, Statuses
<1> HIDE DEF suite
<1>3. artifact # None
  BY <1>1, SuiteAssumption
<1>4. Matches(suite, artifact) /\ OthersProven(suite, artifact) /\ FreshPrimary(suite)
  BY <1>2 DEF Matches, OthersProven, Parts, FreshPrimary, Sound
<1> QED
  BY <1>2, <1>3, <1>4 DEF Sound, suite

\* A validation replays every part for the tenant that it adds.
LEMMA FinishValidationKeeps ==
  ASSUME RequestsInvariant, NEW t \in Threads, FinishValidation(t)
  PROVE  RequestsInvariant'
<1> DEFINE read == task[t].suite
           tenant == task[t].tenant
           replayed == Replayed(read, tenant)
           artifact == [replayed EXCEPT !.tenants = @ \cup {tenant}]
<1>1. /\ task[t] # None /\ task[t].op = "validate" /\ Done(t) /\ traces' = traces
      /\ confirmed' = confirmed /\ writer' = writer
      /\ Store(t, [read EXCEPT !.artifact = artifact, !.status = "validated"])
  BY DEF FinishValidation, Serving, registry
<1>2. Sound(read) /\ tenant \in Tenants /\ ~Publishing(t) /\ traces \in Nat
  BY <1>1, RequestKnows DEF Proper
<1>3. /\ Matches(read, replayed) /\ OthersProven(read, replayed)
      /\ ProvenFor(replayed, tenant, Parts(read))
  BY <1>2, ReplayedMatches
<1> HIDE DEF replayed, read, tenant
<1>4. /\ Matches(read, artifact) /\ artifact.tenants = replayed.tenants \cup {tenant}
      /\ artifact.proven = replayed.proven
  BY <1>2, <1>3 DEF Matches, Artifacts
<1>5. OthersProven(read, artifact)
  BY <1>3, <1>4 DEF OthersProven, ProvenFor
<1> DEFINE suite == [read EXCEPT !.artifact = artifact, !.status = "validated"]
<1>6. Sound(suite)
  <2> HIDE DEF artifact
  <2> QED
    BY <1>2, <1>4, <1>5, ArtifactKeepsSound
<1>7. suite.status # "published"
  BY <1>2 DEF Sound, Suites
<1> HIDE DEF suite
<1> QED
  BY <1>1, <1>2, <1>6, <1>7, EndOfRequestKeeps DEF suite, read

\* A finalization that is refused or whose publication fails keeps a candidate.
LEMMA CandidateStoredKeeps ==
  ASSUME RequestsInvariant, NEW t \in Threads, task[t] # None, Done(t), traces' = traces,
         NEW status \in {"validated", "failed"},
         Store(t, [task[t].suite EXCEPT !.artifact = Candidate(task[t].suite), !.status = status]),
         confirmed' = confirmed,
         writer' = None \/ (writer' = writer /\ ~Publishing(t))
  PROVE  RequestsInvariant'
<1> DEFINE read == task[t].suite
           artifact == Candidate(read)
           suite == [read EXCEPT !.artifact = artifact, !.status = status]
<1>1. Sound(read) /\ read \in Suites /\ traces \in Nat
  BY RequestKnows
<1>2. Matches(read, artifact) /\ OthersProven(read, artifact)
  BY <1>1, CandidateMatches
<1>3. Sound(suite)
  <2> HIDE DEF artifact, read
  <2> QED
    BY <1>1, <1>2, ArtifactKeepsSound
<1>4. suite.status # "published"
  <2> HIDE DEF artifact, read
  <2> QED
    BY <1>1 DEF Suites
<1>5. Store(t, suite)
  OBVIOUS
<1> HIDE DEF suite
<1> QED
  BY <1>1, <1>3, <1>4, <1>5, EndOfRequestKeeps

\* The published suite holds what was confirmed, which is what it had replayed.
LEMMA FinishPublicationKeepsSuites ==
  ASSUME RequestsInvariant, WriterPrepared, NEW t \in Threads, FinishPublication(t)
  PROVE  RequestsInvariant'
<1> DEFINE read == task[t].suite
           artifact == Replayed(read, read.tenant)
           version == writer.file.version
           suite == [read EXCEPT !.artifact = artifact, !.status = "published",
                                 !.version = version]
<1>1. /\ task[t] # None /\ Done(t) /\ traces' = traces
      /\ writer # None /\ writer.thread = t /\ writer' = None
      /\ confirmed' = confirmed \cup {writer.file}
      /\ Store(t, [read EXCEPT !.artifact = writer.file.content, !.status = "published",
                               !.version = version])
  BY DEF FinishPublication, Serving, ConfirmPublication, At
<1>2. Sound(read) /\ read \in Suites /\ traces \in Nat /\ read.tenant \in Tenants
  BY <1>1, RequestKnows DEF Suites
<1>3. writer.file.content = artifact /\ Publishable(writer.file)
  BY <1>1 DEF RequestsInvariant, WriterServes, WriterPrepared
<1>4. version \in 1 .. MaxVersion /\ writer.file = [version |-> version, content |-> artifact]
  BY <1>3 DEF Publishable
<1>5. Matches(read, artifact) /\ OthersProven(read, artifact)
  BY <1>2, ReplayedMatches
<1>6. Store(t, suite)
  BY <1>1, <1>3
<1> HIDE DEF read, artifact, version
<1>7. /\ suite \in Suites /\ suite.artifact = artifact /\ suite.version = version
      /\ suite.primary = read.primary /\ suite.tenant = read.tenant
      /\ suite.scenarios = read.scenarios /\ artifact # None
  BY <1>2, <1>4, <1>5, SuiteAssumption DEF Suites, Statuses, Matches
<1> HIDE DEF suite
<1>8. Matches(suite, artifact) /\ OthersProven(suite, artifact) /\ FreshPrimary(suite)
  BY <1>2, <1>5, <1>7 DEF Matches, OthersProven, Parts, FreshPrimary, Sound
<1>9. Sound(suite)
  BY <1>7, <1>8 DEF Sound
<1>10. [version |-> suite.version, content |-> suite.artifact] \in confirmed'
  BY <1>1, <1>4, <1>7
<1> QED
  BY <1>1, <1>2, <1>6, <1>9, <1>10, EndOfRequestKeeps

\* The processes that stop lose their suites, their requests and the lock.
LEMMA StopKeeps ==
  ASSUME RequestsInvariant, NEW p \in Processes, Stop(p)
  PROVE  RequestsInvariant'
<1>1. /\ suites' = [suites EXCEPT ![p] = None] /\ traces' = traces /\ confirmed' = confirmed
      /\ task' = [t \in Threads |-> IF ProcessOf[t] = p THEN None ELSE task[t]]
      /\ writer' = IF writer # None /\ ProcessOf[writer.thread] = p THEN None ELSE writer
  BY DEF Stop, StopProcess
<1>2. suites \in [Processes -> Suites \cup {None}] /\ suites' \in [Processes -> Suites \cup {None}]
  BY <1>1 DEF RequestsInvariant, SuitesSound
<1>3. \A q \in Processes : suites'[q] = IF q = p THEN None ELSE suites[q]
  BY <1>1, <1>2
<1>4. \A t \in Threads : task'[t] = None \/ (ProcessOf[t] # p /\ task'[t] = task[t])
  BY <1>1
<1>5. \A t \in Threads : task'[t] # None =>
        /\ Proper(task'[t]) /\ Sound(task'[t].suite)
        /\ task'[t].suite.status \in {"collecting", "validated"}
        /\ Suite(t)' # None
  <2> SUFFICES ASSUME NEW t \in Threads, task'[t] # None
               PROVE  /\ Proper(task'[t]) /\ Sound(task'[t].suite)
                      /\ task'[t].suite.status \in {"collecting", "validated"}
                      /\ Suite(t)' # None
    OBVIOUS
  <2>1. task'[t] = task[t] /\ task[t] # None /\ ProcessOf[t] # p /\ ProcessOf[t] \in Processes
    BY <1>4, ThreadsAssumption
  <2>2. Suite(t)' = Suite(t)
    BY <1>3, <2>1 DEF Suite
  <2> QED
    BY <2>1, <2>2, Zenon DEF RequestsInvariant, SuitesSound
<1>6. \A q \in Processes : suites'[q] # None => Sound(suites'[q])
  BY <1>3 DEF RequestsInvariant, SuitesSound
<1>7. SuitesSound'
  BY <1>1, <1>2, <1>5, <1>6 DEF RequestsInvariant, SuitesSound
<1>8. WriterServes'
  BY <1>1 DEF RequestsInvariant, WriterServes
<1>9. PublishedConfirmed'
  BY <1>1, <1>3 DEF RequestsInvariant, PublishedConfirmed
<1> QED
  BY <1>7, <1>8, <1>9 DEF RequestsInvariant

LEMMA BlackoutKeeps ==
  ASSUME RequestsInvariant, Blackout
  PROVE  RequestsInvariant'
<1>1. /\ suites' = [p \in Processes |-> None] /\ task' = [t \in Threads |-> None]
      /\ writer' = None /\ traces' = traces
  BY DEF Blackout, LosePower
<1> QED
  BY <1>1 DEF RequestsInvariant, SuitesSound, WriterServes, PublishedConfirmed
------------------------------------------------------------------------------
(* The invariant of the whole, and the refinement *)

LEMMA SuiteInvariantInit == Init => SuiteInvariant
BY ThreadsAssumption
   DEF Init, RegistryInit, SuiteInvariant, RegistryInvariant, FilesOrdered, WriterPrepared,
       RequestsInvariant, SuitesSound, WriterServes, PublishedConfirmed

\* Requests that leave the registry alone.
Elsewhere(t) ==
  \/ Create(t) \/ FromPublished(t)
  \/ StartScenario(t) \/ FinishScenario(t) \/ RestoreScenarios(t)
  \/ StartValidation(t) \/ FinishValidation(t) \/ RecordFailure(t)
  \/ StartFinalize(t) \/ RefuseRisk(t)

LEMMA RefuseRiskKeeps ==
  ASSUME RequestsInvariant, NEW t \in Threads, RefuseRisk(t)
  PROVE  RequestsInvariant'
<1>1. /\ task[t] # None /\ task[t].suite.risky /\ Done(t) /\ traces' = traces
      /\ Store(t, [task[t].suite EXCEPT !.artifact = Candidate(task[t].suite),
                                        !.status = "failed"])
      /\ confirmed' = confirmed /\ writer' = writer
  BY DEF RefuseRisk, Serving, registry
<1>2. ~Publishing(t)
  BY <1>1, RequestKnows
<1> QED
  BY <1>1, <1>2, CandidateStoredKeeps

LEMMA ElsewhereKeeps ==
  ASSUME SuiteInvariant, NEW t \in Threads, Elsewhere(t)
  PROVE  SuiteInvariant' /\ UNCHANGED registry
<1>1. UNCHANGED registry
  BY Zenon DEF Elsewhere, Create, FromPublished, StartScenario, FinishScenario, RestoreScenarios,
     StartValidation, FinishValidation, RecordFailure, StartFinalize, RefuseRisk, Reads
<1>2. RequestsInvariant /\ RegistryInvariant /\ FilesOrdered
  BY DEF SuiteInvariant, RegistryInvariant
<1>3. RequestsInvariant'
  BY <1>2, CreateKeeps, FromPublishedKeeps, StartsKeep, FinishScenarioKeeps, FinishValidationKeeps,
     RecordFailureKeeps, RefuseRiskKeeps, Zenon DEF Elsewhere
<1>4. RegistryInvariant'
  BY <1>1, <1>2, RegistryUnchangedKeeps
<1> QED
  BY <1>1, <1>3, <1>4 DEF SuiteInvariant

\* The final replays prove what is to be published.
LEMMA StartPublicationKeeps ==
  ASSUME SuiteInvariant, NEW t \in Threads, StartPublication(t)
  PROVE  SuiteInvariant' /\ UNCHANGED <<files, confirmed>>
<1> DEFINE suite == task[t].suite
           content == Replayed(suite, suite.tenant)
<1>1. /\ task[t] # None /\ task[t].op = "finalize" /\ ~suite.risky
      /\ BeginPublish(t, content, suite.proposed) /\ UNCHANGED <<suites, task, traces>>
  BY DEF StartPublication, Serving
<1>2. Sound(suite) /\ suite.proposed \in Nat \ {0}
  BY <1>1, RequestKnows DEF SuiteInvariant, Suites
<1>3. content \in Artifacts /\ (~content.extended => Proven(content))
  BY <1>2, ReplayedIsProven
<1>4. RegistryInvariant'
  <2> HIDE DEF suite, content
  <2> QED
    BY <1>1, <1>2, <1>3, BeginPublishKeeps DEF SuiteInvariant
<1>5. /\ writer'.thread = t /\ writer'.file.content = content
      /\ UNCHANGED <<files, confirmed>>
  BY <1>1 DEF BeginPublish
<1>6. RequestsInvariant'
  <2>1. SuitesSound' /\ PublishedConfirmed'
    BY <1>1, <1>5 DEF SuiteInvariant, RequestsInvariant, SuitesSound, PublishedConfirmed, Suite
  <2>2. WriterServes'
    BY <1>1, <1>5 DEF WriterServes
  <2> QED
    BY <2>1, <2>2 DEF RequestsInvariant
<1> QED
  BY <1>4, <1>5, <1>6 DEF SuiteInvariant

\* Linking the file is the step at which callers may find the version.
LEMMA PublishKeeps ==
  ASSUME SuiteInvariant, NEW t \in Threads, Publish(t)
  PROVE  SuiteInvariant' /\ (Catalog!Publish \/ UNCHANGED <<files, confirmed>>)
<1>1. CASE LinkFile(t)
  <2>1. RegistryInvariant'
    BY <1>1, LinkFileKeeps DEF SuiteInvariant
  <2>2. RequestsInvariant'
    BY <1>1, RequestsUnchangedKeep DEF SuiteInvariant, RegistryInvariant, WriterPrepared, Publish, LinkFile, At
  <2>3. Catalog!Publish
    <3>1. writer.file.version \in Nat \ {0}
      BY <1>1, ThreadsAssumption
         DEF SuiteInvariant, RegistryInvariant, WriterPrepared, Publishable, LinkFile, At
    <3>2. /\ \A file \in files : file.version < writer.file.version
          /\ files' = files \cup {writer.file} /\ confirmed' = confirmed
      BY <1>1 DEF SuiteInvariant, RegistryInvariant, WriterPrepared, LinkFile, At
    <3> QED
      BY <3>1, <3>2 DEF Catalog!Publish
  <2> QED
    BY <2>1, <2>2, <2>3 DEF SuiteInvariant
<1>2. CASE SyncDirectory(t)
  <2>1. RegistryInvariant'
    BY <1>2, SyncDirectoryKeeps DEF SuiteInvariant
  <2>2. RequestsInvariant'
    BY <1>2, RequestsUnchangedKeep
       DEF SuiteInvariant, RegistryInvariant, WriterPrepared, Publish, SyncDirectory, At
  <2> QED
    BY <1>2, <2>1, <2>2 DEF SuiteInvariant, SyncDirectory
<1> QED
  BY <1>1, <1>2 DEF Publish

LEMMA FinishPublicationKeeps ==
  ASSUME SuiteInvariant, NEW t \in Threads, FinishPublication(t)
  PROVE  SuiteInvariant' /\ Catalog!Confirm
<1>1. RequestsInvariant' /\ ConfirmPublication(t)
  BY FinishPublicationKeepsSuites DEF SuiteInvariant, RegistryInvariant, FinishPublication
<1>2. RegistryInvariant'
  BY <1>1, ConfirmPublicationKeeps DEF SuiteInvariant
<1>3. Catalog!Confirm
  BY <1>1 DEF SuiteInvariant, RegistryInvariant, FilesOrdered, WriterPrepared, ConfirmPublication,
     At, Catalog!Confirm
<1> QED
  BY <1>1, <1>2, <1>3 DEF SuiteInvariant

LEMMA GiveUpPublicationKeeps ==
  ASSUME SuiteInvariant, NEW t \in Threads, GiveUpPublication(t)
  PROVE  SuiteInvariant' /\ UNCHANGED <<files, confirmed>>
<1>1. /\ task[t] # None /\ FailPublication(t) /\ Done(t) /\ traces' = traces
      /\ Store(t, [task[t].suite EXCEPT !.artifact = Candidate(task[t].suite),
                                        !.status = "validated"])
  BY DEF GiveUpPublication, Serving
<1>2. RequestsInvariant'
  BY <1>1, CandidateStoredKeeps DEF SuiteInvariant, FailPublication
<1>3. RegistryInvariant'
  BY <1>1, FailPublicationKeeps DEF SuiteInvariant
<1> QED
  BY <1>1, <1>2, <1>3 DEF SuiteInvariant, FailPublication

LEMMA CrashKeeps ==
  ASSUME SuiteInvariant, (\E p \in Processes : Stop(p)) \/ Blackout
  PROVE  SuiteInvariant' /\ (Catalog!Lose \/ UNCHANGED <<files, confirmed>>)
<1>1. ASSUME NEW p \in Processes, Stop(p)
      PROVE  SuiteInvariant' /\ UNCHANGED <<files, confirmed>>
  <2>1. RegistryInvariant'
    BY <1>1, StopProcessKeeps DEF SuiteInvariant, Stop
  <2>2. RequestsInvariant'
    BY <1>1, StopKeeps DEF SuiteInvariant
  <2> QED
    BY <1>1, <2>1, <2>2 DEF SuiteInvariant, Stop, StopProcess
<1>2. CASE Blackout
  <2>1. RegistryInvariant' /\ confirmed \subseteq files' /\ files' \subseteq files
    BY <1>2, LosePowerKeeps DEF SuiteInvariant, Blackout
  <2>2. Catalog!Lose
    BY <1>2, <2>1 DEF Blackout, LosePower, Catalog!Lose
  <2>3. RequestsInvariant'
    BY <1>2, BlackoutKeeps DEF SuiteInvariant
  <2> QED
    BY <2>1, <2>2, <2>3 DEF SuiteInvariant
<1> QED
  BY <1>1, <1>2

CatalogNext == Catalog!Publish \/ Catalog!Confirm \/ Catalog!Lose

\* A step of the suites or of the registry keeps the invariant and is a step of the
\* catalogue, or none.
LEMMA StepRefines ==
  SuiteInvariant /\ [Next]_vars
    => SuiteInvariant' /\ [CatalogNext]_<<files, confirmed>>
<1> SUFFICES ASSUME SuiteInvariant, [Next]_vars
             PROVE  SuiteInvariant' /\ [CatalogNext]_<<files, confirmed>>
  OBVIOUS
<1>1. ASSUME NEW t \in Threads, Request(t)
      PROVE  SuiteInvariant' /\ [CatalogNext]_<<files, confirmed>>
  <2>1. CASE Elsewhere(t)
    BY <2>1, ElsewhereKeeps DEF registry
  <2>2. CASE StartPublication(t)
    BY <2>2, StartPublicationKeeps
  <2>3. CASE Publish(t)
    BY <2>3, PublishKeeps DEF CatalogNext
  <2>4. CASE FinishPublication(t)
    BY <2>4, FinishPublicationKeeps DEF CatalogNext
  <2>5. CASE GiveUpPublication(t)
    BY <2>5, GiveUpPublicationKeeps
  <2> QED
    BY <1>1, <2>1, <2>2, <2>3, <2>4, <2>5, Zenon DEF Request, Elsewhere
<1>2. CASE (\E p \in Processes : Stop(p)) \/ Blackout
  BY <1>2, CrashKeeps DEF CatalogNext
<1>3. CASE UNCHANGED vars
  <2>1. UNCHANGED registry /\ UNCHANGED <<suites, task, traces>>
    BY <1>3 DEF vars
  <2>2. confirmed' = confirmed /\ writer' = writer
    BY <2>1 DEF registry
  <2> QED
    BY <2>1, <2>2, RegistryUnchangedKeeps, RequestsUnchangedKeep DEF SuiteInvariant, registry
<1> QED
  BY <1>1, <1>2, <1>3, Zenon DEF Next

\* However many processes publish, with storage that fails, processes that stop and
\* power that is lost between any two file operations, publish_next keeps the promises
\* of the catalogue: versions go up, keep their artifact, and stay once confirmed.
THEOREM RegistryImplementsCatalog == Spec => KeepsPublications
<1>1. Init => Catalog!Init
  BY DEF Init, RegistryInit, Catalog!Init
<1>2. SuiteInvariant /\ [Next]_vars
        => [Catalog!Publish \/ Catalog!Confirm \/ Catalog!Lose]_<<files, confirmed>>
  BY StepRefines DEF CatalogNext
<1>3. SuiteInvariant /\ [Next]_vars => SuiteInvariant'
  BY StepRefines
<1> QED
  BY <1>1, <1>2, <1>3, SuiteInvariantInit, PTL DEF Spec, KeepsPublications, Catalog!Spec
LEMMA SuiteInvariantHolds == Spec => []SuiteInvariant
<1>1. SuiteInvariant /\ [Next]_vars => SuiteInvariant'
  BY StepRefines
<1> QED
  BY <1>1, SuiteInvariantInit, PTL DEF Spec

\* However requests overlap, each saving a changed copy of the suite that it read minutes
\* before, a suite's artifact is its primary with exactly its scenarios, and a published
\* suite names a version confirmed with that artifact (add_scenario, validate, finalize).
THEOREM SuitesAlwaysMatch == Spec => []SuiteMatchesArtifact
<1>1. SuiteInvariant => SuiteMatchesArtifact
  <2> SUFFICES ASSUME SuiteInvariant PROVE SuiteMatchesArtifact
    OBVIOUS
  <2>1. TypeOK
    <3>1. files \subseteq [version : 1 .. MaxVersion, content : Artifacts] /\ synced \subseteq files
      BY DEF SuiteInvariant, RegistryInvariant, FilesOrdered, Publishable
    <3>2. writer # None => writer.thread \in Threads
      BY DEF SuiteInvariant, RegistryInvariant, WriterPrepared
    <3>3. /\ suites \in [Processes -> Suites \cup {None}]
          /\ \A t \in Threads : task[t] # None => task[t].suite \in Suites /\ Suite(t) # None
      BY DEF SuiteInvariant, RequestsInvariant, SuitesSound, Sound
    <3> QED
      BY <3>1, <3>2, <3>3 DEF TypeOK
  <2>2. ASSUME NEW p \in Processes, suites[p] # None
        PROVE  LET suite == suites[p]
               IN /\ suite.artifact # None => suite.artifact.scenarios = Merged(suite).scenarios
                  /\ suite.status \in {"validated", "published"} => suite.artifact # None
                  /\ suite.status = "published" =>
                       [version |-> suite.version, content |-> suite.artifact] \in confirmed
    <3>1. Sound(suites[p])
      BY <2>2 DEF SuiteInvariant, RequestsInvariant, SuitesSound
    <3>2. Merged(suites[p]).scenarios = suites[p].primary.scenarios \cup suites[p].scenarios
      BY <3>1 DEF Merged, Sound, Suites, Artifacts
    <3> QED
      BY <2>2, <3>1, <3>2 DEF Sound, Matches, SuiteInvariant, RequestsInvariant, PublishedConfirmed
  <2> QED
    BY <2>1, <2>2 DEF SuiteMatchesArtifact
<1> QED
  BY <1>1, SuiteInvariantHolds, PTL

\* Every version that anybody can find, of a task its suite discovered itself, has been
\* replayed in all its parts for every tenant that it claims (validate, finalize).
THEOREM VariantsAreAlwaysProven == Spec => []VariantsAreProven
<1>1. SuiteInvariant => VariantsAreProven
  BY DEF SuiteInvariant, RegistryInvariant, FilesOrdered, Publishable, VariantsAreProven
<1> QED
  BY <1>1, SuiteInvariantHolds, PTL
==============================================================================
