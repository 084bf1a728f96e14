------------------------ MODULE EvidenceJournalProofs ------------------------
(***************************************************************************)
(* Proofs about EvidenceJournal, for any threads and exporters and any     *)
(* limits, and about ExecutionViewer, for any limits and any number of     *)
(* executions and pauses.                                                  *)
(***************************************************************************)
EXTENDS EvidenceJournal, ExecutionViewer, FiniteSetTheorems, WellFoundedInduction, TLAPS

Objects ==
  [kind : {"event"}, sequence : Nat, diagnostic : BOOLEAN]
  \cup [kind : {"screenshot", "archive"}]
  \cup [kind : {"result"}, status : Statuses, trace : {None, "unavailable", "captured"},
        retention : {"failure", "operational"}]
  \cup [kind : {"manifest"}, events : Seq(Nat), attachments : Seq(Nat), terminal : Nat \cup {None}]

RecordJobs ==
  [op : {"record"}, sequence : Nat, diagnostic : BOOLEAN, object : Nat \cup {None}]
AttachJobs == [op : {"attach"}, object : Nat \cup {None}]
FinalizeJobs ==
  [op : {"finalize"}, status : Statuses, object : Nat \cup {None},
   stage : {"diagnostic", "result", "manifest"}, trace : {None, "unavailable", "captured"}]

ExportStates ==
  [stage : {"idle"}]
  \cup [stage : {"verified", "writing"}, manifest : Nat, parts : Seq({"evidence", "manifest"})]

(***************************************************************************)
(* What a list of a manifest, or of the journal, has to be on a disk d     *)
(* with the metadata s.                                                    *)
(***************************************************************************)
Logged(d, s, list) ==
  /\ Len(list) <= MaxEvents
  /\ \A i \in 1 .. Len(list) : list[i] \in s /\ d[list[i]].kind = "event" /\ d[list[i]].sequence = i

Attached(d, s, list) ==
  /\ Len(list) <= MaxAttachments
  /\ \A i \in 1 .. Len(list) : list[i] \in s /\ d[list[i]].kind \in {"screenshot", "archive"}
  /\ \A i, j \in 1 .. Len(list) :
       \/ list[i] = list[j]
       \/ d[list[i]].kind = "archive" /\ d[list[j]].kind = "archive"
       => i = j

\* A result whose claim about the diagnostic archive is true of the list.
Concluded(d, result, list) ==
  /\ d[result].kind = "result" /\ d[result].status \in Statuses
  /\ d[result].retention = "failure" <=> d[result].status = "failure"
  /\ d[result].trace = "captured" => \E i \in 1 .. Len(list) : d[list[i]].kind = "archive"

Sound(d, s, m) ==
  /\ d[m].events # <<>> /\ Logged(d, s, d[m].events) /\ Attached(d, s, d[m].attachments)
  /\ d[m].terminal # None => d[m].terminal \in s /\ Concluded(d, d[m].terminal, d[m].attachments)

CompletedIn(d, s) ==
  {m \in 1 .. Len(d) : m \in s /\ d[m].kind = "manifest" /\ d[m].terminal # None}

(***************************************************************************)
(* The inductive invariant.                                                *)
(***************************************************************************)
Typed ==
  /\ disk \in Seq(Objects) /\ sidecars \subseteq 1 .. Len(disk)
  /\ up \in BOOLEAN /\ finalized \in BOOLEAN
  /\ log \in Seq(Nat) /\ attachments \in Seq(Nat) /\ published \in Nat \cup {None}
  /\ holder \in Threads \cup {None}
  /\ job \in RecordJobs \cup AttachJobs \cup FinalizeJobs \cup {Idle}
  /\ holder = None <=> job = Idle
  /\ exports \in [Exporters -> ExportStates]
  /\ job # Idle => up /\ ~finalized
  /\ ~up => ~finalized /\ log = <<>> /\ attachments = <<>> /\ published = None

JournalIsSound == Logged(disk, sidecars, log) /\ Attached(disk, sidecars, attachments)

ManifestsAreSound ==
  \A m \in 1 .. Len(disk) : disk[m].kind = "manifest" => Sound(disk, sidecars, m)

\* Only a journal that is finalized, or no more, has completed its run.
OneIsCompleted ==
  /\ \A m, n \in CompletedIn(disk, sidecars) : m = n
  /\ up /\ ~finalized => CompletedIn(disk, sidecars) = {}
  /\ finalized => published \in CompletedIn(disk, sidecars)

\* The named manifest is of this journal, also while the next one is being written.
NamedIsCurrent ==
  IF published = None
    THEN /\ log = <<>>
         /\ \A i \in 1 .. Len(attachments) : disk[attachments[i]].kind # "screenshot"
    ELSE /\ published \in 1 .. Len(disk) /\ disk[published].kind = "manifest"
         /\ disk[published].events = log
         /\ \A i \in 1 .. Len(attachments) : disk[attachments[i]].kind = "screenshot" =>
              \E j \in 1 .. Len(disk[published].attachments) :
                disk[published].attachments[j] = attachments[i]
         /\ finalized <=> disk[published].terminal # None

\* The object that the operation under way has written is what its manifest needs.
JobIsSound ==
  /\ job.op = "record" =>
       /\ Len(log) < MaxEvents /\ job.sequence = Len(log) + 1
       /\ job.object # None =>
            /\ job.object \in sidecars /\ disk[job.object].kind = "event"
            /\ disk[job.object].sequence = job.sequence
  /\ job.op = "attach" =>
       /\ Len(attachments) < MaxAttachments
       /\ job.object # None =>
            /\ job.object \in sidecars /\ disk[job.object].kind = "screenshot"
            /\ \A i \in 1 .. Len(attachments) : attachments[i] # job.object
  /\ job.op = "finalize" =>
       /\ job.trace = "captured" =>
            \E i \in 1 .. Len(attachments) : disk[attachments[i]].kind = "archive"
       /\ job.stage = "manifest" =>
            job.object \in sidecars /\ Concluded(disk, job.object, attachments)

\* One exporter at a time has the destination, and only while there is no bundle.
ExportsAreSound ==
  /\ locked \in Exporters \cup {None}
  /\ \A e \in Exporters :
       /\ exports[e].stage = "writing" <=> locked = e
       /\ exports[e].stage = "writing" => bundle = None
       /\ exports[e].stage # "idle" =>
            exports[e].manifest \in 1 .. Len(disk) /\ disk[exports[e].manifest].terminal # None
  /\ bundle # None =>
       /\ bundle.parts = Parts
       /\ bundle.manifest \in 1 .. Len(disk) /\ disk[bundle.manifest].terminal # None

IInv ==
  /\ Typed /\ JournalIsSound /\ ManifestsAreSound /\ OneIsCompleted /\ NamedIsCurrent
  /\ JobIsSound /\ ExportsAreSound

------------------------------------------------------------------------------
(* Writes only add to the disk, and what was sound on it remains so. *)

LEMMA SoundnessIsKept ==
  ASSUME NEW d, NEW s, NEW e, NEW t, s \subseteq 1 .. Len(d), s \subseteq t,
         \A i \in 1 .. Len(d) : e[i] = d[i]
  PROVE  /\ \A list : Logged(d, s, list) => Logged(e, t, list)
         /\ \A list : Attached(d, s, list) => Attached(e, t, list)
         /\ \A r, list : r \in s /\ Attached(d, s, list) /\ Concluded(d, r, list) =>
              Concluded(e, r, list)
         /\ \A m \in 1 .. Len(d) : Sound(d, s, m) => Sound(e, t, m)
<1>1. \A i \in s : e[i] = d[i] /\ i \in t
  OBVIOUS
<1>2. \A list : Logged(d, s, list) => Logged(e, t, list)
  BY <1>1 DEF Logged
<1>3. \A list : Attached(d, s, list) => Attached(e, t, list)
  BY <1>1 DEF Attached
<1>4. \A r, list : r \in s /\ Attached(d, s, list) /\ Concluded(d, r, list) => Concluded(e, r, list)
  BY <1>1 DEF Attached, Concluded
<1>5. \A m \in 1 .. Len(d) : Sound(d, s, m) => Sound(e, t, m)
  BY <1>1, <1>2, <1>3, <1>4 DEF Sound
<1> QED BY <1>2, <1>3, <1>4, <1>5

Grows ==
  /\ disk' \in Seq(Objects) /\ Len(disk) <= Len(disk')
  /\ \A i \in 1 .. Len(disk) : disk'[i] = disk[i]
  /\ sidecars \subseteq sidecars' /\ sidecars' \subseteq 1 .. Len(disk')

LEMMA StayingGrows ==
  ASSUME Typed, UNCHANGED <<disk, sidecars>>
  PROVE  Grows
BY DEF Typed, Grows

LEMMA StoredGrows ==
  ASSUME Typed, NEW object \in Objects, Stored(object)
  PROVE  /\ Grows
         /\ NextId = Len(disk) + 1 /\ NextId \in Nat /\ Len(disk') = NextId
         /\ disk'[NextId] = object /\ sidecars' = sidecars \cup {NextId}
<1>1. /\ NextId = Len(disk) + 1 /\ Len(disk) \in Nat
      /\ disk' = Append(disk, object) /\ sidecars' = sidecars \cup {NextId}
  BY DEF Typed, Stored, NextId
<1>2. /\ disk' \in Seq(Objects) /\ Len(disk') = Len(disk) + 1 /\ disk'[Len(disk) + 1] = object
      /\ \A i \in 1 .. Len(disk) : disk'[i] = disk[i]
  BY <1>1 DEF Typed
<1>3. sidecars' \subseteq 1 .. Len(disk')
  <2>1. sidecars \subseteq 1 .. Len(disk)
    BY DEF Typed
  <2> SUFFICES ASSUME NEW i \in sidecars'
               PROVE  i \in 1 .. Len(disk')
    OBVIOUS
  <2>2. CASE i \in sidecars
    BY <1>1, <1>2, <2>1, <2>2
  <2>3. CASE i = Len(disk) + 1
    BY <1>1, <1>2, <2>3
  <2> QED BY <1>1, <2>2, <2>3
<1> QED BY <1>1, <1>2, <1>3 DEF Grows

LEMMA NotStoredGrows ==
  ASSUME Typed, NEW object \in Objects, NotStored(object)
  PROVE  /\ Grows
         /\ NextId = Len(disk) + 1 /\ NextId \in Nat /\ sidecars' = sidecars
         /\ \/ disk' = disk
            \/ Len(disk') = NextId /\ disk'[NextId] = object
<1>1. CASE UNCHANGED <<disk, sidecars>>
  BY <1>1, StayingGrows DEF Typed, NextId
<1>2. CASE disk' = Append(disk, object) /\ UNCHANGED sidecars
  <2>1. /\ disk' \in Seq(Objects) /\ Len(disk') = Len(disk) + 1 /\ disk'[Len(disk) + 1] = object
        /\ \A i \in 1 .. Len(disk) : disk'[i] = disk[i]
    BY <1>2 DEF Typed
  <2> QED BY <1>2, <2>1 DEF Typed, Grows, NextId
<1> QED BY <1>1, <1>2 DEF NotStored

\* What a manifest that is written has to list.
Proper(manifest) ==
  /\ manifest.events # <<>>
  /\ Logged(disk, sidecars, manifest.events) /\ Attached(disk, sidecars, manifest.attachments)
  /\ manifest.terminal # None =>
       manifest.terminal \in sidecars /\ Concluded(disk, manifest.terminal, manifest.attachments)

\* A write leaves every manifest sound, and completes the run only with a whole
\* manifest that has a result.
LEMMA WriteKeepsManifests ==
  ASSUME IInv, NEW object \in Objects, Stored(object) \/ NotStored(object),
         object.kind = "manifest" => Proper(object)
  PROVE  /\ Grows /\ ManifestsAreSound'
         /\ \A m : m \in CompletedIn(disk, sidecars)' <=>
              \/ m \in CompletedIn(disk, sidecars)
              \/ /\ m = Len(disk) + 1 /\ m \in sidecars'
                 /\ object.kind = "manifest" /\ object.terminal # None
<1>1. /\ Typed /\ Len(disk) \in Nat /\ sidecars \subseteq 1 .. Len(disk)
  BY DEF IInv, Typed
<1>2. /\ Grows
      /\ \/ disk' = disk /\ sidecars' = sidecars
         \/ /\ Len(disk') = Len(disk) + 1 /\ disk'[Len(disk) + 1] = object
            /\ sidecars' \in {sidecars, sidecars \cup {Len(disk) + 1}}
  BY <1>1, StoredGrows, NotStoredGrows
<1>3. /\ sidecars \subseteq sidecars' /\ \A i \in 1 .. Len(disk) : disk'[i] = disk[i]
  BY <1>2 DEF Grows
<1>4. \A m \in 1 .. Len(disk) : Sound(disk, sidecars, m) => Sound(disk', sidecars', m)
  BY <1>1, <1>3, SoundnessIsKept
<1>5. ASSUME Len(disk') = Len(disk) + 1, disk'[Len(disk) + 1] = object, object.kind = "manifest"
      PROVE  Sound(disk', sidecars', Len(disk) + 1)
  <2>1. /\ Logged(disk', sidecars', object.events)
        /\ Attached(disk', sidecars', object.attachments)
    BY <1>1, <1>3, <1>5, SoundnessIsKept DEF Proper
  <2>2. object.terminal # None =>
          object.terminal \in sidecars' /\ Concluded(disk', object.terminal, object.attachments)
    BY <1>1, <1>3, <1>5, SoundnessIsKept DEF Proper
  <2> QED BY <1>5, <2>1, <2>2 DEF Sound, Proper
<1>6. ManifestsAreSound'
  <2> SUFFICES ASSUME NEW m \in 1 .. Len(disk'), disk'[m].kind = "manifest"
               PROVE  Sound(disk', sidecars', m)
    BY DEF ManifestsAreSound
  <2>1. CASE m \in 1 .. Len(disk)
    BY <1>3, <1>4, <2>1 DEF IInv, ManifestsAreSound
  <2>2. CASE m \notin 1 .. Len(disk)
    BY <1>1, <1>2, <1>5, <2>2
  <2> QED BY <2>1, <2>2
<1>7. \A m : m \in CompletedIn(disk', sidecars') <=>
         \/ m \in CompletedIn(disk, sidecars)
         \/ /\ m = Len(disk) + 1 /\ m \in sidecars'
            /\ object.kind = "manifest" /\ object.terminal # None
  BY <1>1, <1>2, <1>3 DEF CompletedIn, Grows
<1> QED BY <1>2, <1>6, <1>7

------------------------------------------------------------------------------
(* What a step that only adds to the disk keeps *)

LEMMA JournalIsKept ==
  ASSUME IInv, Grows, UNCHANGED <<log, attachments>>
  PROVE  JournalIsSound'
<1>1. sidecars \subseteq 1 .. Len(disk) /\ sidecars \subseteq sidecars'
      /\ \A i \in 1 .. Len(disk) : disk'[i] = disk[i]
  BY DEF IInv, Typed, Grows
<1> QED BY <1>1, SoundnessIsKept DEF IInv, JournalIsSound

LEMMA NamedIsKept ==
  ASSUME IInv, Grows, UNCHANGED <<log, attachments, published, finalized>>
  PROVE  NamedIsCurrent'
<1>1. \A i \in 1 .. Len(disk) : disk'[i] = disk[i] /\ i \in 1 .. Len(disk')
  BY DEF Grows, IInv, Typed
<1>2. \A i \in 1 .. Len(attachments) : attachments[i] \in 1 .. Len(disk)
  BY DEF IInv, Typed, JournalIsSound, Attached
<1>3. CASE published = None
  BY <1>1, <1>2, <1>3 DEF IInv, NamedIsCurrent
<1>4. CASE published # None
  <2>1. /\ published \in 1 .. Len(disk) /\ disk[published].kind = "manifest"
        /\ disk[published].events = log
        /\ \A i \in 1 .. Len(attachments) : disk[attachments[i]].kind = "screenshot" =>
             \E j \in 1 .. Len(disk[published].attachments) :
               disk[published].attachments[j] = attachments[i]
        /\ finalized <=> disk[published].terminal # None
    BY <1>4 DEF IInv, NamedIsCurrent
  <2>2. published \in 1 .. Len(disk') /\ disk'[published] = disk[published]
    BY <1>1, <2>1
  <2>3. \A i \in 1 .. Len(attachments) : disk'[attachments[i]].kind = "screenshot" =>
          \E j \in 1 .. Len(disk'[published].attachments) :
            disk'[published].attachments[j] = attachments[i]
    BY <1>1, <1>2, <2>1, <2>2
  <2> QED BY <1>4, <2>1, <2>2, <2>3 DEF NamedIsCurrent
<1> QED BY <1>3, <1>4

LEMMA ExportsAreKept ==
  ASSUME IInv, Grows, UNCHANGED <<exports, locked, bundle>>
  PROVE  ExportsAreSound'
<1>1. \A i \in 1 .. Len(disk) : disk'[i] = disk[i] /\ i \in 1 .. Len(disk')
  BY DEF Grows, IInv, Typed
<1> QED BY <1>1 DEF IInv, ExportsAreSound

LEMMA NothingCompletes ==
  ASSUME IInv, \A m : m \in CompletedIn(disk, sidecars)' => m \in CompletedIn(disk, sidecars),
         UNCHANGED <<up, finalized>>, ~finalized
  PROVE  OneIsCompleted'
BY DEF IInv, OneIsCompleted

LEMMA JobIsTyped ==
  ASSUME Typed
  PROVE  /\ job.op = "record" => job \in RecordJobs
         /\ job.op = "attach" => job \in AttachJobs
         /\ job.op = "finalize" => job \in FinalizeJobs
         /\ job.op \in {"record", "attach", "finalize"} => job # Idle /\ up /\ ~finalized
         /\ Idle.op \notin {"record", "attach", "finalize"}
BY NoneAssumption DEF Typed, RecordJobs, AttachJobs, FinalizeJobs, Idle

\* The parts of the invariant that a step of the journal has to establish once
\* it has written an object, and the journal is as it was.
LEMMA WritingInv ==
  ASSUME IInv, NEW object \in Objects, Stored(object) \/ NotStored(object),
         object.kind = "manifest" => Proper(object) /\ (object.terminal = None \/ NotStored(object)),
         UNCHANGED <<journal, exports, locked, bundle>>, ~finalized,
         holder' \in Threads \cup {None},
         job' \in RecordJobs \cup AttachJobs \cup FinalizeJobs \cup {Idle},
         holder' = None <=> job' = Idle, job' # Idle => up,
         JobIsSound'
  PROVE  IInv'
<1>1. /\ Grows /\ ManifestsAreSound'
      /\ \A m : m \in CompletedIn(disk, sidecars)' <=>
           \/ m \in CompletedIn(disk, sidecars)
           \/ /\ m = Len(disk) + 1 /\ m \in sidecars'
              /\ object.kind = "manifest" /\ object.terminal # None
  BY WriteKeepsManifests
<1>2. UNCHANGED <<up, log, attachments, published, finalized>>
  BY DEF journal
<1>3. Typed'
  BY <1>1, <1>2 DEF IInv, Typed, Grows
<1>4. JournalIsSound' /\ NamedIsCurrent' /\ ExportsAreSound'
  BY <1>1, <1>2, JournalIsKept, NamedIsKept, ExportsAreKept
<1>5. NotStored(object) => Len(disk) + 1 \notin sidecars'
  BY NotStoredGrows DEF IInv, Typed
<1>6. OneIsCompleted'
  BY <1>1, <1>2, <1>5, NothingCompletes
<1> QED BY <1>1, <1>3, <1>4, <1>6 DEF IInv

------------------------------------------------------------------------------
(* Steps of the journal *)

LEMMA StartInv ==
  ASSUME IInv, NEW t \in Threads, up, ~finalized, holder' = t,
         UNCHANGED <<disk, sidecars, journal, exports, locked, bundle>>,
         job' \in RecordJobs \cup AttachJobs \cup FinalizeJobs, JobIsSound'
  PROVE  IInv'
<1>1. [kind |-> "screenshot"] \in Objects /\ NotStored([kind |-> "screenshot"])
  BY DEF Objects, NotStored
<1>2. job' # Idle /\ holder' # None
  BY NoneAssumption DEF RecordJobs, AttachJobs, FinalizeJobs, Idle
<1> QED BY <1>1, <1>2, WritingInv

LEMMA ReleaseIsSound ==
  ASSUME Release
  PROVE  JobIsSound' /\ job' = Idle /\ holder' = None
BY NoneAssumption DEF Release, JobIsSound, Idle

LEMMA StartRecordInv ==
  ASSUME IInv, NEW t \in Threads, StartRecord(t)
  PROVE  IInv'
<1>1. PICK diagnostic \in BOOLEAN :
        job' = [op |-> "record", sequence |-> Len(log) + 1, diagnostic |-> diagnostic,
                object |-> None]
  BY DEF StartRecord
<1>2. Len(log) + 1 \in Nat /\ Len(log) < MaxEvents /\ log' = log
  BY DEF StartRecord, journal, IInv, Typed
<1>3. job' \in RecordJobs
  BY <1>1, <1>2 DEF RecordJobs
<1>4. JobIsSound'
  BY <1>1, <1>2 DEF JobIsSound
<1> QED BY <1>3, <1>4, StartInv DEF StartRecord

LEMMA StartAttachInv ==
  ASSUME IInv, NEW t \in Threads, StartAttach(t)
  PROVE  IInv'
<1>1. job' = [op |-> "attach", object |-> None]
  BY DEF StartAttach
<1>2. job' \in AttachJobs
  BY <1>1 DEF AttachJobs
<1>3. JobIsSound'
  BY <1>1 DEF JobIsSound, StartAttach, journal
<1> QED BY <1>2, <1>3, StartInv DEF StartAttach

LEMMA StartFinalizeInv ==
  ASSUME IInv, NEW t \in Threads, StartFinalize(t)
  PROVE  IInv'
<1>1. PICK status \in Statuses :
        job' = [op |-> "finalize", status |-> status, object |-> None,
                stage |-> IF HasDiagnostic THEN "diagnostic" ELSE "result",
                trace |-> IF HasDiagnostic THEN "unavailable" ELSE None]
  BY DEF StartFinalize
<1>2. job' \in FinalizeJobs
  BY <1>1 DEF FinalizeJobs
<1>3. JobIsSound'
  BY <1>1, NoneAssumption DEF JobIsSound
<1> QED BY <1>2, <1>3, StartInv DEF StartFinalize

\* The entries of the journal are on the disk before what is written next.
LEMMA EntriesAreBehind ==
  ASSUME IInv
  PROVE  /\ \A i \in 1 .. Len(log) : log[i] \in 1 .. Len(disk)
         /\ \A i \in 1 .. Len(attachments) : attachments[i] \in 1 .. Len(disk)
         /\ Len(disk) \in Nat /\ sidecars \subseteq 1 .. Len(disk)
BY DEF IInv, Typed, JournalIsSound, Logged, Attached

LEMMA WriteObjectInv ==
  ASSUME IInv, WriteObject
  PROVE  IInv'
<1>1. /\ up /\ ~finalized /\ job.op \in {"record", "attach"} /\ job # Idle
      /\ UNCHANGED <<journal, exports, locked, bundle>>
  BY JobIsTyped DEF WriteObject, IInv
<1>2. Object(job) \in Objects /\ Object(job).kind \in {"event", "screenshot"}
  BY <1>1, JobIsTyped DEF IInv, Object, Objects, RecordJobs
<1>3. holder \in Threads \cup {None} /\ holder # None
  BY <1>1 DEF IInv, Typed
<1>4. CASE NotStored(Object(job)) /\ Release
  <2>1. job' = Idle /\ holder' = None /\ JobIsSound'
    BY <1>4, ReleaseIsSound
  <2> QED BY <1>1, <1>2, <1>4, <2>1, WritingInv
<1>5. CASE Stored(Object(job)) /\ Continue([job EXCEPT !.object = NextId])
  <2>1. /\ Grows /\ NextId = Len(disk) + 1 /\ NextId \in Nat /\ NextId \in sidecars'
        /\ disk'[NextId] = Object(job)
    BY <1>2, <1>5, StoredGrows DEF IInv
  <2>2. job' = [job EXCEPT !.object = NextId] /\ holder' = holder
    BY <1>5 DEF Continue
  <2>3. UNCHANGED <<log, attachments>>
    BY <1>1 DEF journal
  <2>4. CASE job.op = "record"
    <3>1. job \in RecordJobs
      BY <2>4, JobIsTyped DEF IInv
    <3>2. job' \in RecordJobs /\ job' # Idle /\ job'.op = "record" /\ job'.object = NextId
          /\ job'.sequence = job.sequence
      BY <2>1, <2>2, <3>1, NoneAssumption DEF RecordJobs, Idle
    <3>3. Object(job).kind = "event" /\ Object(job).sequence = job.sequence
      BY <2>4 DEF Object
    <3>4. JobIsSound'
      BY <2>1, <2>3, <2>4, <3>2, <3>3 DEF IInv, JobIsSound
    <3> QED BY <1>1, <1>2, <1>3, <1>5, <2>2, <3>2, <3>4, WritingInv
  <2>5. CASE job.op = "attach"
    <3>1. job \in AttachJobs
      BY <2>5, JobIsTyped DEF IInv
    <3>2. job' \in AttachJobs /\ job' # Idle /\ job'.op = "attach" /\ job'.object = NextId
      BY <2>1, <2>2, <3>1, NoneAssumption DEF AttachJobs, Idle
    <3>3. Object(job).kind = "screenshot"
      BY <2>5 DEF Object
    <3>4. \A i \in 1 .. Len(attachments) : attachments[i] # NextId
      BY <2>1, EntriesAreBehind
    <3>5. JobIsSound'
      BY <2>1, <2>3, <2>5, <3>2, <3>3, <3>4 DEF IInv, JobIsSound
    <3> QED BY <1>1, <1>2, <1>3, <1>5, <2>2, <3>2, <3>5, WritingInv
  <2> QED BY <1>1, <2>4, <2>5
<1> QED BY <1>4, <1>5 DEF WriteObject

\* Publishing a manifest of the journal as it becomes.
LEMMA PublishInv ==
  ASSUME IInv, NEW events \in Seq(Nat), NEW attached \in Seq(Nat),
         NEW terminal \in Nat \cup {None}, up, ~finalized,
         Proper(Manifest(events, attached, terminal)),
         Stored(Manifest(events, attached, terminal)),
         log' = events, attachments' = attached, published' = NextId,
         finalized' \in BOOLEAN, finalized' <=> terminal # None, up' = up, Release,
         UNCHANGED <<exports, locked, bundle>>
  PROVE  IInv'
<1> DEFINE manifest == Manifest(events, attached, terminal)
<1>1. /\ manifest \in Objects /\ manifest.kind = "manifest" /\ manifest.events = events
      /\ manifest.attachments = attached /\ manifest.terminal = terminal
  BY DEF Manifest, Objects
<1>2. /\ Grows /\ NextId = Len(disk) + 1 /\ NextId \in Nat /\ Len(disk') = NextId
      /\ NextId \in sidecars' /\ disk'[NextId] = manifest
  BY <1>1, StoredGrows DEF IInv
<1>3. /\ ManifestsAreSound'
      /\ \A m : m \in CompletedIn(disk, sidecars)' <=>
           \/ m \in CompletedIn(disk, sidecars)
           \/ m = NextId /\ terminal # None
  BY <1>1, <1>2, WriteKeepsManifests
<1>4. job' = Idle /\ holder' = None /\ JobIsSound'
  BY ReleaseIsSound
<1>5. Typed'
  BY <1>2, <1>4 DEF IInv, Typed, Grows
<1>6. JournalIsSound'
  <2>1. Logged(disk, sidecars, events) /\ Attached(disk, sidecars, attached)
    BY <1>1 DEF Proper
  <2>2. /\ sidecars \subseteq 1 .. Len(disk) /\ sidecars \subseteq sidecars'
        /\ \A i \in 1 .. Len(disk) : disk'[i] = disk[i]
    BY <1>2 DEF Grows, IInv, Typed
  <2>3. Logged(disk', sidecars', events) /\ Attached(disk', sidecars', attached)
    BY <2>1, <2>2, SoundnessIsKept
  <2> QED BY <2>3 DEF JournalIsSound
<1>7. NamedIsCurrent'
  <2>1. published' # None /\ published' \in 1 .. Len(disk') /\ disk'[published'] = manifest
    BY <1>2, NoneAssumption
  <2> QED BY <1>1, <2>1 DEF NamedIsCurrent
<1>8. ExportsAreSound'
  BY <1>2, ExportsAreKept
<1>9. OneIsCompleted'
  <2>1. CompletedIn(disk, sidecars) = {}
    BY DEF IInv, OneIsCompleted
  <2>2. \A m : m \in CompletedIn(disk, sidecars)' <=> m = NextId /\ terminal # None
    BY <1>3, <2>1
  <2>3. CASE terminal = None
    BY <2>2, <2>3 DEF OneIsCompleted
  <2>4. CASE terminal # None
    BY <2>2, <2>4 DEF OneIsCompleted
  <2> QED BY <2>3, <2>4
<1> QED BY <1>3, <1>4, <1>5, <1>6, <1>7, <1>8, <1>9 DEF IInv

\* A manifest that could not be written leaves the journal as it was.
LEMMA UnpublishedInv ==
  ASSUME IInv, NEW events \in Seq(Nat), NEW attached \in Seq(Nat),
         NEW terminal \in Nat \cup {None}, ~finalized,
         Proper(Manifest(events, attached, terminal)),
         NotStored(Manifest(events, attached, terminal)),
         UNCHANGED <<journal, exports, locked, bundle>>, Release
  PROVE  IInv'
<1>1. /\ Manifest(events, attached, terminal) \in Objects
  BY DEF Manifest, Objects
<1>2. job' = Idle /\ holder' = None /\ JobIsSound'
  BY ReleaseIsSound
<1> QED BY <1>1, <1>2, WritingInv

\* An operation that wrote nothing.
LEMMA GiveUpInv ==
  ASSUME IInv, ~finalized, Release, UNCHANGED <<disk, sidecars, journal, exports, locked, bundle>>
  PROVE  IInv'
<1>1. [kind |-> "screenshot"] \in Objects /\ NotStored([kind |-> "screenshot"])
  BY DEF Objects, NotStored
<1>2. job' = Idle /\ holder' = None /\ JobIsSound'
  BY ReleaseIsSound
<1> QED BY <1>1, <1>2, WritingInv

LEMMA AppendedIsLogged ==
  ASSUME NEW list \in Seq(Nat), NEW id \in Nat, NEW d, NEW s,
         Logged(d, s, list), Len(list) < MaxEvents,
         id \in s, d[id].kind = "event", d[id].sequence = Len(list) + 1
  PROVE  Logged(d, s, Append(list, id)) /\ Append(list, id) \in Seq(Nat) /\ Append(list, id) # <<>>
<1>1. /\ Len(Append(list, id)) = Len(list) + 1 /\ Append(list, id)[Len(list) + 1] = id
      /\ \A i \in 1 .. Len(list) : Append(list, id)[i] = list[i]
  OBVIOUS
<1> QED BY <1>1, LimitsAssumption DEF Logged

LEMMA AppendedIsAttached ==
  ASSUME NEW list \in Seq(Nat), NEW id \in Nat, NEW d, NEW s,
         Attached(d, s, list), Len(list) < MaxAttachments,
         id \in s, d[id].kind \in {"screenshot", "archive"},
         \A i \in 1 .. Len(list) :
           list[i] # id /\ ~(d[list[i]].kind = "archive" /\ d[id].kind = "archive")
  PROVE  Attached(d, s, Append(list, id)) /\ Append(list, id) \in Seq(Nat)
<1>1. /\ Len(Append(list, id)) = Len(list) + 1 /\ Append(list, id)[Len(list) + 1] = id
      /\ \A i \in 1 .. Len(list) : Append(list, id)[i] = list[i]
      /\ \A i \in 1 .. Len(Append(list, id)) : i \in 1 .. Len(list) \/ i = Len(list) + 1
  OBVIOUS
<1>2. Len(Append(list, id)) <= MaxAttachments
  BY <1>1, LimitsAssumption
<1>3. \A i \in 1 .. Len(Append(list, id)) :
        Append(list, id)[i] \in s /\ d[Append(list, id)[i]].kind \in {"screenshot", "archive"}
  BY <1>1 DEF Attached
<1>4. \A i, j \in 1 .. Len(Append(list, id)) :
        \/ Append(list, id)[i] = Append(list, id)[j]
        \/ d[Append(list, id)[i]].kind = "archive" /\ d[Append(list, id)[j]].kind = "archive"
        => i = j
  BY <1>1 DEF Attached
<1> QED BY <1>2, <1>3, <1>4 DEF Attached

LEMMA PublishRecordInv ==
  ASSUME IInv, PublishRecord
  PROVE  IInv'
<1> DEFINE events == Append(log, job.object)
           manifest == Manifest(events, attachments, None)
<1>1. /\ up /\ ~finalized /\ job.op = "record" /\ job.object # None /\ job \in RecordJobs
      /\ log \in Seq(Nat) /\ attachments \in Seq(Nat)
      /\ Release /\ UNCHANGED <<exports, locked, bundle>>
  BY JobIsTyped DEF PublishRecord, IInv, Typed
<1>2. job.object \in Nat
  BY <1>1 DEF RecordJobs
<1>3. events \in Seq(Nat) /\ events # <<>> /\ Logged(disk, sidecars, events)
  BY <1>1, <1>2, AppendedIsLogged DEF IInv, JournalIsSound, JobIsSound
<1>4. Proper(manifest)
  BY <1>3 DEF Proper, Manifest, IInv, JournalIsSound
<1>5. CASE /\ Stored(manifest) /\ log' = events /\ published' = NextId
           /\ UNCHANGED <<up, attachments, finalized>>
  <2>1. finalized' \in BOOLEAN /\ ~finalized'
    BY <1>1, <1>5 DEF IInv, Typed
  <2> QED BY <1>1, <1>3, <1>4, <1>5, <2>1, PublishInv
<1>6. CASE NotStored(manifest) /\ UNCHANGED journal
  BY <1>1, <1>3, <1>4, <1>6, UnpublishedInv
<1> QED BY <1>5, <1>6 DEF PublishRecord

LEMMA PublishAttachmentInv ==
  ASSUME IInv, PublishAttachment
  PROVE  IInv'
<1> DEFINE attached == Append(attachments, job.object)
           manifest == Manifest(log, attached, None)
<1>1. /\ up /\ ~finalized /\ job.op = "attach" /\ job.object # None /\ job \in AttachJobs
      /\ log \in Seq(Nat) /\ attachments \in Seq(Nat)
      /\ Release /\ UNCHANGED <<exports, locked, bundle>>
  BY JobIsTyped DEF PublishAttachment, IInv, Typed
<1>2. job.object \in Nat
  BY <1>1 DEF AttachJobs
<1>3. attached \in Seq(Nat) /\ Attached(disk, sidecars, attached)
  BY <1>1, <1>2, AppendedIsAttached DEF IInv, JournalIsSound, JobIsSound
<1>4. log # <<>> => Proper(manifest)
  BY <1>3 DEF Proper, Manifest, IInv, JournalIsSound
<1>5. CASE /\ log # <<>> /\ Stored(manifest) /\ attachments' = attached /\ published' = NextId
           /\ UNCHANGED <<up, log, finalized>>
  <2>1. finalized' \in BOOLEAN /\ ~finalized'
    BY <1>1, <1>5 DEF IInv, Typed
  <2> QED BY <1>1, <1>3, <1>4, <1>5, <2>1, PublishInv
<1>6. CASE log # <<>> /\ NotStored(manifest) /\ UNCHANGED journal
  BY <1>1, <1>3, <1>4, <1>6, UnpublishedInv
<1>7. CASE UNCHANGED <<disk, sidecars, journal>>
  BY <1>1, <1>7, GiveUpInv
<1> QED BY <1>5, <1>6, <1>7 DEF PublishAttachment

LEMMA PublishResultInv ==
  ASSUME IInv, PublishResult
  PROVE  IInv'
<1> DEFINE manifest == Manifest(log, attachments, job.object)
<1>1. /\ up /\ ~finalized /\ job.op = "finalize" /\ job.stage = "manifest" /\ job \in FinalizeJobs
      /\ log \in Seq(Nat) /\ attachments \in Seq(Nat)
      /\ Release /\ UNCHANGED <<exports, locked, bundle>>
  BY JobIsTyped DEF PublishResult, IInv, Typed
<1>2. /\ job.object \in sidecars /\ job.object \in Nat /\ job.object # None
      /\ Concluded(disk, job.object, attachments)
  BY <1>1, NoneAssumption, EntriesAreBehind DEF IInv, JobIsSound
<1>3. log # <<>> => Proper(manifest)
  BY <1>2 DEF Proper, Manifest, IInv, JournalIsSound
<1>4. CASE /\ log # <<>> /\ Stored(manifest) /\ published' = NextId /\ finalized' = TRUE
           /\ UNCHANGED <<up, log, attachments>>
  BY <1>1, <1>2, <1>3, <1>4, PublishInv
<1>5. CASE log # <<>> /\ NotStored(manifest) /\ UNCHANGED journal
  BY <1>1, <1>2, <1>3, <1>5, UnpublishedInv
<1>6. CASE UNCHANGED <<disk, sidecars, journal>>
  BY <1>1, <1>6, GiveUpInv
<1> QED BY <1>4, <1>5, <1>6 DEF PublishResult

LEMMA WriteDiagnosticInv ==
  ASSUME IInv, WriteDiagnostic
  PROVE  IInv'
<1> DEFINE archive == [kind |-> "archive"]
<1>1. /\ up /\ ~finalized /\ job.op = "finalize" /\ job.stage = "diagnostic"
      /\ job \in FinalizeJobs /\ job # Idle
      /\ attachments \in Seq(Nat) /\ log \in Seq(Nat)
      /\ UNCHANGED <<up, log, published, finalized, exports, locked, bundle>>
  BY JobIsTyped DEF WriteDiagnostic, IInv, Typed
<1>2. archive \in Objects /\ archive.kind = "archive"
  BY DEF Objects
<1>3. holder \in Threads
  BY <1>1 DEF IInv, Typed
<1>4. CASE /\ Len(attachments) < MaxAttachments /\ ~HasArchive
           /\ Stored(archive) /\ attachments' = Append(attachments, NextId)
           /\ Continue([job EXCEPT !.stage = "result", !.trace = "captured"])
  <2>1. /\ Grows /\ NextId = Len(disk) + 1 /\ NextId \in Nat /\ NextId \in sidecars'
        /\ disk'[NextId] = archive
    BY <1>2, <1>4, StoredGrows DEF IInv
  <2>2. /\ job' = [job EXCEPT !.stage = "result", !.trace = "captured"] /\ holder' = holder
    BY <1>4 DEF Continue
  <2>3. /\ job' \in FinalizeJobs /\ job'.op = "finalize" /\ job'.stage = "result"
    BY <1>1, <2>2 DEF FinalizeJobs
  <2>4. job' # Idle
    BY <2>3, NoneAssumption DEF Idle
  <2>5. /\ sidecars \subseteq 1 .. Len(disk) /\ sidecars \subseteq sidecars'
        /\ \A i \in 1 .. Len(disk) : disk'[i] = disk[i]
    BY <2>1 DEF Grows, IInv, Typed
  <2>6. Logged(disk', sidecars', log) /\ Attached(disk', sidecars', attachments)
    BY <2>5, SoundnessIsKept DEF IInv, JournalIsSound
  <2>7. \A i \in 1 .. Len(attachments) :
          /\ attachments[i] \in 1 .. Len(disk) /\ attachments[i] # NextId
          /\ disk'[attachments[i]] = disk[attachments[i]]
          /\ disk[attachments[i]].kind # "archive"
    <3>1. \A i \in 1 .. Len(attachments) : attachments[i] \in Range(attachments)
      BY <1>1 DEF Range
    <3> QED BY <1>4, <2>1, <2>5, <3>1, EntriesAreBehind DEF HasArchive, Kind
  <2>8. Attached(disk', sidecars', attachments') /\ attachments' \in Seq(Nat)
    BY <1>1, <1>2, <1>4, <2>1, <2>6, <2>7, AppendedIsAttached
  <2>9. JournalIsSound'
    BY <1>1, <2>6, <2>8 DEF JournalIsSound
  <2>10. /\ ManifestsAreSound'
         /\ \A m : m \in CompletedIn(disk, sidecars)' => m \in CompletedIn(disk, sidecars)
    BY <1>2, <1>4, WriteKeepsManifests
  <2>11. OneIsCompleted'
    BY <1>1, <2>10, NothingCompletes
  <2>12. Typed'
    BY <1>1, <1>3, <2>1, <2>2, <2>3, <2>4, <2>8, NoneAssumption DEF IInv, Typed, Grows
  <2>13. ExportsAreSound'
    BY <1>1, <2>1, ExportsAreKept
  <2>14. /\ Len(attachments') = Len(attachments) + 1
         /\ attachments'[Len(attachments) + 1] = NextId
         /\ \A i \in 1 .. Len(attachments) : attachments'[i] = attachments[i]
         /\ \A i \in 1 .. Len(attachments') : i \in 1 .. Len(attachments) \/ i = Len(attachments) + 1
         /\ Len(attachments) + 1 \in 1 .. Len(attachments')
    BY <1>1, <1>4, <2>1
  <2>15. JobIsSound'
    <3>1. \E i \in 1 .. Len(attachments') : disk'[attachments'[i]].kind = "archive"
      BY <1>2, <2>1, <2>14
    <3> QED BY <2>3, <3>1 DEF JobIsSound
  <2>16. NamedIsCurrent'
    <3>1. CASE published = None
      <4>1. log = <<>> /\ \A i \in 1 .. Len(attachments) : disk[attachments[i]].kind # "screenshot"
        BY <3>1 DEF IInv, NamedIsCurrent
      <4>2. \A i \in 1 .. Len(attachments') : disk'[attachments'[i]].kind # "screenshot"
        BY <1>2, <2>1, <2>7, <2>14, <4>1
      <4> QED BY <1>1, <3>1, <4>1, <4>2 DEF NamedIsCurrent
    <3>2. CASE published # None
      <4>1. /\ published \in 1 .. Len(disk) /\ disk[published].kind = "manifest"
            /\ disk[published].events = log
            /\ \A i \in 1 .. Len(attachments) : disk[attachments[i]].kind = "screenshot" =>
                 \E j \in 1 .. Len(disk[published].attachments) :
                   disk[published].attachments[j] = attachments[i]
            /\ finalized <=> disk[published].terminal # None
        BY <3>2 DEF IInv, NamedIsCurrent
      <4>2. published \in 1 .. Len(disk') /\ disk'[published] = disk[published]
        BY <2>1, <4>1 DEF Grows, IInv, Typed
      <4>3. \A i \in 1 .. Len(attachments') : disk'[attachments'[i]].kind = "screenshot" =>
              \E j \in 1 .. Len(disk'[published].attachments) :
                disk'[published].attachments[j] = attachments'[i]
        <5> SUFFICES ASSUME NEW i \in 1 .. Len(attachments'),
                            disk'[attachments'[i]].kind = "screenshot"
                     PROVE  \E j \in 1 .. Len(disk[published].attachments) :
                              disk[published].attachments[j] = attachments'[i]
          BY <4>2
        <5>1. disk'[attachments'[Len(attachments) + 1]].kind = "archive"
          BY <1>2, <2>1, <2>14
        <5>2. i \in 1 .. Len(attachments)
          BY <2>14, <5>1
        <5>3. attachments'[i] = attachments[i] /\ disk[attachments[i]].kind = "screenshot"
          BY <2>7, <2>14, <5>2
        <5> QED BY <4>1, <5>2, <5>3
      <4>4. published' = published /\ log' = log /\ finalized' = finalized
        BY <1>1
      <4>5. disk'[published].events = log /\ disk'[published].kind = "manifest"
            /\ (finalized <=> disk'[published].terminal # None)
        BY <4>1, <4>2
      <4> QED BY <3>2, <4>2, <4>3, <4>4, <4>5 DEF NamedIsCurrent
    <3> QED BY <3>1, <3>2
  <2> QED BY <2>9, <2>10, <2>11, <2>12, <2>13, <2>15, <2>16 DEF IInv
<1>5. CASE /\ NotStored(archive) /\ UNCHANGED attachments
           /\ Continue([job EXCEPT !.stage = "result"])
  <2>1. /\ job' = [job EXCEPT !.stage = "result"] /\ holder' = holder
    BY <1>5 DEF Continue
  <2>2. /\ job' \in FinalizeJobs /\ job'.op = "finalize" /\ job'.stage = "result"
        /\ job'.trace = job.trace
    BY <1>1, <2>1 DEF FinalizeJobs
  <2>3. job' # Idle
    BY <2>2, NoneAssumption DEF Idle
  <2>4. /\ Grows /\ \A i \in 1 .. Len(disk) : disk'[i] = disk[i]
    BY <1>2, <1>5, NotStoredGrows DEF IInv, Grows
  <2>5. job.trace = "captured" =>
          \E i \in 1 .. Len(attachments) : disk[attachments[i]].kind = "archive"
    BY <1>1 DEF IInv, JobIsSound
  <2>6. JobIsSound'
    BY <1>5, <2>2, <2>4, <2>5, EntriesAreBehind DEF JobIsSound
  <2>7. UNCHANGED journal
    BY <1>1, <1>5 DEF journal
  <2> QED BY <1>1, <1>2, <1>3, <1>5, <2>1, <2>2, <2>3, <2>6, <2>7, NoneAssumption, WritingInv
<1>6. CASE UNCHANGED <<disk, sidecars, attachments>> /\ Continue([job EXCEPT !.stage = "result"])
  BY <1>5, <1>6 DEF NotStored
<1> QED BY <1>4, <1>5, <1>6 DEF WriteDiagnostic

LEMMA WriteResultInv ==
  ASSUME IInv, WriteResult
  PROVE  IInv'
<1> DEFINE result == Result(job)
<1>1. /\ up /\ ~finalized /\ job.op = "finalize" /\ job.stage = "result"
      /\ job \in FinalizeJobs /\ job # Idle
      /\ UNCHANGED <<journal, exports, locked, bundle>>
  BY JobIsTyped DEF WriteResult, IInv
<1>2. /\ result \in Objects /\ result.kind = "result" /\ result.status = job.status
      /\ result.trace = job.trace /\ job.status \in Statuses
      /\ result.retention = "failure" <=> job.status = "failure"
  BY <1>1 DEF Result, Objects, FinalizeJobs
<1>3. holder \in Threads
  BY <1>1 DEF IInv, Typed
<1>4. CASE NotStored(result) /\ Release
  <2>1. job' = Idle /\ holder' = None /\ JobIsSound'
    BY <1>4, ReleaseIsSound
  <2> QED BY <1>1, <1>2, <1>4, <2>1, WritingInv
<1>5. CASE Stored(result) /\ Continue([job EXCEPT !.stage = "manifest", !.object = NextId])
  <2>1. /\ Grows /\ NextId = Len(disk) + 1 /\ NextId \in Nat /\ NextId \in sidecars'
        /\ disk'[NextId] = result /\ \A i \in 1 .. Len(disk) : disk'[i] = disk[i]
    BY <1>2, <1>5, StoredGrows DEF IInv, Grows
  <2>2. job' = [job EXCEPT !.stage = "manifest", !.object = NextId] /\ holder' = holder
    BY <1>5 DEF Continue
  <2>3. /\ job' \in FinalizeJobs /\ job'.op = "finalize" /\ job'.trace = job.trace
        /\ job'.object = NextId
    BY <1>1, <2>1, <2>2 DEF FinalizeJobs
  <2>4. job' # Idle
    BY <2>3, NoneAssumption DEF Idle
  <2>5. attachments' = attachments
    BY <1>1 DEF journal
  <2>6. job.trace = "captured" =>
          \E i \in 1 .. Len(attachments) : disk'[attachments[i]].kind = "archive"
    BY <1>1, <2>1, EntriesAreBehind DEF IInv, JobIsSound
  <2>7. Concluded(disk', NextId, attachments)
    BY <1>2, <2>1, <2>6 DEF Concluded
  <2>8. JobIsSound'
    BY <2>1, <2>3, <2>5, <2>6, <2>7 DEF JobIsSound
  <2> QED BY <1>1, <1>2, <1>3, <1>5, <2>2, <2>3, <2>4, <2>8, NoneAssumption, WritingInv
<1> QED BY <1>4, <1>5 DEF WriteResult

LEMMA CrashInv ==
  ASSUME IInv, Crash
  PROVE  IInv'
<1>1. /\ up' = FALSE /\ finalized' = FALSE /\ log' = <<>> /\ attachments' = <<>>
      /\ published' = None /\ UNCHANGED <<disk, sidecars, exports, locked, bundle>>
  BY DEF Crash
<1>2. job' = Idle /\ holder' = None /\ JobIsSound'
  BY ReleaseIsSound DEF Crash
<1>3. <<>> \in Seq(Nat)
  OBVIOUS
<1>4. Typed'
  BY <1>1, <1>2, <1>3 DEF IInv, Typed
<1>5. JournalIsSound'
  BY <1>1, LimitsAssumption DEF JournalIsSound, Logged, Attached
<1>6. ManifestsAreSound' /\ OneIsCompleted'
  BY <1>1 DEF IInv, ManifestsAreSound, OneIsCompleted
<1>7. NamedIsCurrent'
  BY <1>1 DEF NamedIsCurrent
<1>8. ExportsAreSound'
  BY <1>1, ExportsAreKept, StayingGrows DEF IInv
<1> QED BY <1>2, <1>4, <1>5, <1>6, <1>7, <1>8 DEF IInv

------------------------------------------------------------------------------
(* Steps of the exporters *)

LEMMA ExportInv ==
  ASSUME IInv, UNCHANGED <<disk, sidecars, journal, holder, job>>,
         exports' \in [Exporters -> ExportStates], ExportsAreSound'
  PROVE  IInv'
BY DEF IInv, Typed, JournalIsSound, ManifestsAreSound, OneIsCompleted, NamedIsCurrent, JobIsSound,
       journal

LEMMA ExportIsTyped ==
  ASSUME IInv, NEW e \in Exporters, exports[e].stage \in {"verified", "writing"}
  PROVE  /\ exports[e] \in [stage : {"verified", "writing"}, manifest : Nat,
                            parts : Seq({"evidence", "manifest"})]
BY DEF IInv, Typed, ExportStates

LEMMA StartExportInv ==
  ASSUME IInv, NEW e \in Exporters, StartExport(e)
  PROVE  IInv'
<1>1. PICK m \in 1 .. Len(disk) :
        /\ disk[m].terminal # None
        /\ exports' = [exports EXCEPT ![e] = [stage |-> "verified", manifest |-> m, parts |-> <<>>]]
  BY DEF StartExport
<1>2. m \in Nat /\ exports \in [Exporters -> ExportStates]
  BY DEF IInv, Typed
<1>3. [stage |-> "verified", manifest |-> m, parts |-> <<>>] \in ExportStates
  BY <1>2 DEF ExportStates
<1>4. /\ exports' \in [Exporters -> ExportStates]
      /\ exports'[e].stage = "verified" /\ exports'[e].manifest = m
      /\ \A f \in Exporters \ {e} : exports'[f] = exports[f]
  BY <1>1, <1>2, <1>3
<1>5. /\ UNCHANGED <<disk, sidecars, journal, holder, job, locked, bundle>>
      /\ exports[e].stage = "idle"
  BY DEF StartExport
<1>6. ExportsAreSound'
  BY <1>1, <1>4, <1>5 DEF IInv, ExportsAreSound
<1> QED BY <1>4, <1>5, <1>6, ExportInv

LEMMA LockDestinationInv ==
  ASSUME IInv, NEW e \in Exporters, LockDestination(e)
  PROVE  IInv'
<1>1. /\ exports[e].stage = "verified" /\ locked = None
      /\ UNCHANGED <<disk, sidecars, journal, holder, job, bundle>>
      /\ exports \in [Exporters -> ExportStates]
  BY DEF LockDestination, IInv, Typed
<1>2. CASE bundle # None
  <2>1. exports' = [exports EXCEPT ![e] = [stage |-> "idle"]] /\ locked' = locked
    BY <1>2 DEF LockDestination
  <2>2. /\ exports' \in [Exporters -> ExportStates] /\ exports'[e].stage = "idle"
        /\ \A f \in Exporters \ {e} : exports'[f] = exports[f]
    BY <1>1, <2>1 DEF ExportStates
  <2>3. ExportsAreSound'
    BY <1>1, <2>1, <2>2, NoneAssumption DEF IInv, ExportsAreSound
  <2> QED BY <1>1, <2>2, <2>3, ExportInv
<1>3. CASE bundle = None
  <2>1. exports' = [exports EXCEPT ![e].stage = "writing"] /\ locked' = e
    BY <1>3 DEF LockDestination
  <2>2. [exports[e] EXCEPT !.stage = "writing"] \in ExportStates
    BY <1>1, ExportIsTyped DEF ExportStates
  <2>3. /\ exports' \in [Exporters -> ExportStates]
        /\ exports'[e].stage = "writing" /\ exports'[e].manifest = exports[e].manifest
        /\ \A f \in Exporters \ {e} : exports'[f] = exports[f]
    BY <1>1, <2>1, <2>2, ExportIsTyped
  <2>4. ExportsAreSound'
    BY <1>1, <1>3, <2>1, <2>3, NoneAssumption DEF IInv, ExportsAreSound
  <2> QED BY <1>1, <2>3, <2>4, ExportInv
<1> QED BY <1>2, <1>3

LEMMA WritePartInv ==
  ASSUME IInv, NEW e \in Exporters, WritePart(e)
  PROVE  IInv'
<1>1. /\ exports[e].stage = "writing"
      /\ exports' = [exports EXCEPT ![e].parts =
                       Append(exports[e].parts, Parts[Len(exports[e].parts) + 1])]
      /\ UNCHANGED <<disk, sidecars, journal, holder, job, locked, bundle>>
      /\ exports \in [Exporters -> ExportStates]
  BY DEF WritePart, IInv, Typed
<1>2. /\ exports[e].parts \in Seq({"evidence", "manifest"})
      /\ Parts[Len(exports[e].parts) + 1] \in {"evidence", "manifest"}
  BY <1>1, ExportIsTyped DEF WritePart, Parts
<1>3. Append(exports[e].parts, Parts[Len(exports[e].parts) + 1]) \in Seq({"evidence", "manifest"})
  BY <1>2
<1>4. [exports[e] EXCEPT !.parts = Append(exports[e].parts, Parts[Len(exports[e].parts) + 1])]
        \in ExportStates
  BY <1>1, <1>3, ExportIsTyped DEF ExportStates
<1>5. /\ exports' \in [Exporters -> ExportStates]
      /\ exports'[e].stage = "writing" /\ exports'[e].manifest = exports[e].manifest
      /\ \A f \in Exporters \ {e} : exports'[f] = exports[f]
  BY <1>1, <1>4, ExportIsTyped
<1>6. ExportsAreSound'
  BY <1>1, <1>5 DEF IInv, ExportsAreSound
<1> QED BY <1>1, <1>5, <1>6, ExportInv

LEMMA RenameBundleInv ==
  ASSUME IInv, NEW e \in Exporters, RenameBundle(e)
  PROVE  IInv'
<1>1. /\ exports[e].stage = "writing" /\ exports[e].parts = Parts /\ locked' = None
      /\ bundle' = [manifest |-> exports[e].manifest, parts |-> exports[e].parts]
      /\ exports' = [exports EXCEPT ![e] = [stage |-> "idle"]]
      /\ UNCHANGED <<disk, sidecars, journal, holder, job>>
      /\ exports \in [Exporters -> ExportStates]
  BY DEF RenameBundle, IInv, Typed
<1>2. /\ exports' \in [Exporters -> ExportStates] /\ exports'[e].stage = "idle"
      /\ \A f \in Exporters \ {e} : exports'[f] = exports[f]
  BY <1>1 DEF ExportStates
<1>3. ExportsAreSound'
  BY <1>1, <1>2, NoneAssumption DEF IInv, ExportsAreSound
<1> QED BY <1>1, <1>2, <1>3, ExportInv

LEMMA AbandonExportInv ==
  ASSUME IInv, NEW e \in Exporters, AbandonExport(e)
  PROVE  IInv'
<1>1. /\ exports' = [exports EXCEPT ![e] = [stage |-> "idle"]]
      /\ locked' = IF locked = e THEN None ELSE locked
      /\ UNCHANGED <<disk, sidecars, journal, holder, job, bundle>>
      /\ exports \in [Exporters -> ExportStates]
  BY DEF AbandonExport, IInv, Typed
<1>2. /\ exports' \in [Exporters -> ExportStates] /\ exports'[e].stage = "idle"
      /\ \A f \in Exporters \ {e} : exports'[f] = exports[f]
  BY <1>1 DEF ExportStates
<1>3. ExportsAreSound'
  BY <1>1, <1>2, NoneAssumption DEF IInv, ExportsAreSound
<1> QED BY <1>1, <1>2, <1>3, ExportInv

------------------------------------------------------------------------------
LEMMA InitInv == Init => IInv
<1> SUFFICES ASSUME Init PROVE IInv
  OBVIOUS
<1>1. <<>> \in Seq(Objects) /\ <<>> \in Seq(Nat) /\ Len(<<>>) = 0
  OBVIOUS
<1>2. exports \in [Exporters -> ExportStates] /\ \A e \in Exporters : exports[e].stage = "idle"
  BY DEF Init, ExportStates
<1>3. Typed
  BY <1>1, <1>2 DEF Init, Typed
<1>4. JournalIsSound
  BY <1>1, LimitsAssumption DEF Init, JournalIsSound, Logged, Attached
<1>5. ManifestsAreSound /\ OneIsCompleted /\ NamedIsCurrent
  BY <1>1 DEF Init, ManifestsAreSound, OneIsCompleted, CompletedIn, NamedIsCurrent
<1>6. JobIsSound
  BY NoneAssumption DEF Init, Idle, JobIsSound
<1>7. ExportsAreSound
  BY <1>2, NoneAssumption DEF Init, ExportsAreSound
<1> QED BY <1>3, <1>4, <1>5, <1>6, <1>7 DEF IInv

LEMMA NextInv ==
  ASSUME IInv, [Next]_vars
  PROVE  IInv'
<1>1. CASE UNCHANGED vars
  <2>1. /\ UNCHANGED <<disk, sidecars, up, log, attachments, published, finalized>>
        /\ UNCHANGED <<holder, job, exports, locked, bundle>>
    BY <1>1 DEF vars, journal
  <2>2. Typed'
    BY <2>1 DEF IInv, Typed
  <2>3. JournalIsSound' /\ ManifestsAreSound'
    BY <2>1 DEF IInv, JournalIsSound, ManifestsAreSound
  <2>4. OneIsCompleted' /\ NamedIsCurrent'
    BY <2>1 DEF IInv, OneIsCompleted, NamedIsCurrent
  <2>5. JobIsSound' /\ ExportsAreSound'
    BY <2>1 DEF IInv, JobIsSound, ExportsAreSound
  <2> QED BY <2>2, <2>3, <2>4, <2>5 DEF IInv
<1>2. CASE Journals
  BY <1>2, StartRecordInv, StartAttachInv, StartFinalizeInv, WriteObjectInv, PublishRecordInv,
     PublishAttachmentInv, WriteDiagnosticInv, WriteResultInv, PublishResultInv, CrashInv
     DEF Journals
<1>3. CASE Exports
  BY <1>3, StartExportInv, LockDestinationInv, WritePartInv, RenameBundleInv, AbandonExportInv
     DEF Exports
<1> QED BY <1>1, <1>2, <1>3 DEF Next

------------------------------------------------------------------------------
(* What the invariant says of a manifest *)

LEMMA AtMostOne ==
  ASSUME NEW S, \A x, y \in S : x = y
  PROVE  Cardinality(S) <= 1
<1>1. CASE S = {}
  BY <1>1, FS_EmptySet
<1>2. CASE S # {}
  <2>1. PICK x \in S : S = {x}
    BY <1>2
  <2> QED BY <2>1, FS_Singleton
<1> QED BY <1>1, <1>2

LEMMA ManifestIsTyped ==
  ASSUME IInv, NEW m \in Manifests
  PROVE  /\ m \in 1 .. Len(disk) /\ disk[m].kind = "manifest" /\ Sound(disk, sidecars, m)
         /\ disk[m].events \in Seq(Nat) /\ disk[m].attachments \in Seq(Nat)
<1>1. m \in 1 .. Len(disk) /\ disk[m].kind = "manifest"
  BY DEF Manifests, Ids, Kind
<1>2. disk[m] \in Objects
  BY <1>1 DEF IInv, Typed
<1>3. disk[m].events \in Seq(Nat) /\ disk[m].attachments \in Seq(Nat)
  BY <1>1, <1>2 DEF Objects
<1> QED BY <1>1, <1>3 DEF IInv, ManifestsAreSound

\* The entries of a manifest: those of its events, then those of its attachments.
LEMMA ConcatIndices ==
  ASSUME NEW a \in Seq(Nat), NEW b \in Seq(Nat), NEW i \in DOMAIN (a \o b)
  PROVE  \/ i \in 1 .. Len(a) /\ (a \o b)[i] = a[i]
         \/ i - Len(a) \in 1 .. Len(b) /\ (a \o b)[i] = b[i - Len(a)]
<1>1. /\ Len(a) \in Nat /\ Len(b) \in Nat
      /\ a \o b \in Seq(Nat) /\ Len(a \o b) = Len(a) + Len(b)
  OBVIOUS
<1>2. DOMAIN (a \o b) = 1 .. Len(a) + Len(b)
  BY <1>1
<1>3. i \in Int /\ 1 <= i /\ i <= Len(a) + Len(b)
  BY <1>1, <1>2
<1>4. CASE i <= Len(a)
  <2>1. i \in 1 .. Len(a)
    BY <1>1, <1>3, <1>4
  <2> QED BY <1>1, <2>1
<1>5. CASE i > Len(a)
  <2>1. i - Len(a) \in 1 .. Len(b)
    BY <1>1, <1>3, <1>5
  <2>2. (a \o b)[i] = b[i - Len(a)]
    BY <1>1, <1>3, <1>5
  <2> QED BY <2>1, <2>2
<1> QED BY <1>1, <1>3, <1>4, <1>5

\* A sound manifest lists every object once.
LEMMA SoundListsOnce ==
  ASSUME IInv, NEW m \in Manifests
  PROVE  IsInjective(disk[m].events \o disk[m].attachments)
<1> DEFINE events == disk[m].events
           attached == disk[m].attachments
           entries == events \o attached
<1>1. /\ events \in Seq(Nat) /\ attached \in Seq(Nat)
      /\ Logged(disk, sidecars, events) /\ Attached(disk, sidecars, attached)
  BY ManifestIsTyped DEF Sound
<1>2. DOMAIN entries = 1 .. Len(events) + Len(attached)
  BY <1>1
<1>3. \A i \in DOMAIN entries :
        \/ i \in 1 .. Len(events) /\ entries[i] = events[i]
        \/ i - Len(events) \in 1 .. Len(attached) /\ entries[i] = attached[i - Len(events)]
  BY <1>1, ConcatIndices
<1>4. ASSUME NEW i \in DOMAIN entries, NEW j \in DOMAIN entries, entries[i] = entries[j]
      PROVE  i = j
  <2> HIDE DEF entries
  <2>1. CASE i \in 1 .. Len(events) /\ entries[i] = events[i]
    <3>1. disk[entries[i]].kind = "event" /\ disk[entries[i]].sequence = i
      BY <1>1, <2>1 DEF Logged
    <3>2. CASE j \in 1 .. Len(events) /\ entries[j] = events[j]
      BY <1>1, <1>4, <3>1, <3>2 DEF Logged
    <3>3. CASE j - Len(events) \in 1 .. Len(attached) /\ entries[j] = attached[j - Len(events)]
      BY <1>1, <1>4, <3>1, <3>3 DEF Attached
    <3> QED BY <1>3, <3>2, <3>3
  <2>2. CASE i - Len(events) \in 1 .. Len(attached) /\ entries[i] = attached[i - Len(events)]
    <3>1. CASE j \in 1 .. Len(events) /\ entries[j] = events[j]
      <4>1. disk[entries[j]].kind = "event"
        BY <1>1, <3>1 DEF Logged
      <4>2. disk[entries[i]].kind \in {"screenshot", "archive"}
        BY <1>1, <2>2 DEF Attached
      <4> QED BY <1>4, <4>1, <4>2
    <3>2. CASE j - Len(events) \in 1 .. Len(attached) /\ entries[j] = attached[j - Len(events)]
      <4>1. i - Len(events) = j - Len(events)
        BY <1>1, <1>4, <2>2, <3>2 DEF Attached
      <4>2. i \in Int /\ j \in Int /\ Len(events) \in Int
        BY <1>1, <1>2
      <4> QED BY <4>1, <4>2
    <3> QED BY <1>3, <3>1, <3>2
  <2> QED BY <1>3, <2>1, <2>2
<1> QED BY <1>4 DEF IsInjective

LEMMA SoundVerifies ==
  ASSUME IInv, NEW m \in Manifests
  PROVE  Verifies(m) /\ Listed(m) \subseteq sidecars
<1> DEFINE events == disk[m].events
           attached == disk[m].attachments
<1>1. /\ events \in Seq(Nat) /\ attached \in Seq(Nat) /\ events # <<>>
      /\ Logged(disk, sidecars, events) /\ Attached(disk, sidecars, attached)
      /\ disk[m].terminal # None =>
           disk[m].terminal \in sidecars /\ Concluded(disk, disk[m].terminal, attached)
  BY ManifestIsTyped DEF Sound
<1>2. \A a \in Range(attached) : Kind(a) \in {"screenshot", "archive"} /\ a \in sidecars
  BY <1>1 DEF Range, Attached, Kind
<1>3. Verifies(m)
  BY <1>1, <1>2, SoundListsOnce DEF Verifies, Logged, Attached, Concluded, Kind
<1>4. Range(events \o attached) \subseteq sidecars
  <2>1. \A i \in DOMAIN (events \o attached) :
          \/ i \in 1 .. Len(events) /\ (events \o attached)[i] = events[i]
          \/ /\ i - Len(events) \in 1 .. Len(attached)
             /\ (events \o attached)[i] = attached[i - Len(events)]
    BY <1>1, ConcatIndices
  <2>2. \A i \in 1 .. Len(events) : events[i] \in sidecars
    BY <1>1 DEF Logged
  <2>3. \A i \in 1 .. Len(attached) : attached[i] \in sidecars
    BY <1>1 DEF Attached
  <2>4. \A i \in DOMAIN (events \o attached) : (events \o attached)[i] \in sidecars
    BY <2>1, <2>2, <2>3
  <2> QED BY <2>4 DEF Range
<1> QED BY <1>1, <1>3, <1>4 DEF Listed

LEMMA InvTypeOK == IInv => TypeOK
<1> SUFFICES ASSUME IInv PROVE TypeOK
  OBVIOUS
<1>1. Range(log) \subseteq Ids /\ Range(attachments) \subseteq Ids
  BY EntriesAreBehind DEF IInv, Typed, Range, Ids
<1>2. Len(log) <= MaxEvents /\ Len(attachments) <= MaxAttachments
  BY DEF IInv, JournalIsSound, Logged, Attached
<1>3. published \in Manifests \cup {None}
  BY DEF IInv, NamedIsCurrent, Manifests, Ids, Kind
<1> QED BY <1>1, <1>2, <1>3 DEF IInv, Typed, ExportsAreSound, TypeOK, Ids

LEMMA InvCompletedOnce == IInv => CompletedOnce
<1> SUFFICES ASSUME IInv PROVE CompletedOnce
  OBVIOUS
<1> DEFINE completed == {m \in Manifests \cap sidecars : disk[m].terminal # None}
           archives(m) == {a \in Range(disk[m].attachments) : Kind(a) = "archive"}
<1>1. completed = CompletedIn(disk, sidecars)
  BY DEF CompletedIn, Manifests, Ids, Kind
<1>2. Cardinality(completed) <= 1
  BY <1>1, AtMostOne DEF IInv, OneIsCompleted
<1>3. finalized => completed = {published}
  BY <1>1 DEF IInv, OneIsCompleted
<1>4. ASSUME NEW m \in completed
      PROVE  /\ disk[disk[m].terminal].trace = "captured" => archives(m) # {}
             /\ Cardinality(archives(m)) <= 1
  <2>1. /\ disk[m].attachments \in Seq(Nat) /\ Attached(disk, sidecars, disk[m].attachments)
        /\ Concluded(disk, disk[m].terminal, disk[m].attachments)
    BY ManifestIsTyped DEF Sound
  <2>2. \A a \in archives(m) : \E i \in 1 .. Len(disk[m].attachments) :
          disk[m].attachments[i] = a /\ disk[disk[m].attachments[i]].kind = "archive"
    BY <2>1 DEF Range, Kind
  <2>3. Cardinality(archives(m)) <= 1
    <3>1. \A a, b \in archives(m) : a = b
      BY <2>1, <2>2 DEF Attached
    <3> QED BY <3>1, AtMostOne
  <2>4. disk[disk[m].terminal].trace = "captured" => archives(m) # {}
    BY <2>1 DEF Concluded, Range, Kind
  <2> QED BY <2>3, <2>4
<1> QED BY <1>2, <1>3, <1>4 DEF CompletedOnce

LEMMA InvJournalIsListed == IInv => JournalIsListed
<1> SUFFICES ASSUME IInv, up, holder = None
             PROVE  LET screenshots == {a \in Range(attachments) : Kind(a) = "screenshot"}
                    IN IF published = None THEN log = <<>> /\ screenshots = {}
                       ELSE /\ disk[published].events = log
                            /\ screenshots \subseteq Range(disk[published].attachments)
                            /\ finalized <=> disk[published].terminal # None
  BY DEF JournalIsListed
<1> DEFINE screenshots == {a \in Range(attachments) : Kind(a) = "screenshot"}
<1>1. \A a \in screenshots : \E i \in 1 .. Len(attachments) :
        attachments[i] = a /\ disk[attachments[i]].kind = "screenshot"
  BY DEF IInv, Typed, Range, Kind
<1>2. CASE published = None
  BY <1>1, <1>2 DEF IInv, NamedIsCurrent
<1>3. CASE published # None
  <2>1. published \in Manifests
    BY <1>3 DEF IInv, NamedIsCurrent, Manifests, Ids, Kind
  <2>2. disk[published].attachments \in Seq(Nat)
    BY <2>1, ManifestIsTyped
  <2>3. screenshots \subseteq Range(disk[published].attachments)
    <3>1. ASSUME NEW a \in screenshots
          PROVE  \E j \in 1 .. Len(disk[published].attachments) : disk[published].attachments[j] = a
      <4>1. PICK i \in 1 .. Len(attachments) : attachments[i] = a /\ disk[attachments[i]].kind = "screenshot"
        BY <1>1
      <4> QED BY <1>3, <4>1 DEF IInv, NamedIsCurrent
    <3>2. DOMAIN disk[published].attachments = 1 .. Len(disk[published].attachments)
      BY <2>2
    <3> HIDE DEF screenshots
    <3> QED BY <3>1, <3>2 DEF Range
  <2> QED BY <1>3, <2>3 DEF IInv, NamedIsCurrent
<1> QED BY <1>2, <1>3

------------------------------------------------------------------------------
(* Theorems *)

\* The invariant the properties follow from: what is on the disk is sound, the
\* journal and the operation that has its lock refer to what is there, and the
\* exporters exclude each other.
THEOREM InductiveInvariant == Spec => []IInv
BY InitInv, NextInv, PTL DEF Spec

\* Whatever write fails or the process stops at, verify_run_manifest refuses no
\* manifest on disk, and the run is completed once (record, attach, finalize).
THEOREM EvidenceIsAlwaysSound == Spec => []EvidenceIsSound
<1>1. ASSUME IInv
      PROVE  EvidenceIsSound
  BY <1>1, InvTypeOK, InvCompletedOnce, SoundVerifies DEF EvidenceIsSound
<1> QED BY <1>1, InductiveInvariant, PTL

\* The manifest that the journal names lists all that was recorded
\* (evidence_manifest_key).
THEOREM JournalIsAlwaysListed == Spec => []JournalIsListed
BY InvJournalIsListed, InductiveInvariant, PTL

\* A bundle appears whole, from the verified evidence of a completed run, and is
\* never replaced (export_evidence_bundle).
THEOREM BundlesAreWhole == Spec => BundleIsWhole
<1>1. ASSUME IInv, [Next]_vars
      PROVE  [/\ bundle' # None => /\ bundle'.parts = Parts
                                   /\ disk[bundle'.manifest].terminal # None
              /\ bundle # None => bundle' = bundle]_vars
  <2>1. CASE bundle' = bundle
    BY <1>1, <2>1 DEF IInv, ExportsAreSound
  <2>2. CASE bundle' # bundle
    <3>1. PICK e \in Exporters : RenameBundle(e)
      BY <1>1, <2>2
         DEF Next, Journals, Exports, vars, StartRecord, StartAttach, StartFinalize, WriteObject,
             PublishRecord, PublishAttachment, WriteDiagnostic, WriteResult, PublishResult, Crash,
             StartExport, LockDestination, WritePart, AbandonExport
    <3> QED BY <1>1, <3>1 DEF RenameBundle, IInv, ExportsAreSound
  <2> QED BY <2>1, <2>2
<1> QED BY <1>1, InductiveInvariant, PTL DEF Spec, BundleIsWhole

------------------------------------------------------------------------------
(***************************************************************************)
(* The execution viewer.  ViewerInv says of every execution what its       *)
(* record, its operation and the requests on its pauses agree on.  A step  *)
(* is mostly of one execution: OneExecution shows that the others keep     *)
(* what the invariant says of them, so that each action has to account for *)
(* its own only.                                                           *)
(***************************************************************************)
Stages == {"none", "queued", "over"} \cup OnThread
PauseStates == {"none", "open", "over"} \cup InFlight
Records == [mode : {"replay", "discovery"}, state : Shown, shown : 0..MaxPauses,
            finishedAt : {Nil} \cup 0..MaxTime]

TypesInv ==
  /\ Retained \subseteq Executions /\ view \in [Retained -> Records]
  /\ \A e \in Retained : view[e].finishedAt \in {Nil} \cup 0..clock
  /\ clock \in 0..MaxTime /\ phase \in {"open", "closing", "closed"}
  /\ launch \in [Executions -> Stages]
  /\ returned \in [Executions -> {Nil} \cup Results]
  /\ signal \in [Executions -> {"none", "resume", "cancel"}]
  /\ pause \in [Executions -> [PauseIds -> PauseStates]]
  /\ ended \in [Executions -> {Nil} \cup Terminal]

\* What a finished record shows is how the run ended, and an operation that is
\* not over has its record for as long as its run has not ended.
RecordInv(e) ==
  /\ e \in Retained => (Finished(e) <=> view[e].state \in Terminal)
  /\ e \in Retained /\ Finished(e) => view[e].state = ended[e]
  /\ launch[e] = "none" => e \notin Retained
  /\ launch[e] \in {"queued", "running", "registered", "waiting"} /\ ended[e] = Nil => e \in Active

\* Before its operation runs nothing has happened, and while it runs no
\* operator has anything to decide.
RunningInv(e) ==
  /\ launch[e] \in {"none", "queued", "running"} => ended[e] = Nil
  /\ launch[e] \in {"none", "queued"} => \A n \in PauseIds : pause[e][n] = "none"
  /\ launch[e] = "running" => \A n \in PauseIds : pause[e][n] \in {"none", "over"}

\* Only the last pause of an execution is handled; a resumed replay that pauses
\* again leaves behind the request that has yet to publish it.
PauseInv(e) ==
  \A n \in PauseIds :
    /\ pause[e][n] # "none" => \A m \in 1..(n - 1) : pause[e][m] \in {"over", "repausing"}
    /\ pause[e][n] \in {"open", "resolved", "driving"} => ended[e] = Nil
    /\ pause[e][n] = "terminated" => ended[e] = "terminated"
    /\ pause[e][n] = "published" => ended[e] = "terminated" /\ e \notin Active
    /\ pause[e][n] \in {"driving", "repausing"} => launch[e] \in {"returning", "over"}
    /\ pause[e][n] = "repausing" => n < MaxPauses
    /\ phase # "open" => pause[e][n] \notin InFlight

\* A discovery that waits is woken to go on only by the operator's decision, and
\* cancelled only when its end is published, or when nothing has ended it.
WaitingInv(e) ==
  launch[e] \in {"registered", "waiting"} =>
    /\ \E n \in PauseIds : pause[e][n] # "none"
    /\ signal[e] = "resume" =>
         ended[e] = Nil /\ \A n \in PauseIds : pause[e][n] \in {"none", "over"}
    /\ signal[e] = "cancel" /\ e \in Active => ended[e] = Nil /\ phase # "open"
    /\ ended[e] # Nil /\ e \in Active => \E n \in PauseIds : pause[e][n] = "terminated"

\* A result that ends the execution is the run's end, unless that is shown already.
ReturnInv(e) ==
  launch[e] = "returning" =>
    /\ returned[e] \in Results
    /\ returned[e].status \in Terminal =>
         ended[e] # Nil /\ (e \in Active => returned[e].status = ended[e])

Coherent(e) == RecordInv(e) /\ RunningInv(e) /\ PauseInv(e) /\ WaitingInv(e) /\ ReturnInv(e)

ViewerInv == TypesInv /\ WithinLimits /\ \A e \in Executions : Coherent(e)

LEMMA LeastNumber ==
  ASSUME NEW S, S \subseteq Nat, S # {}
  PROVE  \E n \in S : \A m \in S : n <= m
<1>1. PICK n \in S : \A m \in S : ~(<<m, n>> \in OpToRel(<, Nat))
  BY WFMin, NatLessThanWellFounded, Zenon
<1>2. \A m \in S : ~(m < n)
  BY <1>1, Zenon DEF OpToRel
<1> QED BY <1>2

LEMMA SmallerSet ==
  ASSUME NEW S, NEW T, S \subseteq T, T \subseteq Executions
  PROVE  /\ IsFiniteSet(S) /\ IsFiniteSet(T) /\ Cardinality(S) \in Nat /\ Cardinality(T) \in Nat
         /\ Cardinality(S) <= Cardinality(T)
<1>1. IsFiniteSet(Executions)
  BY BoundsAssumption, FS_Interval DEF Executions
<1>2. IsFiniteSet(T) /\ IsFiniteSet(S)
  BY <1>1, FS_Subset
<1> QED BY <1>2, FS_Subset, FS_CardinalityType

\* The pause that is begun next, and the one that was begun last.
LEMMA NewPauseIsNext ==
  ASSUME NEW e, MayPause(e)
  PROVE  /\ NewPause(e) \in PauseIds /\ pause[e][NewPause(e)] = "none"
         /\ \A m \in 1..(NewPause(e) - 1) : pause[e][m] # "none"
<1> DEFINE free == {n \in PauseIds : pause[e][n] = "none"}
<1>1. free \subseteq Nat /\ free # {}
  BY BoundsAssumption DEF MayPause, PauseIds
<1>2. PICK n \in free : \A m \in free : n <= m
  <2> HIDE DEF free
  <2> QED BY <1>1, LeastNumber
<1>3. \A m \in 1..(n - 1) : pause[e][m] # "none"
  BY <1>2, BoundsAssumption DEF PauseIds
<1>4. \E p \in PauseIds : pause[e][p] = "none" /\ \A m \in 1..(p - 1) : pause[e][m] # "none"
  BY <1>2, <1>3
<1> QED BY <1>4 DEF NewPause

LEMMA LastPauseIsLast ==
  ASSUME NEW e, \E n \in PauseIds : pause[e][n] # "none"
  PROVE  /\ LastPause(e) \in PauseIds /\ pause[e][LastPause(e)] # "none"
         /\ \A m \in (LastPause(e) + 1)..MaxPauses : pause[e][m] = "none"
<1> DEFINE rest == {MaxPauses - n : n \in {m \in PauseIds : pause[e][m] # "none"}}
<1>1. rest \subseteq Nat /\ rest # {}
  BY BoundsAssumption DEF PauseIds
<1>2. PICK r \in rest : \A s \in rest : r <= s
  <2> HIDE DEF rest
  <2> QED BY <1>1, LeastNumber
<1>3. PICK n \in PauseIds : r = MaxPauses - n /\ pause[e][n] # "none"
  BY <1>2
<1>4. \A m \in (n + 1)..MaxPauses : pause[e][m] = "none"
  <2> SUFFICES ASSUME NEW m \in (n + 1)..MaxPauses, pause[e][m] # "none" PROVE FALSE
    OBVIOUS
  <2>1. m \in PauseIds /\ MaxPauses - m \in rest
    BY <1>3, BoundsAssumption DEF PauseIds
  <2>2. r <= MaxPauses - m
    <3> HIDE DEF rest
    <3> QED BY <1>2, <2>1
  <2> QED BY <1>3, <2>1, <2>2, BoundsAssumption DEF PauseIds
<1>5. \E p \in PauseIds : pause[e][p] # "none" /\ \A m \in (p + 1)..MaxPauses : pause[e][m] = "none"
  BY <1>3, <1>4
<1> QED BY <1>5 DEF LastPause

------------------------------------------------------------------------------
(* Steps of one execution *)

\* The other records are left alone.
OthersKept(e) ==
  /\ Retained' = Retained /\ view' \in [Retained -> Records]
  /\ \A x \in Retained \ {e} : view'[x] = view[x]
  /\ e \in Retained => view'[e].finishedAt \in {Nil} \cup 0..clock
  /\ clock' = clock

LEMMA FinishedView ==
  ASSUME ViewerInv, NEW e \in Executions, NEW result \in Results, FinishView(e, result), clock' = clock
  PROVE  /\ OthersKept(e)
         /\ e \notin Active => e \notin Active' /\ (e \in Retained => view'[e] = view[e])
         /\ e \in Active => /\ view'[e].state = result.status
                            /\ Finished(e)' <=> result.status \in Terminal
<1>1. clock \in 0..MaxTime /\ view \in [Retained -> Records]
      /\ \A x \in Retained : view[x].finishedAt \in {Nil} \cup 0..clock
  BY DEF ViewerInv, TypesInv
<1>2. clock # Nil /\ clock \in 0..clock
  BY <1>1, NilAssumption, BoundsAssumption
<1>3. CASE e \notin Active
  <2>1. view' = view
    BY <1>3 DEF FinishView, Active
  <2> QED BY <1>1, <1>3, <2>1 DEF OthersKept, Retained, Active, Finished
<1>4. CASE e \in Active
  <2>1. e \in Retained /\ view[e].finishedAt = Nil
    BY <1>4 DEF Active, Finished
  <2> DEFINE record == [view[e] EXCEPT !.state = result.status, !.shown = result.pause,
                                       !.finishedAt = IF result.status = "paused" THEN @ ELSE clock]
  <2>2. view' = [view EXCEPT ![e] = record]
    BY <2>1, <1>1 DEF FinishView, Finished
  <2>3. /\ record \in Records /\ record.state = result.status
        /\ record.finishedAt = IF result.status = "paused" THEN Nil ELSE clock
    BY <1>1, <2>1 DEF Records, Results, Shown, Terminal, Ends
  <2> HIDE DEF record
  <2>4. view' \in [Retained -> Records] /\ view'[e] = record
        /\ \A x \in Retained \ {e} : view'[x] = view[x]
    BY <1>1, <2>1, <2>2, <2>3
  <2>5. OthersKept(e)
    BY <1>2, <2>3, <2>4 DEF OthersKept, Retained
  <2>6. Finished(e)' <=> result.status \in Terminal
    BY <1>2, <2>3, <2>4 DEF Finished, Results, Terminal, Ends
  <2> QED BY <1>4, <2>3, <2>4, <2>5, <2>6
<1> QED BY <1>3, <1>4

LEMMA ResumedView ==
  ASSUME ViewerInv, NEW e \in Executions, ResumeView(e), clock' = clock
  PROVE  /\ OthersKept(e)
         /\ e \notin Active => e \notin Active' /\ (e \in Retained => view'[e] = view[e])
         /\ e \in Active => view'[e].state = "running" /\ ~Finished(e)'
<1>1. clock \in 0..MaxTime /\ view \in [Retained -> Records]
      /\ \A x \in Retained : view[x].finishedAt \in {Nil} \cup 0..clock
  BY DEF ViewerInv, TypesInv
<1>2. CASE e \notin Active
  <2>1. view' = view
    BY <1>2 DEF ResumeView, Active
  <2> QED BY <1>1, <1>2, <2>1 DEF OthersKept, Retained, Active, Finished
<1>3. CASE e \in Active
  <2>1. e \in Retained /\ view[e].finishedAt = Nil
    BY <1>3 DEF Active, Finished
  <2> DEFINE record == [view[e] EXCEPT !.state = "running", !.shown = NoPause]
  <2>2. view' = [view EXCEPT ![e] = record]
    BY <2>1, <1>1 DEF ResumeView, Finished
  <2>3. record \in Records /\ record.state = "running" /\ record.finishedAt = Nil
    <3>1. view[e] \in Records /\ "running" \in Shown /\ NoPause \in 0..MaxPauses
      BY <1>1, <2>1, BoundsAssumption DEF Shown, NoPause
    <3> HIDE DEF NoPause
    <3> QED BY <2>1, <3>1 DEF Records
  <2> HIDE DEF record
  <2>4. view' \in [Retained -> Records] /\ view'[e] = record
        /\ \A x \in Retained \ {e} : view'[x] = view[x]
    BY <1>1, <2>1, <2>2, <2>3
  <2>5. OthersKept(e)
    BY <2>3, <2>4 DEF OthersKept, Retained
  <2> QED BY <1>3, <2>3, <2>4, <2>5 DEF Finished
<1> QED BY <1>2, <1>3

LEMMA UnchangedView ==
  ASSUME ViewerInv, NEW e \in Executions, UNCHANGED <<view, clock>>
  PROVE  OthersKept(e) /\ (e \in Active' <=> e \in Active)
BY DEF ViewerInv, TypesInv, OthersKept, Retained, Active, Finished

\* What the rest of the invariant says of the other executions is not disturbed.
LEMMA OneExecution ==
  ASSUME ViewerInv, NEW e \in Executions, OthersKept(e), phase' = phase,
         launch' = [launch EXCEPT ![e] = launch'[e]], launch'[e] \in Stages,
         returned' = [returned EXCEPT ![e] = returned'[e]], returned'[e] \in {Nil} \cup Results,
         signal' = [signal EXCEPT ![e] = signal'[e]], signal'[e] \in {"none", "resume", "cancel"},
         pause' = [pause EXCEPT ![e] = pause'[e]], pause'[e] \in [PauseIds -> PauseStates],
         ended' = [ended EXCEPT ![e] = ended'[e]], ended'[e] \in {Nil} \cup Terminal,
         e \notin Active => e \notin Active',
         Cardinality(Busy') <= MaxActive,
         Coherent(e)'
  PROVE  ViewerInv'
<1>1. TypesInv
  BY DEF ViewerInv
<1>2. TypesInv'
  <2>1. /\ launch' \in [Executions -> Stages]
        /\ returned' \in [Executions -> {Nil} \cup Results]
        /\ signal' \in [Executions -> {"none", "resume", "cancel"}]
        /\ pause' \in [Executions -> [PauseIds -> PauseStates]]
        /\ ended' \in [Executions -> {Nil} \cup Terminal]
    BY <1>1 DEF TypesInv
  <2>2. \A x \in Retained' : view'[x].finishedAt \in {Nil} \cup 0..clock'
    BY <1>1 DEF TypesInv, OthersKept
  <2> QED BY <1>1, <2>1, <2>2 DEF TypesInv, OthersKept
<1>3. Active' \subseteq Active /\ Active \subseteq Retained /\ Retained \subseteq Executions
  BY <1>1 DEF TypesInv, OthersKept, Active, Finished
<1>4. WithinLimits'
  <2>1. Cardinality(Retained') <= MaxExecutions
    BY DEF ViewerInv, WithinLimits, OthersKept
  <2>2. Cardinality(Active) <= MaxActive
    BY DEF ViewerInv, WithinLimits, Active
  <2>3. Cardinality(Active') <= Cardinality(Active) /\ Cardinality(Active) \in Nat
        /\ Cardinality(Active') \in Nat
    BY <1>3, SmallerSet
  <2> QED BY <2>1, <2>2, <2>3, ViewingAssumption DEF WithinLimits, Active
<1>5. ASSUME NEW x \in Executions, x # e PROVE Coherent(x)'
  <2>1. /\ launch'[x] = launch[x] /\ returned'[x] = returned[x] /\ signal'[x] = signal[x]
        /\ pause'[x] = pause[x] /\ ended'[x] = ended[x] /\ phase' = phase
    BY <1>1, <1>5 DEF TypesInv
  <2>2. /\ x \in Retained' <=> x \in Retained
        /\ x \in Retained => view'[x] = view[x]
        /\ x \in Active' <=> x \in Active
    BY <1>5 DEF OthersKept, Active, Finished
  <2>3. Coherent(x)
    BY DEF ViewerInv
  <2>4. RecordInv(x)'
    BY <2>1, <2>2, <2>3 DEF Coherent, RecordInv, Finished
  <2>5. RunningInv(x)'
    BY <2>1, <2>3 DEF Coherent, RunningInv
  <2>6. PauseInv(x)'
    BY <2>1, <2>2, <2>3 DEF Coherent, PauseInv
  <2>7. WaitingInv(x)'
    BY <2>1, <2>2, <2>3 DEF Coherent, WaitingInv
  <2>8. ReturnInv(x)'
    BY <2>1, <2>2, <2>3 DEF Coherent, ReturnInv
  <2> QED BY <2>4, <2>5, <2>6, <2>7, <2>8 DEF Coherent
<1> QED BY <1>2, <1>4, <1>5 DEF ViewerInv

\* An operation that does not begin makes no thread busier.
LEMMA NoBusier ==
  ASSUME ViewerInv, NEW e \in Executions, launch' = [launch EXCEPT ![e] = launch'[e]],
         launch'[e] \in OnThread => launch[e] \in OnThread
  PROVE  Cardinality(Busy') <= MaxActive
<1>1. Busy' \subseteq Busy /\ Busy \subseteq Executions
  BY DEF Busy, ViewerInv, TypesInv
<1>2. Cardinality(Busy') <= Cardinality(Busy) /\ Cardinality(Busy) \in Nat /\ Cardinality(Busy') \in Nat
  BY <1>1, SmallerSet
<1> QED BY <1>2, ViewingAssumption DEF ViewerInv, WithinLimits

\* The invariant, of one execution.
LEMMA OfOne ==
  ASSUME ViewerInv, NEW e \in Executions
  PROVE  /\ launch[e] \in Stages /\ returned[e] \in {Nil} \cup Results
         /\ signal[e] \in {"none", "resume", "cancel"} /\ ended[e] \in {Nil} \cup Terminal
         /\ pause[e] \in [PauseIds -> PauseStates]
         /\ RecordInv(e) /\ RunningInv(e) /\ PauseInv(e) /\ WaitingInv(e) /\ ReturnInv(e)
         /\ launch \in [Executions -> Stages] /\ returned \in [Executions -> {Nil} \cup Results]
         /\ signal \in [Executions -> {"none", "resume", "cancel"}]
         /\ ended \in [Executions -> {Nil} \cup Terminal]
         /\ pause \in [Executions -> [PauseIds -> PauseStates]]
BY DEF ViewerInv, TypesInv, Coherent

LEMMA RunKeeps ==
  ASSUME ViewerInv, NEW e \in Executions, Run(e)
  PROVE  ViewerInv'
<1>1. /\ launch[e] = "queued" /\ launch'[e] = "running"
      /\ launch' = [launch EXCEPT ![e] = launch'[e]]
      /\ UNCHANGED <<view, clock, phase, returned, signal, pause, ended>>
  BY OfOne DEF Run, Queued
<1>2. OthersKept(e) /\ (e \in Active' <=> e \in Active)
  BY <1>1, UnchangedView
<1>3. Cardinality(Busy') <= MaxActive
  <2>1. Busy' \subseteq Busy \cup {e} /\ Busy \cup {e} \subseteq Executions
    BY <1>1 DEF Busy, ViewerInv, TypesInv
  <2>2. /\ IsFiniteSet(Busy) /\ Cardinality(Busy) \in Nat
        /\ Cardinality(Busy') \in Nat /\ Cardinality(Busy \cup {e}) \in Nat
        /\ Cardinality(Busy') <= Cardinality(Busy \cup {e})
    BY <2>1, SmallerSet
  <2>3. Cardinality(Busy \cup {e}) = Cardinality(Busy) + 1
    <3>1. e \notin Busy
      BY <1>1 DEF Busy, OnThread
    <3> QED BY <2>2, <3>1, FS_AddElement
  <2>4. Cardinality(Busy) < MaxActive
    BY DEF Run
  <2> QED BY <2>2, <2>3, <2>4, ViewingAssumption
<1>4. Coherent(e)'
  <2>1. RecordInv(e)'
    BY <1>1, <1>2, OfOne DEF RecordInv, Finished, Retained
  <2>2. RunningInv(e)' /\ PauseInv(e)' /\ WaitingInv(e)' /\ ReturnInv(e)'
    BY <1>1, <1>2, OfOne DEF RunningInv, PauseInv, WaitingInv, ReturnInv
  <2> QED BY <2>1, <2>2 DEF Coherent
<1> QED BY <1>1, <1>2, <1>3, <1>4, OfOne, OneExecution DEF Stages, OnThread

LEMMA ReplayPausesKeeps ==
  ASSUME ViewerInv, NEW e \in Executions, ReplayPauses(e)
  PROVE  ViewerInv'
<1> DEFINE n == NewPause(e)
<1>1. n \in PauseIds /\ pause[e][n] = "none" /\ \A m \in 1..(n - 1) : pause[e][m] # "none"
  BY NewPauseIsNext DEF ReplayPauses
<1>2. /\ launch[e] = "running" /\ launch'[e] = "returning" /\ launch' = [launch EXCEPT ![e] = launch'[e]]
      /\ returned'[e] = [status |-> "paused", pause |-> n]
      /\ returned' = [returned EXCEPT ![e] = returned'[e]]
      /\ pause'[e] = [pause[e] EXCEPT ![n] = "open"] /\ pause' = [pause EXCEPT ![e] = pause'[e]]
      /\ UNCHANGED <<view, clock, phase, signal, ended>>
  BY OfOne DEF ReplayPauses, Paused
<1>3. OthersKept(e) /\ (e \in Active' <=> e \in Active)
  BY <1>2, UnchangedView
<1> HIDE DEF n
<1>4. returned'[e] \in Results
  BY <1>1, <1>2, BoundsAssumption DEF Results, PauseIds
<1>5. pause'[e] \in [PauseIds -> PauseStates]
  BY <1>1, <1>2, OfOne DEF PauseStates
<1>6. Coherent(e)'
  <2>1. RecordInv(e)'
    BY <1>2, <1>3, OfOne DEF RecordInv, Finished, Retained
  <2>2. RunningInv(e)'
    BY <1>2 DEF RunningInv
  <2>3. \A m \in PauseIds : pause[e][m] \in {"none", "over"} /\ ended[e] = Nil
    BY <1>2, OfOne DEF RunningInv
  <2>4. PauseInv(e)'
    BY <1>1, <1>2, <2>3, OfOne, BoundsAssumption DEF PauseInv, InFlight, PauseIds
  <2>5. WaitingInv(e)'
    BY <1>2 DEF WaitingInv
  <2>6. ReturnInv(e)'
    BY <1>2, <1>4 DEF ReturnInv, Terminal, Ends
  <2> QED BY <2>1, <2>2, <2>4, <2>5, <2>6 DEF Coherent
<1> QED BY <1>2, <1>3, <1>4, <1>5, <1>6, OfOne, OneExecution, NoBusier DEF Stages, OnThread

LEMMA ReplayEndsKeeps ==
  ASSUME ViewerInv, NEW e \in Executions, ReplayEnds(e)
  PROVE  ViewerInv'
<1>1. PICK status \in Ends :
        /\ launch[e] = "running" /\ launch' = [launch EXCEPT ![e] = "returning"]
        /\ FinishView(e, Ended(status)) \/ UNCHANGED view
        /\ returned' = [returned EXCEPT ![e] = Ended(status)]
        /\ ended' = [ended EXCEPT ![e] = status]
        /\ UNCHANGED <<clock, phase, signal, pause>>
  BY DEF ReplayEnds, RunResult, Ends
<1>2. /\ launch'[e] = "returning" /\ launch' = [launch EXCEPT ![e] = launch'[e]]
      /\ returned'[e] = Ended(status) /\ returned' = [returned EXCEPT ![e] = returned'[e]]
      /\ ended'[e] = status /\ ended' = [ended EXCEPT ![e] = ended'[e]]
      /\ UNCHANGED <<clock, phase, signal, pause>>
  BY <1>1, OfOne
<1>3. /\ Ended(status) \in Results /\ Ended(status).status = status
      /\ status \in Terminal /\ status # Nil
  BY <1>1, BoundsAssumption, NilAssumption DEF Ended, Results, Terminal, NoPause
<1>4. /\ OthersKept(e)
      /\ e \notin Active => e \notin Active' /\ (e \in Retained => view'[e] = view[e])
      /\ e \in Active' => view'[e] = view[e]
      /\ e \in Active /\ e \notin Active' => view'[e].state = status /\ Finished(e)'
  <2>1. CASE UNCHANGED view
    BY <1>2, <2>1, UnchangedView
  <2>2. CASE FinishView(e, Ended(status))
    BY <1>2, <1>3, <2>2, FinishedView DEF OthersKept, Active
  <2> QED BY <1>1, <2>1, <2>2
<1>5. Coherent(e)'
  <2>1. ended[e] = Nil /\ e \in Active
    BY <1>1, OfOne DEF RunningInv, RecordInv
  <2>2. e \in Active' \/ (view'[e].state = status /\ Finished(e)')
    BY <1>4, <2>1
  <2>3. RecordInv(e)'
    <3>1. CASE e \in Active'
      BY <1>2, <1>3, <1>4, <2>1, <3>1, OfOne DEF RecordInv, Finished, Active, OthersKept
    <3>2. CASE view'[e].state = status /\ Finished(e)'
      BY <1>2, <1>3, <1>4, <2>1, <3>2, OfOne DEF RecordInv
    <3> QED BY <2>2, <3>1, <3>2
  <2>4. RunningInv(e)' /\ WaitingInv(e)'
    BY <1>2 DEF RunningInv, WaitingInv
  <2>5. \A m \in PauseIds : pause[e][m] \in {"none", "over"}
    BY <1>1, OfOne DEF RunningInv
  <2>6. PauseInv(e)'
    BY <1>2, <2>5, OfOne DEF PauseInv, InFlight
  <2>7. ReturnInv(e)'
    BY <1>2, <1>3 DEF ReturnInv
  <2> QED BY <2>3, <2>4, <2>6, <2>7 DEF Coherent
<1>6. Cardinality(Busy') <= MaxActive
  BY <1>1, <1>2, NoBusier DEF OnThread
<1>7. launch'[e] \in Stages /\ returned'[e] \in {Nil} \cup Results /\ ended'[e] \in {Nil} \cup Terminal
  BY <1>2, <1>3 DEF Stages, OnThread
<1> QED BY <1>2, <1>4, <1>5, <1>6, <1>7, OfOne, OneExecution

LEMMA DiscoveryPausesKeeps ==
  ASSUME ViewerInv, NEW e \in Executions, DiscoveryPauses(e)
  PROVE  ViewerInv'
<1> DEFINE n == NewPause(e)
<1>1. n \in PauseIds /\ pause[e][n] = "none" /\ \A m \in 1..(n - 1) : pause[e][m] # "none"
  BY NewPauseIsNext DEF DiscoveryPauses
<1>2. /\ launch[e] = "running" /\ launch'[e] = "registered" /\ launch' = [launch EXCEPT ![e] = launch'[e]]
      /\ signal'[e] = IF phase = "open" THEN "none" ELSE "cancel"
      /\ signal' = [signal EXCEPT ![e] = signal'[e]]
      /\ pause'[e] = [pause[e] EXCEPT ![n] = "open"] /\ pause' = [pause EXCEPT ![e] = pause'[e]]
      /\ UNCHANGED <<view, clock, phase, returned, ended>>
  BY OfOne DEF DiscoveryPauses
<1>3. OthersKept(e) /\ (e \in Active' <=> e \in Active)
  BY <1>2, UnchangedView
<1> HIDE DEF n
<1>4. pause'[e] \in [PauseIds -> PauseStates] /\ pause'[e][n] = "open"
  BY <1>1, <1>2, OfOne DEF PauseStates
<1>5. Coherent(e)'
  <2>1. ended[e] = Nil /\ \A m \in PauseIds : pause[e][m] \in {"none", "over"}
    BY <1>2, OfOne DEF RunningInv
  <2>2. RecordInv(e)'
    BY <1>2, <1>3, OfOne DEF RecordInv, Finished, Retained
  <2>3. RunningInv(e)' /\ ReturnInv(e)'
    BY <1>2 DEF RunningInv, ReturnInv
  <2>4. PauseInv(e)'
    BY <1>1, <1>2, <2>1, OfOne, BoundsAssumption DEF PauseInv, InFlight, PauseIds
  <2>5. WaitingInv(e)'
    BY <1>1, <1>2, <1>4, <2>1 DEF WaitingInv
  <2> QED BY <2>2, <2>3, <2>4, <2>5 DEF Coherent
<1> QED BY <1>2, <1>3, <1>4, <1>5, OfOne, OneExecution, NoBusier DEF Stages, OnThread

LEMMA PublishPauseKeeps ==
  ASSUME ViewerInv, NEW e \in Executions, PublishPause(e)
  PROVE  ViewerInv'
<1>1. /\ launch[e] = "registered" /\ launch'[e] = "waiting" /\ launch' = [launch EXCEPT ![e] = launch'[e]]
      /\ FinishView(e, Paused(LastPause(e)))
      /\ UNCHANGED <<clock, phase, returned, signal, pause, ended>>
  BY OfOne DEF PublishPause, RunResult, Paused
<1>2. LastPause(e) \in PauseIds
  BY <1>1, OfOne, LastPauseIsLast DEF WaitingInv
<1>3. /\ Paused(LastPause(e)) \in Results /\ Paused(LastPause(e)).status = "paused"
      /\ "paused" \notin Terminal
  BY <1>2, BoundsAssumption DEF Paused, Results, PauseIds, Terminal, Ends
<1>4. /\ OthersKept(e) /\ (e \in Active' <=> e \in Active)
      /\ e \notin Active => (e \in Retained => view'[e] = view[e])
      /\ e \in Active => view'[e].state = "paused"
  BY <1>1, <1>3, FinishedView DEF Active, OthersKept
<1>5. Coherent(e)'
  <2>1. RecordInv(e)'
    BY <1>1, <1>3, <1>4, OfOne DEF RecordInv, Finished, Active, OthersKept
  <2>2. RunningInv(e)' /\ PauseInv(e)' /\ WaitingInv(e)' /\ ReturnInv(e)'
    BY <1>1, <1>4, OfOne DEF RunningInv, PauseInv, WaitingInv, ReturnInv
  <2> QED BY <2>1, <2>2 DEF Coherent
<1> QED BY <1>1, <1>4, <1>5, OfOne, OneExecution, NoBusier DEF Stages, OnThread

LEMMA WakeKeeps ==
  ASSUME ViewerInv, NEW e \in Executions, Wake(e)
  PROVE  ViewerInv'
<1>1. /\ launch[e] = "waiting" /\ UNCHANGED <<view, clock, phase>>
      /\ signal'[e] = "none" /\ signal' = [signal EXCEPT ![e] = signal'[e]]
  BY OfOne DEF Wake
<1>2. OthersKept(e) /\ (e \in Active' <=> e \in Active)
  BY <1>1, UnchangedView
<1>3. CASE signal[e] = "resume" /\ launch' = [launch EXCEPT ![e] = "running"]
           /\ UNCHANGED <<returned, pause, ended>>
  <2>1. launch'[e] = "running" /\ launch' = [launch EXCEPT ![e] = launch'[e]]
    BY <1>3, OfOne
  <2>2. Coherent(e)'
    <3>1. ended[e] = Nil /\ \A n \in PauseIds : pause[e][n] \in {"none", "over"}
      BY <1>1, <1>3, OfOne DEF WaitingInv
    <3>2. RecordInv(e)'
      BY <1>1, <1>2, <1>3, <2>1, OfOne DEF RecordInv, Finished, Retained
    <3>3. RunningInv(e)' /\ WaitingInv(e)' /\ ReturnInv(e)'
      BY <1>3, <2>1, <3>1 DEF RunningInv, WaitingInv, ReturnInv
    <3>4. PauseInv(e)'
      BY <1>1, <1>2, <1>3, <3>1, OfOne DEF PauseInv, InFlight
    <3> QED BY <3>2, <3>3, <3>4 DEF Coherent
  <2> QED BY <1>1, <1>2, <1>3, <2>1, <2>2, OfOne, OneExecution, NoBusier DEF Stages, OnThread
<1>4. CASE /\ signal[e] = "cancel"
           /\ launch' = [launch EXCEPT ![e] = "returning"]
           /\ returned' = [returned EXCEPT ![e] = Ended("failure")]
           /\ ended' = [ended EXCEPT ![e] = IF @ = Nil THEN "failure" ELSE @]
           /\ pause' = [pause EXCEPT ![e][LastPause(e)] = "over"]
  <2> DEFINE n == LastPause(e)
  <2>1. n \in PauseIds /\ \A m \in (n + 1)..MaxPauses : pause[e][m] = "none"
    BY <1>1, OfOne, LastPauseIsLast DEF WaitingInv
  <2>2. /\ launch'[e] = "returning" /\ launch' = [launch EXCEPT ![e] = launch'[e]]
        /\ returned'[e] = Ended("failure") /\ returned' = [returned EXCEPT ![e] = returned'[e]]
        /\ ended'[e] = (IF ended[e] = Nil THEN "failure" ELSE ended[e])
        /\ ended' = [ended EXCEPT ![e] = ended'[e]]
        /\ pause'[e] = [pause[e] EXCEPT ![n] = "over"] /\ pause' = [pause EXCEPT ![e] = pause'[e]]
    BY <1>4, OfOne
  <2> HIDE DEF n
  <2>3. /\ Ended("failure") \in Results /\ Ended("failure").status = "failure"
        /\ "failure" \in Terminal /\ Nil # "failure" /\ ended'[e] # Nil /\ ended'[e] \in Terminal
    BY <2>2, OfOne, BoundsAssumption, NilAssumption DEF Ended, Results, Terminal, Ends, NoPause
  <2>4. /\ pause'[e] \in [PauseIds -> PauseStates] /\ pause'[e][n] = "over"
        /\ \A m \in PauseIds \ {n} : pause'[e][m] = pause[e][m]
    BY <2>1, <2>2, OfOne DEF PauseStates
  <2>5. Coherent(e)'
    <3>1. e \in Active => ended[e] = Nil /\ phase # "open"
      BY <1>1, <1>4, OfOne DEF WaitingInv
    <3>2. RecordInv(e)'
      BY <1>1, <1>2, <2>2, <2>3, <3>1, OfOne DEF RecordInv, Finished, Active, Retained
    <3>3. RunningInv(e)' /\ WaitingInv(e)'
      BY <2>2 DEF RunningInv, WaitingInv
    <3>4. ReturnInv(e)'
      BY <1>2, <2>2, <2>3, <3>1 DEF ReturnInv
    <3>5. \A m \in PauseIds : m < n => pause[e][m] \in {"over", "repausing"}
      <4>1. pause[e][n] # "none"
        BY <1>1, OfOne, LastPauseIsLast DEF WaitingInv, n
      <4> QED BY <2>1, <4>1, OfOne, BoundsAssumption DEF PauseInv, PauseIds
    <3>6. \A m \in PauseIds : pause'[e][m] \in {"over", "none", "repausing"}
      BY <2>1, <2>4, <3>5, BoundsAssumption DEF PauseIds
    <3>7. PauseInv(e)'
      <4>1. ASSUME NEW m \in PauseIds, pause'[e][m] # "none", NEW k \in 1..(m - 1)
            PROVE  pause'[e][k] \in {"over", "repausing"}
        <5>1. m <= n /\ k \in PauseIds
          BY <2>1, <2>4, <4>1, BoundsAssumption DEF PauseIds
        <5>2. k < n /\ k # n
          BY <2>1, <4>1, <5>1, BoundsAssumption DEF PauseIds
        <5> QED BY <2>4, <3>5, <5>1, <5>2
      <4>2. \A m \in PauseIds : pause'[e][m] = "repausing" => pause[e][m] = "repausing"
        BY <2>4
      <4> QED BY <1>1, <2>2, <3>6, <4>1, <4>2, OfOne DEF PauseInv, InFlight
    <3> QED BY <3>2, <3>3, <3>4, <3>7 DEF Coherent
  <2> QED BY <1>1, <1>2, <2>2, <2>3, <2>4, <2>5, OfOne, OneExecution, NoBusier DEF Stages, OnThread
<1> QED BY <1>3, <1>4 DEF Wake

LEMMA ValidationEndsKeeps ==
  ASSUME ViewerInv, NEW e \in Executions, ValidationEnds(e)
  PROVE  ViewerInv'
<1>1. UNCHANGED viewerVars
  BY DEF ValidationEnds, RunResult, Ended, Ends, viewerVars, threads
<1>2. Retained' = Retained /\ Busy' = Busy /\ (\A x : Finished(x)' <=> Finished(x)) /\ Active' = Active
  BY <1>1 DEF viewerVars, Retained, Busy, Finished, Active
<1>3. TypesInv' /\ WithinLimits'
  BY <1>1, <1>2 DEF viewerVars, ViewerInv, TypesInv, WithinLimits, Active
<1>4. ASSUME NEW x \in Executions PROVE Coherent(x)'
  BY <1>1, <1>2, OfOne DEF viewerVars, Coherent, RecordInv, RunningInv, PauseInv, WaitingInv, ReturnInv
<1> QED BY <1>3, <1>4 DEF ViewerInv

LEMMA DiscoveryEndsKeeps ==
  ASSUME ViewerInv, NEW e \in Executions, DiscoveryEnds(e)
  PROVE  ViewerInv'
<1>1. PICK status \in {"success", "failure"} :
        /\ returned' = [returned EXCEPT ![e] = Ended(status)]
        /\ ended' = [ended EXCEPT ![e] = status]
  BY DEF DiscoveryEnds
<1>2. /\ launch[e] = "running" /\ launch'[e] = "returning" /\ launch' = [launch EXCEPT ![e] = launch'[e]]
      /\ returned'[e] = Ended(status) /\ returned' = [returned EXCEPT ![e] = returned'[e]]
      /\ ended'[e] = status /\ ended' = [ended EXCEPT ![e] = ended'[e]]
      /\ UNCHANGED <<view, clock, phase, signal, pause>>
  BY <1>1, OfOne DEF DiscoveryEnds
<1>3. /\ Ended(status) \in Results /\ Ended(status).status = status
      /\ status \in Terminal /\ status # Nil
  BY BoundsAssumption, NilAssumption DEF Ended, Results, Terminal, Ends, NoPause
<1>4. OthersKept(e) /\ (e \in Active' <=> e \in Active)
  BY <1>2, UnchangedView
<1>5. Coherent(e)'
  <2>1. ended[e] = Nil /\ e \in Active /\ \A m \in PauseIds : pause[e][m] \in {"none", "over"}
    BY <1>2, OfOne DEF RunningInv, RecordInv
  <2>2. RecordInv(e)'
    BY <1>2, <1>3, <1>4, <2>1, OfOne DEF RecordInv, Finished, Active
  <2>3. RunningInv(e)' /\ WaitingInv(e)'
    BY <1>2 DEF RunningInv, WaitingInv
  <2>4. PauseInv(e)'
    BY <1>2, <2>1, OfOne DEF PauseInv, InFlight
  <2>5. ReturnInv(e)'
    BY <1>2, <1>3 DEF ReturnInv
  <2> QED BY <2>2, <2>3, <2>4, <2>5 DEF Coherent
<1> QED BY <1>2, <1>3, <1>4, <1>5, OfOne, OneExecution, NoBusier DEF Stages, OnThread

LEMMA ReturnKeeps ==
  ASSUME ViewerInv, NEW e \in Executions, Return(e)
  PROVE  ViewerInv'
<1>1. /\ launch[e] = "returning" /\ launch'[e] = "over" /\ launch' = [launch EXCEPT ![e] = launch'[e]]
      /\ FinishView(e, returned[e])
      /\ returned'[e] = Nil /\ returned' = [returned EXCEPT ![e] = returned'[e]]
      /\ UNCHANGED <<clock, phase, signal, pause, ended>>
  BY OfOne DEF Return
<1>2. /\ returned[e] \in Results /\ returned[e].status \in Terminal \cup {"paused"}
      /\ returned[e].status \in Terminal =>
           ended[e] # Nil /\ (e \in Active => returned[e].status = ended[e])
  BY <1>1, OfOne DEF ReturnInv, Results
<1>3. /\ OthersKept(e)
      /\ e \notin Active => e \notin Active' /\ (e \in Retained => view'[e] = view[e])
      /\ e \in Active => /\ view'[e].state = returned[e].status
                         /\ Finished(e)' <=> returned[e].status \in Terminal
  BY <1>1, <1>2, FinishedView
<1>4. Coherent(e)'
  <2>1. RecordInv(e)'
    <3>1. CASE e \in Active
      BY <1>1, <1>2, <1>3, <3>1 DEF RecordInv
    <3>2. CASE e \notin Active
      BY <1>1, <1>2, <1>3, <3>2, OfOne DEF RecordInv, Finished, OthersKept
    <3> QED BY <3>1, <3>2
  <2>2. RunningInv(e)' /\ WaitingInv(e)' /\ ReturnInv(e)'
    BY <1>1 DEF RunningInv, WaitingInv, ReturnInv
  <2>3. PauseInv(e)'
    BY <1>1, <1>3, OfOne DEF PauseInv
  <2> QED BY <2>1, <2>2, <2>3 DEF Coherent
<1> QED BY <1>1, <1>3, <1>4, OfOne, OneExecution, NoBusier DEF Stages, OnThread

\* The pause that somebody handles: those before it are dealt with, and none has
\* been begun after it.
LEMMA HandledPause ==
  ASSUME ViewerInv, NEW e \in Executions, NEW n \in PauseIds,
         pause[e][n] \notin {"none", "over", "repausing"}
  PROVE  /\ \A m \in PauseIds \ {n} : pause[e][m] \in {"none", "over", "repausing"}
         /\ \A m \in PauseIds : m < n => pause[e][m] # "none"
         /\ \A m \in PauseIds : n < m => pause[e][m] = "none"
         /\ launch[e] \in {"registered", "waiting", "returning", "over"}
<1>1. \A m \in PauseIds : m < n => pause[e][m] \in {"over", "repausing"}
  BY OfOne, BoundsAssumption DEF PauseInv, PauseIds
<1>2. \A m \in PauseIds : n < m => pause[e][m] = "none"
  BY OfOne, BoundsAssumption DEF PauseInv, PauseIds
<1>3. \A m \in PauseIds \ {n} : m < n \/ n < m
  BY BoundsAssumption DEF PauseIds
<1>4. launch[e] \in {"registered", "waiting", "returning", "over"}
  BY OfOne DEF RunningInv, Stages, OnThread
<1> QED BY <1>1, <1>2, <1>3, <1>4

LEMMA PauseMoves ==
  ASSUME ViewerInv, NEW e \in Executions, NEW n \in PauseIds, NEW state \in PauseStates,
         SetPause(e, n, state), state # "none",
         \/ pause[e][n] \notin {"none", "over", "repausing"}
         \/ pause[e][n] = "repausing" /\ state = "over"
  PROVE  /\ pause' = [pause EXCEPT ![e] = pause'[e]] /\ pause'[e] \in [PauseIds -> PauseStates]
         /\ pause'[e][n] = state /\ \A m \in PauseIds \ {n} : pause'[e][m] = pause[e][m]
         /\ \A m \in PauseIds : pause'[e][m] # "none" =>
              \A k \in 1..(m - 1) : pause'[e][k] \in {"over", "repausing"}
<1>1. pause'[e] = [pause[e] EXCEPT ![n] = state] /\ pause' = [pause EXCEPT ![e] = pause'[e]]
  BY OfOne DEF SetPause
<1>2. /\ pause'[e] \in [PauseIds -> PauseStates]
      /\ pause'[e][n] = state /\ \A m \in PauseIds \ {n} : pause'[e][m] = pause[e][m]
  BY <1>1, OfOne
<1>3. ASSUME NEW m \in PauseIds, pause'[e][m] # "none", NEW k \in 1..(m - 1)
      PROVE  pause'[e][k] \in {"over", "repausing"}
  <2>1. k \in PauseIds /\ k < m
    BY BoundsAssumption DEF PauseIds
  <2>2. pause[e][m] # "none"
    BY <1>2, <1>3
  <2>3. pause[e][k] \in {"over", "repausing"}
    BY <2>2, OfOne DEF PauseInv
  <2> QED BY <1>2, <2>1, <2>3
<1> QED BY <1>1, <1>2, <1>3

LEMMA ResolveKeeps ==
  ASSUME ViewerInv, NEW e \in Executions, NEW n \in PauseIds, Resolve(e, n)
  PROVE  ViewerInv'
<1>1. /\ phase = "open" /\ pause[e][n] = "open"
      /\ \E state \in {"resolved", "over"} : SetPause(e, n, state)
      /\ UNCHANGED <<view, clock, phase, launch, returned, signal, ended>>
  BY DEF Resolve
<1>2. /\ pause' = [pause EXCEPT ![e] = pause'[e]] /\ pause'[e] \in [PauseIds -> PauseStates]
      /\ pause'[e][n] \in {"resolved", "over"} /\ \A m \in PauseIds \ {n} : pause'[e][m] = pause[e][m]
      /\ \A m \in PauseIds : pause'[e][m] # "none" =>
           \A k \in 1..(m - 1) : pause'[e][k] \in {"over", "repausing"}
  BY <1>1, PauseMoves DEF PauseStates, InFlight
<1>3. OthersKept(e) /\ (e \in Active' <=> e \in Active)
  BY <1>1, UnchangedView
<1>4. /\ ended[e] = Nil /\ launch[e] \notin {"none", "queued", "running"}
  BY <1>1, HandledPause, OfOne DEF PauseInv
<1>5. Coherent(e)'
  <2>1. RecordInv(e)' /\ RunningInv(e)' /\ ReturnInv(e)'
    BY <1>1, <1>3, <1>4, OfOne DEF RecordInv, RunningInv, ReturnInv, Finished, Retained
  <2>2. PauseInv(e)'
    BY <1>1, <1>2, <1>3, <1>4, OfOne DEF PauseInv
  <2>3. WaitingInv(e)'
    BY <1>1, <1>2, <1>3, <1>4, OfOne DEF WaitingInv
  <2> QED BY <2>1, <2>2, <2>3 DEF Coherent
<1> QED BY <1>1, <1>2, <1>3, <1>5, OfOne, OneExecution, NoBusier

LEMMA ShowResumedKeeps ==
  ASSUME ViewerInv, NEW e \in Executions, NEW n \in PauseIds, ShowResumed(e, n)
  PROVE  ViewerInv'
<1>1. /\ pause[e][n] = "resolved" /\ ResumeView(e)
      /\ UNCHANGED <<clock, phase, launch, returned, ended>>
  BY DEF ShowResumed
<1>2. /\ OthersKept(e)
      /\ e \notin Active => e \notin Active' /\ (e \in Retained => view'[e] = view[e])
      /\ e \in Active => view'[e].state = "running" /\ ~Finished(e)'
  BY <1>1, ResumedView
<1>3. /\ launch[e] \in {"registered", "waiting", "returning", "over"} /\ ended[e] = Nil
      /\ \A m \in PauseIds \ {n} : pause[e][m] \in {"none", "over", "repausing"}
  BY <1>1, HandledPause, OfOne DEF PauseInv
<1>4. e \in Active' <=> e \in Active
  BY <1>2 DEF Active, OthersKept
<1>5. RecordInv(e)' /\ RunningInv(e)' /\ ReturnInv(e)'
  <2>1. RecordInv(e)'
    <3>1. CASE e \in Active
      BY <1>1, <1>2, <1>3, <3>1 DEF RecordInv, Terminal, Ends, Active, OthersKept
    <3>2. CASE e \notin Active
      BY <1>1, <1>2, <1>3, <3>2, OfOne DEF RecordInv, Finished, OthersKept
    <3> QED BY <3>1, <3>2
  <2>2. RunningInv(e)'
    BY <1>1, <1>3 DEF RunningInv
  <2>3. ReturnInv(e)'
    BY <1>1, <1>4, OfOne DEF ReturnInv
  <2> QED BY <2>1, <2>2, <2>3
<1>6. CASE /\ launch[e] \in {"registered", "waiting"}
           /\ signal' = [signal EXCEPT ![e] = "resume"] /\ SetPause(e, n, "over")
  <2>1. /\ pause' = [pause EXCEPT ![e] = pause'[e]] /\ pause'[e] \in [PauseIds -> PauseStates]
        /\ pause'[e][n] = "over" /\ \A m \in PauseIds \ {n} : pause'[e][m] = pause[e][m]
        /\ \A m \in PauseIds : pause'[e][m] # "none" =>
             \A k \in 1..(m - 1) : pause'[e][k] \in {"over", "repausing"}
    BY <1>1, <1>6, PauseMoves DEF PauseStates
  <2>2. signal'[e] = "resume" /\ signal' = [signal EXCEPT ![e] = signal'[e]]
    BY <1>6, OfOne
  <2>3. \A m \in PauseIds : pause'[e][m] \in {"none", "over"}
    BY <1>3, <1>6, <2>1, OfOne DEF PauseInv
  <2>4. PauseInv(e)'
    BY <2>1, <2>3 DEF PauseInv, InFlight
  <2>5. WaitingInv(e)'
    BY <1>1, <1>3, <2>1, <2>2, <2>3 DEF WaitingInv
  <2> QED BY <1>1, <1>2, <1>5, <2>1, <2>2, <2>4, <2>5, OfOne, OneExecution, NoBusier DEF Coherent
<1>7. CASE /\ launch[e] \notin {"registered", "waiting"}
           /\ SetPause(e, n, "driving") /\ UNCHANGED signal
  <2>1. /\ pause' = [pause EXCEPT ![e] = pause'[e]] /\ pause'[e] \in [PauseIds -> PauseStates]
        /\ pause'[e][n] = "driving" /\ \A m \in PauseIds \ {n} : pause'[e][m] = pause[e][m]
        /\ \A m \in PauseIds : pause'[e][m] # "none" =>
             \A k \in 1..(m - 1) : pause'[e][k] \in {"over", "repausing"}
    BY <1>1, <1>7, PauseMoves DEF PauseStates, InFlight
  <2>2. PauseInv(e)'
    <3>1. phase = "open"
      BY <1>1, OfOne DEF PauseInv, InFlight
    <3> QED BY <1>1, <1>3, <1>4, <1>7, <2>1, <3>1, OfOne DEF PauseInv
  <2>3. WaitingInv(e)'
    BY <1>1, <1>7 DEF WaitingInv
  <2> QED BY <1>1, <1>2, <1>5, <1>7, <2>1, <2>2, <2>3, OfOne, OneExecution, NoBusier DEF Coherent
<1> QED BY <1>6, <1>7 DEF ShowResumed

LEMMA PauseAgainKeeps ==
  ASSUME ViewerInv, NEW e \in Executions, NEW n \in PauseIds, PauseAgain(e, n)
  PROVE  ViewerInv'
<1> DEFINE next == NewPause(e)
<1>1. /\ pause[e][n] = "driving"
      /\ next \in PauseIds /\ pause[e][next] = "none" /\ \A m \in 1..(next - 1) : pause[e][m] # "none"
  BY NewPauseIsNext DEF PauseAgain
<1>2. /\ launch[e] \in {"returning", "over"} /\ ended[e] = Nil /\ phase = "open"
      /\ \A m \in PauseIds \ {n} : pause[e][m] \in {"none", "over", "repausing"}
      /\ \A m \in PauseIds : m < n => pause[e][m] # "none"
  BY <1>1, HandledPause, OfOne DEF PauseInv, InFlight
<1>3. /\ pause' = [pause EXCEPT ![e][n] = "repausing", ![e][next] = "open"]
      /\ UNCHANGED <<view, clock, phase, launch, returned, signal, ended>>
  BY DEF PauseAgain
<1> HIDE DEF next
<1>4. /\ next # n /\ n < next
  BY <1>1, <1>2, BoundsAssumption DEF PauseIds
<1>5. /\ pause'[e] = [pause[e] EXCEPT ![n] = "repausing", ![next] = "open"]
      /\ pause' = [pause EXCEPT ![e] = pause'[e]]
  BY <1>3, OfOne
<1>6. /\ pause'[e] \in [PauseIds -> PauseStates]
      /\ pause'[e][n] = "repausing" /\ pause'[e][next] = "open"
      /\ \A m \in PauseIds \ {n, next} : pause'[e][m] = pause[e][m]
  <2>1. "repausing" \in PauseStates /\ "open" \in PauseStates
    BY DEF PauseStates, InFlight
  <2> QED BY <1>1, <1>4, <1>5, <2>1, OfOne
<1>7. OthersKept(e) /\ (e \in Active' <=> e \in Active)
  BY <1>3, UnchangedView
<1>8. Coherent(e)'
  <2>1. RecordInv(e)' /\ RunningInv(e)' /\ ReturnInv(e)' /\ WaitingInv(e)'
    BY <1>2, <1>3, <1>7, OfOne DEF RecordInv, RunningInv, ReturnInv, WaitingInv, Finished, Retained
  <2>2. ASSUME NEW m \in PauseIds, pause'[e][m] # "none", NEW k \in 1..(m - 1)
        PROVE  pause'[e][k] \in {"over", "repausing"}
    <3>1. k \in PauseIds /\ k < m
      BY BoundsAssumption DEF PauseIds
    <3>2. CASE m = next
      <4>1. k # next /\ pause[e][k] # "none"
        BY <1>1, <3>1, <3>2, BoundsAssumption DEF PauseIds
      <4> QED BY <1>2, <1>6, <3>1, <4>1
    <3>3. CASE m # next
      <4>1. pause[e][m] # "none"
        BY <1>1, <1>6, <2>2, <3>3
      <4>2. pause[e][k] \in {"over", "repausing"}
        BY <4>1, OfOne DEF PauseInv
      <4> QED BY <1>1, <1>6, <3>1, <4>2
    <3> QED BY <3>2, <3>3
  <2>3. n < MaxPauses
    BY <1>1, <1>4, BoundsAssumption DEF PauseIds
  <2>4. \A m \in PauseIds \ {n, next} : pause'[e][m] \in {"none", "over", "repausing"}
                                       /\ (pause'[e][m] = "repausing" => m < MaxPauses)
    BY <1>2, <1>6, OfOne DEF PauseInv
  <2>5. PauseInv(e)'
    BY <1>2, <1>3, <1>6, <2>2, <2>3, <2>4 DEF PauseInv
  <2> QED BY <2>1, <2>5 DEF Coherent
<1>9. Cardinality(Busy') <= MaxActive
  BY <1>3, OfOne, NoBusier
<1>10. /\ launch' = [launch EXCEPT ![e] = launch'[e]] /\ returned' = [returned EXCEPT ![e] = returned'[e]]
       /\ signal' = [signal EXCEPT ![e] = signal'[e]] /\ ended' = [ended EXCEPT ![e] = ended'[e]]
       /\ launch'[e] \in Stages /\ returned'[e] \in {Nil} \cup Results
       /\ signal'[e] \in {"none", "resume", "cancel"} /\ ended'[e] \in {Nil} \cup Terminal
  BY <1>3, OfOne
<1> QED BY <1>3, <1>5, <1>6, <1>7, <1>8, <1>9, <1>10, OneExecution

LEMMA PublishAgainKeeps ==
  ASSUME ViewerInv, NEW e \in Executions, NEW n \in PauseIds, PublishAgain(e, n)
  PROVE  ViewerInv'
<1>1. /\ pause[e][n] = "repausing" /\ FinishView(e, Paused(n + 1)) /\ SetPause(e, n, "over")
      /\ UNCHANGED <<clock, phase, launch, returned, signal, ended>>
  BY DEF PublishAgain, RunResult
<1>2. /\ pause' = [pause EXCEPT ![e] = pause'[e]] /\ pause'[e] \in [PauseIds -> PauseStates]
      /\ pause'[e][n] = "over" /\ \A m \in PauseIds \ {n} : pause'[e][m] = pause[e][m]
      /\ \A m \in PauseIds : pause'[e][m] # "none" =>
           \A k \in 1..(m - 1) : pause'[e][k] \in {"over", "repausing"}
  BY <1>1, PauseMoves DEF PauseStates
<1>3. launch[e] \in {"returning", "over"} /\ n < MaxPauses
  BY <1>1, OfOne DEF PauseInv
<1>4. /\ Paused(n + 1) \in Results /\ Paused(n + 1).status = "paused" /\ "paused" \notin Terminal
  BY <1>3, BoundsAssumption DEF Paused, Results, PauseIds, Terminal, Ends
<1>5. /\ OthersKept(e) /\ (e \in Active' <=> e \in Active)
      /\ e \notin Active => (e \in Retained => view'[e] = view[e])
      /\ e \in Active => view'[e].state = "paused"
  BY <1>1, <1>4, FinishedView DEF Active, OthersKept
<1>6. Coherent(e)'
  <2>1. RecordInv(e)'
    BY <1>1, <1>3, <1>4, <1>5, OfOne DEF RecordInv, Finished, Active, OthersKept
  <2>2. RunningInv(e)' /\ WaitingInv(e)' /\ ReturnInv(e)'
    BY <1>1, <1>3, <1>5, OfOne DEF RunningInv, WaitingInv, ReturnInv
  <2>3. PauseInv(e)'
    BY <1>1, <1>2, <1>3, <1>5, OfOne DEF PauseInv, InFlight
  <2> QED BY <2>1, <2>2, <2>3 DEF Coherent
<1> QED BY <1>1, <1>2, <1>3, <1>5, <1>6, OfOne, OneExecution, NoBusier

LEMMA DriveEndsKeeps ==
  ASSUME ViewerInv, NEW e \in Executions, NEW n \in PauseIds, DriveEnds(e, n)
  PROVE  ViewerInv'
<1>1. PICK status \in Ends :
        /\ pause[e][n] = "driving" /\ SetPause(e, n, "over")
        /\ FinishView(e, Ended(status)) \/ UNCHANGED view
        /\ ended' = [ended EXCEPT ![e] = status]
        /\ UNCHANGED <<clock, phase, launch, returned, signal>>
  BY DEF DriveEnds, RunResult, Ends
<1>2. /\ pause' = [pause EXCEPT ![e] = pause'[e]] /\ pause'[e] \in [PauseIds -> PauseStates]
      /\ pause'[e][n] = "over" /\ \A m \in PauseIds \ {n} : pause'[e][m] = pause[e][m]
      /\ \A m \in PauseIds : pause'[e][m] # "none" =>
           \A k \in 1..(m - 1) : pause'[e][k] \in {"over", "repausing"}
  BY <1>1, PauseMoves DEF PauseStates
<1>3. /\ Ended(status) \in Results /\ Ended(status).status = status
      /\ status \in Terminal /\ status # Nil
  BY <1>1, BoundsAssumption, NilAssumption DEF Ended, Results, Terminal, NoPause
<1>4. /\ launch[e] \in {"returning", "over"} /\ ended[e] = Nil /\ phase = "open"
      /\ \A m \in PauseIds \ {n} : pause[e][m] \in {"none", "over", "repausing"}
      /\ e \in Retained => e \in Active
  <2>1. /\ launch[e] \in {"returning", "over"} /\ ended[e] = Nil /\ phase = "open"
        /\ \A m \in PauseIds \ {n} : pause[e][m] \in {"none", "over", "repausing"}
    BY <1>1, HandledPause, OfOne DEF PauseInv, InFlight
  <2>2. e \in Retained => e \in Active
    BY <2>1, OfOne, NilAssumption DEF RecordInv, Active
  <2> QED BY <2>1, <2>2
<1>5. ended'[e] = status /\ ended' = [ended EXCEPT ![e] = ended'[e]]
  BY <1>1, OfOne
<1>6. /\ OthersKept(e)
      /\ e \notin Active => e \notin Active'
      /\ e \in Active' => view'[e] = view[e]
      /\ e \in Active /\ e \notin Active' => view'[e].state = status /\ Finished(e)'
  <2>1. CASE UNCHANGED view
    BY <1>1, <2>1, UnchangedView
  <2>2. CASE FinishView(e, Ended(status))
    BY <1>1, <1>3, <2>2, FinishedView DEF OthersKept, Active
  <2> QED BY <1>1, <2>1, <2>2
<1>7. Coherent(e)'
  <2>1. RecordInv(e)'
    <3>1. CASE e \in Active'
      BY <1>1, <1>4, <1>6, <3>1, OfOne DEF RecordInv, Finished, Active, OthersKept
    <3>2. CASE e \notin Active'
      BY <1>1, <1>3, <1>4, <1>5, <1>6, <3>2 DEF RecordInv, OthersKept
    <3> QED BY <3>1, <3>2
  <2>2. RunningInv(e)' /\ WaitingInv(e)'
    BY <1>1, <1>4 DEF RunningInv, WaitingInv
  <2>3. ReturnInv(e)'
    BY <1>1, <1>4, OfOne DEF ReturnInv
  <2>4. \A m \in PauseIds : pause'[e][m] \in {"none", "over", "repausing"}
                           /\ (pause'[e][m] = "repausing" => m < MaxPauses)
    BY <1>2, <1>4, OfOne DEF PauseInv
  <2>5. PauseInv(e)'
    BY <1>1, <1>2, <1>4, <2>4 DEF PauseInv, InFlight
  <2> QED BY <2>1, <2>2, <2>3, <2>5 DEF Coherent
<1>8. Cardinality(Busy') <= MaxActive /\ ended'[e] \in {Nil} \cup Terminal
  BY <1>1, <1>3, <1>5, OfOne, NoBusier
<1> QED BY <1>1, <1>2, <1>5, <1>6, <1>7, <1>8, OfOne, OneExecution

LEMMA TerminateKeeps ==
  ASSUME ViewerInv, NEW e \in Executions, NEW n \in PauseIds, Terminate(e, n)
  PROVE  ViewerInv'
<1>1. /\ phase = "open" /\ pause[e][n] = "open" /\ SetPause(e, n, "terminated")
      /\ ended' = [ended EXCEPT ![e] = "terminated"]
      /\ UNCHANGED <<view, clock, phase, launch, returned, signal>>
  BY DEF Terminate
<1>2. /\ pause' = [pause EXCEPT ![e] = pause'[e]] /\ pause'[e] \in [PauseIds -> PauseStates]
      /\ pause'[e][n] = "terminated" /\ \A m \in PauseIds \ {n} : pause'[e][m] = pause[e][m]
      /\ \A m \in PauseIds : pause'[e][m] # "none" =>
           \A k \in 1..(m - 1) : pause'[e][k] \in {"over", "repausing"}
  BY <1>1, PauseMoves DEF PauseStates, InFlight
<1>3. OthersKept(e) /\ (e \in Active' <=> e \in Active)
  BY <1>1, UnchangedView
<1>4. /\ launch[e] \in {"registered", "waiting", "returning", "over"} /\ ended[e] = Nil
      /\ \A m \in PauseIds \ {n} : pause[e][m] \in {"none", "over", "repausing"}
  BY <1>1, HandledPause, OfOne DEF PauseInv
<1>5. e \in Retained => e \in Active
  BY <1>4, OfOne, NilAssumption DEF RecordInv, Active
<1>6. ended'[e] = "terminated" /\ ended' = [ended EXCEPT ![e] = ended'[e]] /\ "terminated" \in Terminal
      /\ "terminated" # Nil
  BY <1>1, OfOne, NilAssumption DEF Terminal
<1>7. Coherent(e)'
  <2>1. RecordInv(e)'
    BY <1>1, <1>3, <1>4, <1>5, <1>6, OfOne DEF RecordInv, Finished, Active, Retained
  <2>2. RunningInv(e)'
    BY <1>1, <1>4 DEF RunningInv
  <2>3. ReturnInv(e)'
    BY <1>1, <1>4, OfOne DEF ReturnInv
  <2>4. WaitingInv(e)'
    <3>1. launch[e] \in {"registered", "waiting"} => signal[e] # "resume"
      BY <1>1, OfOne DEF WaitingInv
    <3>2. launch[e] \in {"registered", "waiting"} /\ signal[e] = "cancel" => e \notin Active
      BY <1>1, OfOne DEF WaitingInv
    <3> QED BY <1>1, <1>2, <1>3, <3>1, <3>2 DEF WaitingInv
  <2>5. PauseInv(e)'
    BY <1>1, <1>2, <1>4, <1>6, OfOne DEF PauseInv
  <2> QED BY <2>1, <2>2, <2>3, <2>4, <2>5 DEF Coherent
<1>8. Cardinality(Busy') <= MaxActive
  BY <1>1, OfOne, NoBusier
<1> QED BY <1>1, <1>2, <1>3, <1>6, <1>7, <1>8, OfOne, OneExecution

LEMMA PublishTerminationKeeps ==
  ASSUME ViewerInv, NEW e \in Executions, NEW n \in PauseIds, PublishTermination(e, n)
  PROVE  ViewerInv'
<1>1. /\ pause[e][n] = "terminated" /\ SetPause(e, n, "published")
      /\ FinishView(e, Ended("terminated"))
      /\ UNCHANGED <<clock, phase, launch, returned, signal, ended>>
  BY DEF PublishTermination, RunResult, Ended
<1>2. /\ pause' = [pause EXCEPT ![e] = pause'[e]] /\ pause'[e] \in [PauseIds -> PauseStates]
      /\ pause'[e][n] = "published" /\ \A m \in PauseIds \ {n} : pause'[e][m] = pause[e][m]
      /\ \A m \in PauseIds : pause'[e][m] # "none" =>
           \A k \in 1..(m - 1) : pause'[e][k] \in {"over", "repausing"}
  BY <1>1, PauseMoves DEF PauseStates, InFlight
<1>3. /\ Ended("terminated") \in Results /\ Ended("terminated").status = "terminated"
      /\ "terminated" \in Terminal /\ "terminated" # Nil
  BY BoundsAssumption, NilAssumption DEF Ended, Results, Terminal, NoPause
<1>4. /\ OthersKept(e) /\ e \notin Active'
      /\ e \notin Active => (e \in Retained => view'[e] = view[e])
      /\ e \in Active => view'[e].state = "terminated" /\ Finished(e)'
  BY <1>1, <1>3, FinishedView DEF Active
<1>5. /\ launch[e] \in {"registered", "waiting", "returning", "over"} /\ ended[e] = "terminated"
      /\ \A m \in PauseIds \ {n} : pause[e][m] \in {"none", "over", "repausing"} /\ phase = "open"
  BY <1>1, HandledPause, OfOne DEF PauseInv, InFlight
<1>6. Coherent(e)'
  <2>1. RecordInv(e)'
    <3>1. CASE e \in Active
      BY <1>1, <1>3, <1>4, <1>5, <3>1 DEF RecordInv
    <3>2. CASE e \notin Active
      BY <1>1, <1>3, <1>4, <1>5, <3>2, OfOne DEF RecordInv, Finished, OthersKept
    <3> QED BY <3>1, <3>2
  <2>2. RunningInv(e)'
    BY <1>1, <1>5 DEF RunningInv
  <2>3. ReturnInv(e)'
    BY <1>1, <1>4, OfOne DEF ReturnInv
  <2>4. WaitingInv(e)'
    BY <1>1, <1>2, <1>3, <1>4, <1>5, OfOne DEF WaitingInv
  <2>5. PauseInv(e)'
    <3>1. phase = "open"
      BY <1>1, OfOne DEF PauseInv, InFlight
    <3> QED BY <1>1, <1>2, <1>4, <1>5, <3>1, OfOne DEF PauseInv
  <2> QED BY <2>1, <2>2, <2>3, <2>4, <2>5 DEF Coherent
<1>7. Cardinality(Busy') <= MaxActive
  BY <1>1, OfOne, NoBusier
<1> QED BY <1>1, <1>2, <1>4, <1>6, <1>7, OfOne, OneExecution

LEMMA CancelWaitKeeps ==
  ASSUME ViewerInv, NEW e \in Executions, NEW n \in PauseIds, CancelWait(e, n)
  PROVE  ViewerInv'
<1>1. /\ pause[e][n] = "published" /\ SetPause(e, n, "over") /\ signal' = Cancelled(e)
      /\ UNCHANGED <<view, clock, phase, launch, returned, ended>>
  BY DEF CancelWait
<1>2. /\ pause' = [pause EXCEPT ![e] = pause'[e]] /\ pause'[e] \in [PauseIds -> PauseStates]
      /\ pause'[e][n] = "over" /\ \A m \in PauseIds \ {n} : pause'[e][m] = pause[e][m]
      /\ \A m \in PauseIds : pause'[e][m] # "none" =>
           \A k \in 1..(m - 1) : pause'[e][k] \in {"over", "repausing"}
  BY <1>1, PauseMoves DEF PauseStates
<1>3. /\ signal'[e] = (IF launch[e] \in {"registered", "waiting"} THEN "cancel" ELSE signal[e])
      /\ signal' = [signal EXCEPT ![e] = signal'[e]]
  BY <1>1, OfOne DEF Cancelled
<1>4. OthersKept(e) /\ (e \in Active' <=> e \in Active)
  BY <1>1, UnchangedView
<1>5. /\ launch[e] \in {"registered", "waiting", "returning", "over"} /\ e \notin Active
      /\ ended[e] = "terminated"
      /\ \A m \in PauseIds \ {n} : pause[e][m] \in {"none", "over", "repausing"}
  BY <1>1, HandledPause, OfOne DEF PauseInv
<1>6. signal'[e] \in {"none", "resume", "cancel"}
  BY <1>3, OfOne
<1>7. Coherent(e)'
  <2>1. RecordInv(e)' /\ RunningInv(e)' /\ ReturnInv(e)'
    BY <1>1, <1>4, <1>5, OfOne DEF RecordInv, RunningInv, ReturnInv, Finished, Retained
  <2>2. WaitingInv(e)'
    BY <1>1, <1>2, <1>3, <1>4, <1>5 DEF WaitingInv
  <2>3. PauseInv(e)'
    BY <1>1, <1>2, <1>4, <1>5, OfOne DEF PauseInv, InFlight
  <2> QED BY <2>1, <2>2, <2>3 DEF Coherent
<1>8. Cardinality(Busy') <= MaxActive
  BY <1>1, OfOne, NoBusier
<1> QED BY <1>1, <1>2, <1>3, <1>4, <1>6, <1>7, <1>8, OfOne, OneExecution

------------------------------------------------------------------------------
(* Steps of the viewer as a whole *)

\* The pool, the requests and the clock go on when records are dropped that are
\* finished, or when all is over.
LEMMA RecordsDropped ==
  ASSUME ViewerInv, NEW kept, kept \subseteq Retained, Keep(kept),
         phase' \in {"open", "closing", "closed"},
         phase' # "open" <=> phase # "open",
         UNCHANGED <<clock, threads>>,
         \A x \in Executions : launch[x] \in {"queued", "running", "registered", "waiting"} =>
                                 (x \in Active => x \in kept)
  PROVE  ViewerInv'
<1>1. TypesInv
  BY DEF ViewerInv
<1>2. UNCHANGED <<clock, launch, returned, signal, pause, ended>>
  BY DEF threads
<1>3. /\ Retained' = kept /\ \A x \in kept : view'[x] = view[x]
      /\ \A x \in kept : Finished(x)' <=> Finished(x)
  BY DEF Keep, Retained, Finished
<1>4. view' \in [kept -> Records]
  BY <1>1 DEF TypesInv, Keep
<1>5. TypesInv'
  BY <1>1, <1>2, <1>3, <1>4 DEF TypesInv
<1>6. /\ Retained' \subseteq Retained /\ Retained \subseteq Executions
      /\ Active' \subseteq Active /\ Active \subseteq Executions /\ Busy' = Busy
  BY <1>1, <1>2, <1>3 DEF TypesInv, Active, Busy
<1>7. WithinLimits'
  <2>1. /\ Cardinality(Retained') <= Cardinality(Retained) /\ Cardinality(Active') <= Cardinality(Active)
        /\ Cardinality(Retained') \in Nat /\ Cardinality(Retained) \in Nat
        /\ Cardinality(Active') \in Nat /\ Cardinality(Active) \in Nat
    BY <1>6, SmallerSet
  <2>2. /\ Cardinality(Retained) <= MaxExecutions /\ Cardinality(Active) <= MaxActive
        /\ Cardinality(Busy) <= MaxActive
    BY DEF ViewerInv, WithinLimits, Active
  <2> QED BY <1>6, <2>1, <2>2, ViewingAssumption DEF WithinLimits, Active
<1>8. ASSUME NEW x \in Executions PROVE Coherent(x)'
  <2>1. x \in Active' <=> x \in kept /\ x \in Active
    BY <1>3 DEF Active
  <2>2. RecordInv(x)'
    BY <1>2, <1>3, <2>1, OfOne DEF RecordInv
  <2>3. RunningInv(x)' /\ ReturnInv(x)'
    BY <1>2, <2>1, OfOne DEF RunningInv, ReturnInv
  <2>4. PauseInv(x)'
    BY <1>2, <2>1, OfOne DEF PauseInv
  <2>5. WaitingInv(x)'
    BY <1>2, <2>1, OfOne DEF WaitingInv
  <2> QED BY <2>2, <2>3, <2>4, <2>5 DEF Coherent
<1> QED BY <1>5, <1>7, <1>8 DEF ViewerInv

LEMMA ExpireKeeps ==
  ASSUME ViewerInv, Expire
  PROVE  ViewerInv'
<1>1. Unexpired \subseteq Retained /\ \A x \in Active : x \in Unexpired
  BY DEF Unexpired, Expired, Active
<1>2. phase \in {"open", "closing", "closed"}
  BY DEF ViewerInv, TypesInv
<1> QED BY <1>1, <1>2, RecordsDropped DEF Expire

LEMMA ClearKeeps ==
  ASSUME ViewerInv, Clear
  PROVE  ViewerInv'
<1>1. \A x \in Executions : launch[x] \notin {"queued", "running", "registered", "waiting"}
  BY DEF Clear, Busy, Queued, OnThread
<1> QED BY <1>1, RecordsDropped DEF Clear

\* There is room for the record of a new execution: when the limit is reached some
\* record is finished, for fewer than the limit are not.
LEMMA RoomIsMade ==
  ASSUME ViewerInv, NEW kept, kept \subseteq Retained, Active \subseteq kept,
         Cardinality(Active) < MaxActive
  PROVE  /\ RoomFor(kept) \subseteq kept /\ Active \subseteq RoomFor(kept)
         /\ Cardinality(RoomFor(kept)) < MaxExecutions
<1> DEFINE done == {e \in kept : Finished(e)}
           oldest == CHOOSE e \in done : \A d \in done : e <= d
<1>1. Retained \subseteq Executions /\ Cardinality(Retained) <= MaxExecutions
  BY DEF ViewerInv, TypesInv, WithinLimits
<1>2. /\ IsFiniteSet(kept) /\ Cardinality(kept) \in Nat /\ Cardinality(Active) \in Nat
      /\ Cardinality(Retained) \in Nat /\ Cardinality(kept) <= Cardinality(Retained)
  BY <1>1, SmallerSet DEF Active
<1>3. CASE Cardinality(kept) < MaxExecutions
  BY <1>3 DEF RoomFor
<1>4. CASE ~(Cardinality(kept) < MaxExecutions)
  <2>1. kept # Active
    BY <1>2, <1>4, ViewingAssumption
  <2>2. done # {} /\ done \subseteq Nat
    <3>1. PICK x \in kept : x \notin Active
      BY <2>1
    <3>2. x \in done
      BY <3>1 DEF Active
    <3>3. Executions \subseteq Nat
      BY BoundsAssumption DEF Executions
    <3> QED BY <1>1, <3>2, <3>3
  <2>3. PICK e \in done : \A d \in done : e <= d
    <3> HIDE DEF done
    <3> QED BY <2>2, LeastNumber
  <2>4. oldest \in done
    <3> HIDE DEF done
    <3> QED BY <2>3
  <2>5. RoomFor(kept) = kept \ {oldest}
    BY <1>4 DEF RoomFor
  <2>6. oldest \in kept /\ oldest \notin Active
    <3> HIDE DEF oldest
    <3> QED BY <2>4 DEF Active
  <2> HIDE DEF oldest, done
  <2>7. Cardinality(kept \ {oldest}) = Cardinality(kept) - 1
    BY <1>2, <2>6, FS_RemoveElement
  <2> QED BY <1>1, <1>2, <2>5, <2>6, <2>7, ViewingAssumption
<1> QED BY <1>3, <1>4

LEMMA StartKeeps ==
  ASSUME ViewerInv, NEW e \in Executions, NEW mode \in {"replay", "discovery"}, Start(e, mode)
  PROVE  ViewerInv'
<1> DEFINE kept == RoomFor(Unexpired)
<1>1. TypesInv
  BY DEF ViewerInv
<1>2. /\ launch[e] = "none" /\ launch' = [launch EXCEPT ![e] = "queued"]
      /\ Cardinality(Active) < MaxActive
      /\ view' = [x \in kept \cup {e} |-> IF x = e THEN NewView(mode) ELSE view[x]]
      /\ UNCHANGED <<clock, phase, returned, signal, pause, ended>>
  BY DEF Start
<1>3. kept \subseteq Retained /\ Active \subseteq kept /\ Cardinality(kept) < MaxExecutions
  <2>1. Unexpired \subseteq Retained /\ Active \subseteq Unexpired
    BY DEF Unexpired, Expired, Active
  <2> QED BY <1>2, <2>1, RoomIsMade
<1> HIDE DEF kept
<1>4. e \notin Retained /\ e \notin kept /\ ended[e] = Nil
      /\ \A n \in PauseIds : pause[e][n] = "none"
  BY <1>2, <1>3, OfOne DEF RecordInv, RunningInv
<1>5. /\ NewView(mode) \in Records /\ NewView(mode).finishedAt = Nil
      /\ NewView(mode).state = "running"
  <2>1. "running" \in Shown /\ NoPause \in 0..MaxPauses
    BY BoundsAssumption DEF Shown, NoPause
  <2> HIDE DEF NoPause
  <2> QED BY <2>1 DEF NewView, Records
<1>6. /\ Retained' = kept \cup {e} /\ view'[e] = NewView(mode)
      /\ \A x \in kept : view'[x] = view[x]
  BY <1>2, <1>4 DEF Retained
<1>7. ~Finished(e)' /\ \A x \in kept : Finished(x)' <=> Finished(x)
  BY <1>5, <1>6 DEF Finished
<1>8. Active' = Active \cup {e}
  BY <1>3, <1>6, <1>7 DEF Active
<1>9. Busy' = Busy /\ launch'[e] = "queued" /\ \A x \in Executions \ {e} : launch'[x] = launch[x]
  BY <1>1, <1>2 DEF Busy, OnThread, TypesInv
<1>10. TypesInv'
  <2>1. view' \in [Retained' -> Records]
    BY <1>1, <1>2, <1>3, <1>5, <1>6 DEF TypesInv
  <2>2. \A x \in Retained' : view'[x].finishedAt \in {Nil} \cup 0..clock'
    BY <1>1, <1>2, <1>3, <1>5, <1>6 DEF TypesInv
  <2>3. launch' \in [Executions -> Stages]
    BY <1>1, <1>2 DEF TypesInv, Stages
  <2> QED BY <1>1, <1>2, <1>3, <1>6, <2>1, <2>2, <2>3 DEF TypesInv
<1>11. WithinLimits'
  <2>1. IsFiniteSet(kept) /\ IsFiniteSet(Active) /\ Cardinality(kept) \in Nat /\ Cardinality(Active) \in Nat
    BY <1>1, <1>3, SmallerSet DEF TypesInv
  <2>2. Cardinality(kept \cup {e}) = Cardinality(kept) + 1
    BY <1>4, <2>1, FS_AddElement
  <2>3. Cardinality(Active \cup {e}) = Cardinality(Active) + 1
    BY <1>3, <1>4, <2>1, FS_AddElement
  <2>4. Cardinality(Retained') <= MaxExecutions /\ Cardinality(Active') <= MaxActive
    BY <1>2, <1>3, <1>6, <1>8, <2>1, <2>2, <2>3, ViewingAssumption
  <2>5. Cardinality(Busy') <= MaxActive
    BY <1>9 DEF ViewerInv, WithinLimits
  <2> QED BY <2>4, <2>5 DEF WithinLimits, Active
<1>12. Coherent(e)'
  <2>1. RecordInv(e)'
    BY <1>2, <1>5, <1>6, <1>7, <1>8, <1>9 DEF RecordInv, Terminal, Ends
  <2>2. RunningInv(e)' /\ PauseInv(e)' /\ WaitingInv(e)' /\ ReturnInv(e)'
    BY <1>2, <1>4, <1>9 DEF RunningInv, PauseInv, WaitingInv, ReturnInv, InFlight
  <2> QED BY <2>1, <2>2 DEF Coherent
<1>13. ASSUME NEW x \in Executions, x # e PROVE Coherent(x)'
  <2>1. /\ launch'[x] = launch[x]
        /\ x \in Active' <=> x \in Active
        /\ x \in Retained' <=> x \in kept
    BY <1>6, <1>8, <1>9, <1>13
  <2>2. RecordInv(x)'
    BY <1>2, <1>3, <1>6, <1>7, <1>13, <2>1, OfOne DEF RecordInv
  <2>3. RunningInv(x)' /\ ReturnInv(x)'
    BY <1>2, <2>1, OfOne DEF RunningInv, ReturnInv
  <2>4. PauseInv(x)'
    BY <1>2, <2>1, OfOne DEF PauseInv
  <2>5. WaitingInv(x)'
    BY <1>2, <2>1, OfOne DEF WaitingInv
  <2> QED BY <2>2, <2>3, <2>4, <2>5 DEF Coherent
<1> QED BY <1>10, <1>11, <1>12, <1>13 DEF ViewerInv

\* The clock, and shutdown: no request is in flight, so a wait that it cancels is
\* one whose run nothing has ended.
LEMMA TickAndCloseKeep ==
  ASSUME ViewerInv, Tick \/ Close
  PROVE  ViewerInv'
<1>1. TypesInv
  BY DEF ViewerInv
<1>2. UNCHANGED <<view, launch, returned, pause, ended>>
  BY DEF Tick, Close, threads
<1>3. Retained' = Retained /\ Busy' = Busy /\ (\A x : Finished(x)' <=> Finished(x)) /\ Active' = Active
  BY <1>2 DEF Retained, Busy, Finished, Active
<1>4. WithinLimits'
  BY <1>3 DEF ViewerInv, WithinLimits, Active
<1>5. CASE Tick
  <2>1. clock' \in 0..MaxTime /\ clock \in 0..clock' /\ UNCHANGED <<phase, signal>> /\ 0..clock \subseteq 0..clock'
    BY <1>1, <1>5, BoundsAssumption DEF Tick, threads, TypesInv
  <2>2. TypesInv'
    BY <1>1, <1>2, <1>3, <2>1 DEF TypesInv
  <2>3. ASSUME NEW x \in Executions PROVE Coherent(x)'
    BY <1>2, <1>3, <2>1, OfOne DEF Coherent, RecordInv, RunningInv, PauseInv, WaitingInv, ReturnInv
  <2> QED BY <1>4, <2>2, <2>3 DEF ViewerInv
<1>6. CASE Close
  <2>1. /\ phase = "open" /\ phase' = "closing" /\ clock' = clock
        /\ \A x \in Executions, n \in PauseIds : pause[x][n] \notin InFlight
        /\ signal' = [x \in Executions |->
                        IF launch[x] \in {"registered", "waiting"} THEN "cancel" ELSE signal[x]]
    BY <1>6 DEF Close
  <2>2. TypesInv'
    BY <1>1, <1>2, <1>3, <2>1 DEF TypesInv
  <2>3. ASSUME NEW x \in Executions PROVE Coherent(x)'
    <3>1. RecordInv(x)' /\ RunningInv(x)' /\ ReturnInv(x)'
      BY <1>2, <1>3, <2>1, OfOne DEF RecordInv, RunningInv, ReturnInv
    <3>2. PauseInv(x)'
      BY <1>2, <1>3, <2>1, OfOne DEF PauseInv
    <3>3. launch[x] \in {"registered", "waiting"} /\ x \in Active => ended[x] = Nil
      BY <2>1, OfOne DEF WaitingInv, InFlight
    <3>4. WaitingInv(x)'
      BY <1>2, <1>3, <2>1, <3>3, OfOne DEF WaitingInv
    <3> QED BY <3>1, <3>2, <3>4 DEF Coherent
  <2> QED BY <1>4, <2>2, <2>3 DEF ViewerInv
<1> QED BY <1>5, <1>6

LEMMA ViewerInitially ==
  ASSUME ViewerInit
  PROVE  ViewerInv
<1>1. Retained = {} /\ Active = {} /\ Busy = {}
  BY DEF ViewerInit, Retained, Active, Busy, OnThread
<1>2. TypesInv
  <2>1. view \in [Retained -> Records] /\ 0 \in 0..MaxTime
    BY <1>1, BoundsAssumption DEF ViewerInit
  <2>2. /\ launch \in [Executions -> Stages] /\ pause \in [Executions -> [PauseIds -> PauseStates]]
        /\ returned \in [Executions -> {Nil} \cup Results] /\ ended \in [Executions -> {Nil} \cup Terminal]
        /\ signal \in [Executions -> {"none", "resume", "cancel"}]
    BY DEF ViewerInit, Stages, PauseStates
  <2> QED BY <1>1, <2>1, <2>2 DEF ViewerInit, TypesInv
<1>3. WithinLimits
  BY <1>1, FS_EmptySet, ViewingAssumption DEF WithinLimits, Active
<1>4. ASSUME NEW e \in Executions PROVE Coherent(e)
  BY <1>1 DEF ViewerInit, Coherent, RecordInv, RunningInv, PauseInv, WaitingInv, ReturnInv, InFlight
<1> QED BY <1>2, <1>3, <1>4 DEF ViewerInv

LEMMA ViewerStutters ==
  ASSUME ViewerInv, UNCHANGED viewerVars
  PROVE  ViewerInv'
<1>1. UNCHANGED <<view, clock, phase, launch, returned, signal, pause, ended>>
  BY DEF viewerVars
<1>2. Retained' = Retained /\ Busy' = Busy /\ (\A x : Finished(x)' <=> Finished(x)) /\ Active' = Active
  BY <1>1 DEF Retained, Busy, Finished, Active
<1>3. TypesInv' /\ WithinLimits'
  BY <1>1, <1>2 DEF ViewerInv, TypesInv, WithinLimits, Active
<1>4. ASSUME NEW x \in Executions PROVE Coherent(x)'
  BY <1>1, <1>2, OfOne DEF Coherent, RecordInv, RunningInv, PauseInv, WaitingInv, ReturnInv
<1> QED BY <1>3, <1>4 DEF ViewerInv

\* The invariant that carries the viewer: a record, the operation behind it and
\* the requests on its pauses agree on whether, and how, the run has ended.
THEOREM ViewerInductive == ViewerSpec => []ViewerInv
<1>1. ViewerInit => ViewerInv
  BY ViewerInitially
<1>2. ViewerInv /\ [ViewerNext]_viewerVars => ViewerInv'
  <2> SUFFICES ASSUME ViewerInv, [ViewerNext]_viewerVars PROVE ViewerInv'
    OBVIOUS
  <2>1. CASE UNCHANGED viewerVars
    BY <2>1, ViewerStutters
  <2>2. CASE Expire
    BY <2>2, ExpireKeeps
  <2>3. CASE Tick \/ Close
    BY <2>3, TickAndCloseKeep
  <2>4. CASE Clear
    BY <2>4, ClearKeeps
  <2>5. ASSUME NEW e \in Executions,
               \/ \E mode \in {"replay", "discovery"} : Start(e, mode)
               \/ Operation(e) \/ ValidationEnds(e)
               \/ \E n \in PauseIds : Resolve(e, n) \/ Terminate(e, n) \/ Request(e, n)
        PROVE  ViewerInv'
    <3>1. CASE \E mode \in {"replay", "discovery"} : Start(e, mode)
      BY <3>1, StartKeeps
    <3>2. CASE Operation(e)
      BY <3>2, RunKeeps, ReplayPausesKeeps, ReplayEndsKeeps, DiscoveryPausesKeeps,
         PublishPauseKeeps, WakeKeeps, DiscoveryEndsKeeps, ReturnKeeps DEF Operation
    <3>3. CASE ValidationEnds(e)
      BY <3>3, ValidationEndsKeeps
    <3>4. CASE \E n \in PauseIds : Resolve(e, n) \/ Terminate(e, n) \/ Request(e, n)
      BY <3>4, ResolveKeeps, TerminateKeeps, ShowResumedKeeps, PauseAgainKeeps, PublishAgainKeeps,
         DriveEndsKeeps, PublishTerminationKeeps, CancelWaitKeeps DEF Request
    <3> QED BY <2>5, <3>1, <3>2, <3>3, <3>4
  <2> QED BY <2>1, <2>2, <2>3, <2>4, <2>5 DEF ViewerNext
<1> QED BY <1>1, <1>2, PTL DEF ViewerSpec

\* The limits hold, what an operation publishes has its record, and a finished
\* record shows how its run ended, whichever thread reported on it first.
THEOREM EndsAreShown == ViewerSpec => []ShowsTheEnd
<1>1. ViewerInv => ShowsTheEnd
  <2> SUFFICES ASSUME ViewerInv PROVE ShowsTheEnd
    OBVIOUS
  <2>1. ViewsOK
    <3>1. ASSUME NEW e \in Retained
          PROVE  /\ view[e] \in [mode : {"replay", "discovery"}, state : Shown,
                                  shown : 0..MaxPauses, finishedAt : {Nil} \cup 0..clock]
                 /\ Finished(e) <=> view[e].state \in Terminal
      <4>1. e \in Executions /\ view[e] \in Records /\ view[e].finishedAt \in {Nil} \cup 0..clock
        BY DEF ViewerInv, TypesInv
      <4>2. Finished(e) <=> view[e].state \in Terminal
        BY <4>1, OfOne DEF RecordInv
      <4> QED BY <4>1, <4>2 DEF Records
    <3>2. ASSUME NEW e \in Executions
          PROVE  /\ launch[e] \in {"none", "queued", "over"} \cup OnThread
                 /\ returned[e] \in {Nil} \cup Results
                 /\ signal[e] \in {"none", "resume", "cancel"}
                 /\ ended[e] \in {Nil} \cup Terminal
                 /\ \A n \in PauseIds : pause[e][n] \in {"none", "open", "over"} \cup InFlight
      BY OfOne DEF Stages, PauseStates
    <3> QED BY <3>1, <3>2 DEF ViewsOK, ViewerInv, TypesInv
  <2>2. WithinLimits
    BY DEF ViewerInv
  <2>3. OperationHasRecord
    BY OfOne DEF OperationHasRecord, RecordInv
  <2>4. \A e \in Retained : Finished(e) => view[e].state = ended[e]
    BY OfOne DEF ViewerInv, TypesInv, RecordInv
  <2> QED BY <2>1, <2>2, <2>3, <2>4 DEF ShowsTheEnd
<1> QED BY <1>1, ViewerInductive, PTL

\* What close leaves behind: no record, and no operation that still holds or awaits
\* a thread of the pool, for nothing is launched after it.
LeftBehind == Retained = {} /\ Busy = {} /\ Queued = {}

THEOREM ClosedLeavesNothing == ViewerSpec => [](phase = "closed" => LeftBehind)
<1>1. ViewerInit => (phase = "closed" => LeftBehind)
  BY DEF ViewerInit
<1>2. /\ ViewerInv /\ (phase = "closed" => LeftBehind)
      /\ [ViewerNext]_viewerVars
      => (phase = "closed" => LeftBehind)'
  <2> SUFFICES ASSUME ViewerInv, phase = "closed" => LeftBehind, [ViewerNext]_viewerVars, phase' = "closed"
               PROVE  LeftBehind'
    OBVIOUS
  <2>1. CASE Clear
    BY <2>1 DEF Clear, Keep, threads, LeftBehind, Retained, Busy, Queued
  <2>2. CASE ~Clear
    <3>1. phase = "closed" /\ Retained = {}
          /\ \A e \in Executions : launch[e] \notin OnThread \cup {"queued"}
      <4>1. phase = "closed"
        BY <2>2 DEF ViewerNext, viewerVars, threads, Expire, Tick, Close, Start, Operation, Run,
           ReplayPauses, ReplayEnds, DiscoveryPauses, PublishPause, Wake, DiscoveryEnds, Return,
           ValidationEnds, Resolve, Terminate, Request, ShowResumed, PauseAgain, PublishAgain,
           DriveEnds, PublishTermination, CancelWait
      <4> QED BY <4>1 DEF LeftBehind, Busy, Queued
    <3>2. /\ ~Expire /\ ~Close
          /\ \A e \in Executions :
               /\ ~Operation(e) /\ ~ValidationEnds(e)
               /\ \A mode \in {"replay", "discovery"} : ~Start(e, mode)
      BY <3>1 DEF Expire, Close, Start, Operation, Run, Queued, ReplayPauses, ReplayEnds,
         DiscoveryPauses, PublishPause, Wake, DiscoveryEnds, Return, ValidationEnds, OnThread
    <3>3. ASSUME NEW e \in Executions, NEW n \in PauseIds,
                 Resolve(e, n) \/ Terminate(e, n) \/ Request(e, n)
          PROVE  FALSE
      <4>1. /\ pause[e][n] \notin InFlight
            /\ Resolve(e, n) \/ Terminate(e, n) => phase = "open"
        BY <3>1, OfOne DEF PauseInv, Resolve, Terminate
      <4> QED BY <3>1, <3>3, <4>1 DEF Request, ShowResumed, PauseAgain, PublishAgain, DriveEnds,
            PublishTermination, CancelWait, InFlight
    <3>4. UNCHANGED <<view, launch>>
      BY <2>2, <3>2, <3>3 DEF ViewerNext, viewerVars, Tick, threads
    <3> QED BY <3>1, <3>4 DEF LeftBehind, Retained, Busy, Queued
  <2> QED BY <2>1, <2>2
<1> QED BY <1>1, <1>2, ViewerInductive, PTL DEF ViewerSpec
==============================================================================
