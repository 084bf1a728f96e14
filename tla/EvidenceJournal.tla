-------------------------- MODULE EvidenceJournal --------------------------
(***************************************************************************)
(* The evidence of one run: the journal that numbers its events            *)
(* (runs/journal.py), the files it writes (evidence/local_store.py), the   *)
(* verification of a manifest (evidence/integrity.py) and the export of a  *)
(* completed run into a bundle (evidence/export.py).                       *)
(*                                                                         *)
(* The journal keeps its lock while it writes, so its operations do not    *)
(* overlap; but each of them is a sequence of writes, each write is a file *)
(* and its metadata, any of them may fail, and the process may stop after  *)
(* any of them.  The files remain.  Event details, redaction and hashes    *)
(* are left out: an object is what a manifest needs of it.                 *)
(***************************************************************************)
EXTENDS Integers, FiniteSets, Sequences, SequencesExt

CONSTANTS
  Threads,         \* threads of the run: its worker, operator requests, its caller
  Exporters,       \* processes that export the finished run
  MaxEvents,       \* the event-count limit of the journal (10 000)
  MaxAttachments,  \* its attachment-count limit (100)
  MaxObjects,      \* bound: files written
  None

ASSUME LimitsAssumption == MaxEvents \in Nat \ {0} /\ MaxAttachments \in Nat
ASSUME NoneAssumption ==
  /\ None \notin Threads \cup Exporters /\ None \notin Nat
  /\ None \notin {"record", "attach", "finalize", "unavailable", "captured"}

VARIABLES
  disk,         \* the objects of the store in the order they were written
  sidecars,     \* the objects whose metadata has been written as well
  up,           \* whether the process that owns the journal is running
  log,          \* _events and _evidence_records: the objects of its events
  attachments,  \* _attachments
  published,    \* _manifest_key: the manifest the journal names
  finalized,    \* _finalized
  holder,       \* the thread that has the journal's lock
  job,          \* what it is writing
  exports,      \* per exporter: how far it has come
  locked,       \* the exporter that locks the destination's directory
  bundle        \* the exported directory

journal == <<up, log, attachments, published, finalized>>
vars == <<disk, sidecars, journal, holder, job, exports, locked, bundle>>

\* A business outcome is retained like a success.
Statuses == {"success", "failure"}
Kind(id) == disk[id].kind
HasDiagnostic == \E id \in Range(log) : disk[id].diagnostic
HasArchive == \E id \in Range(attachments) : Kind(id) = "archive"

Idle == [op |-> None]

Init ==
  /\ disk = <<>> /\ sidecars = {}
  /\ up = TRUE /\ log = <<>> /\ attachments = <<>> /\ published = None /\ finalized = FALSE
  /\ holder = None /\ job = Idle
  /\ exports = [e \in Exporters |-> [stage |-> "idle"]]
  /\ locked = None /\ bundle = None

------------------------------------------------------------------------------
(***************************************************************************)
(* One write of the store: the file, then its metadata, each linked into   *)
(* place after it has been flushed.  It returns only when both are there;  *)
(* a write that fails may leave the file without its metadata.             *)
(***************************************************************************)
NextId == Len(disk) + 1

Stored(object) ==
  /\ NextId <= MaxObjects
  /\ disk' = Append(disk, object)
  /\ sidecars' = sidecars \cup {NextId}

NotStored(object) ==
  \/ UNCHANGED <<disk, sidecars>>
  \/ /\ NextId <= MaxObjects
     /\ disk' = Append(disk, object)
     /\ UNCHANGED sidecars

\* The lock is released by a return and by an exception alike.
Release == holder' = None /\ job' = Idle
Continue(j) == job' = j /\ UNCHANGED holder

\* A manifest names at least one event; without one its construction raises.
Manifest(events, attached, terminal) ==
  [kind |-> "manifest", events |-> events, attachments |-> attached, terminal |-> terminal]

------------------------------------------------------------------------------
(* record and attach: the object, then a manifest that lists it *)

\* Mutant: Events are numbered by a counter that a failed write does not take back.
StartRecordCounted(t) ==
  /\ up /\ holder = None /\ ~finalized /\ Len(log) < MaxEvents
  /\ \E diagnostic \in BOOLEAN :
       job' = [op |-> "record", diagnostic |-> diagnostic, object |-> None,
               sequence |-> Cardinality({i \in 1..Len(disk) : Kind(i) = "event"}) + 1]
  /\ holder' = t
  /\ UNCHANGED <<disk, sidecars, journal, exports, locked, bundle>>

StartRecord(t) ==
  /\ up /\ holder = None
  /\ ~finalized
  /\ Len(log) < MaxEvents
  /\ \E diagnostic \in BOOLEAN :
       job' = [op |-> "record", sequence |-> Len(log) + 1, diagnostic |-> diagnostic,
               object |-> None]
  /\ holder' = t
  /\ UNCHANGED <<disk, sidecars, journal, exports, locked, bundle>>

StartAttach(t) ==
  /\ up /\ holder = None
  /\ ~finalized
  /\ Len(attachments) < MaxAttachments
  /\ job' = [op |-> "attach", object |-> None]
  /\ holder' = t
  /\ UNCHANGED <<disk, sidecars, journal, exports, locked, bundle>>

Object(j) ==
  IF j.op = "record" THEN [kind |-> "event", sequence |-> j.sequence, diagnostic |-> j.diagnostic]
  ELSE [kind |-> "screenshot"]

WriteObject ==
  /\ up /\ job.op \in {"record", "attach"} /\ job.object = None
  /\ \/ Stored(Object(job)) /\ Continue([job EXCEPT !.object = NextId])
     \/ NotStored(Object(job)) /\ Release
  /\ UNCHANGED <<journal, exports, locked, bundle>>

\* Mutant: The event joins the journal although its manifest could not be written.
PublishRecordAnyway ==
  /\ up /\ job.op = "record" /\ job.object # None
  /\ log' = Append(log, job.object)
  /\ \/ Stored(Manifest(log', attachments, None)) /\ published' = NextId
     \/ NotStored(Manifest(log', attachments, None)) /\ UNCHANGED published
  /\ Release
  /\ UNCHANGED <<up, attachments, finalized, exports, locked, bundle>>

\* The journal takes the entry over only when its manifest has been written.
PublishRecord ==
  /\ up /\ job.op = "record" /\ job.object # None
  /\ LET events == Append(log, job.object)
         manifest == Manifest(events, attachments, None)
     IN \/ /\ Stored(manifest)
           /\ log' = events /\ published' = NextId
           /\ UNCHANGED <<up, attachments, finalized>>
        \/ NotStored(manifest) /\ UNCHANGED journal
  /\ Release
  /\ UNCHANGED <<exports, locked, bundle>>

PublishAttachment ==
  /\ up /\ job.op = "attach" /\ job.object # None
  /\ LET attached == Append(attachments, job.object)
         manifest == Manifest(log, attached, None)
     IN \/ /\ log # <<>>
           /\ Stored(manifest)
           /\ attachments' = attached /\ published' = NextId
           /\ UNCHANGED <<up, log, finalized>>
        \/ /\ IF log = <<>> THEN UNCHANGED <<disk, sidecars>> ELSE NotStored(manifest)
           /\ UNCHANGED journal
  /\ Release
  /\ UNCHANGED <<exports, locked, bundle>>

------------------------------------------------------------------------------
(***************************************************************************)
(* finalize, called once by the caller of a run that has a result.  The    *)
(* archive of the last diagnostic is optional: when it cannot be written   *)
(* the result says so and the run ends all the same.                       *)
(***************************************************************************)
StartFinalize(t) ==
  /\ up /\ holder = None
  /\ ~finalized
  /\ \E status \in Statuses :
       job' = [op |-> "finalize", status |-> status, object |-> None,
               stage |-> IF HasDiagnostic THEN "diagnostic" ELSE "result",
               trace |-> IF HasDiagnostic THEN "unavailable" ELSE None]
  /\ holder' = t
  /\ UNCHANGED <<disk, sidecars, journal, exports, locked, bundle>>

WriteDiagnostic ==
  /\ up /\ job.op = "finalize" /\ job.stage = "diagnostic"
  /\ \/ /\ Len(attachments) < MaxAttachments /\ ~HasArchive
        /\ Stored([kind |-> "archive"])
        /\ attachments' = Append(attachments, NextId)
        /\ Continue([job EXCEPT !.stage = "result", !.trace = "captured"])
     \/ /\ IF Len(attachments) < MaxAttachments /\ ~HasArchive
             THEN NotStored([kind |-> "archive"])
             ELSE UNCHANGED <<disk, sidecars>>
        /\ UNCHANGED attachments
        /\ Continue([job EXCEPT !.stage = "result"])
  /\ UNCHANGED <<up, log, published, finalized, exports, locked, bundle>>

Result(j) ==
  [kind |-> "result", status |-> j.status, trace |-> j.trace,
   retention |-> IF j.status = "failure" THEN "failure" ELSE "operational"]

WriteResult ==
  /\ up /\ job.op = "finalize" /\ job.stage = "result"
  /\ \/ /\ Stored(Result(job))
        /\ Continue([job EXCEPT !.stage = "manifest", !.object = NextId])
     \/ NotStored(Result(job)) /\ Release
  /\ UNCHANGED <<journal, exports, locked, bundle>>

PublishResult ==
  /\ up /\ job.op = "finalize" /\ job.stage = "manifest"
  /\ LET manifest == Manifest(log, attachments, job.object)
     IN \/ /\ log # <<>>
           /\ Stored(manifest)
           /\ published' = NextId /\ finalized' = TRUE
           /\ UNCHANGED <<up, log, attachments>>
        \/ /\ IF log = <<>> THEN UNCHANGED <<disk, sidecars>> ELSE NotStored(manifest)
           /\ UNCHANGED journal
  /\ Release
  /\ UNCHANGED <<exports, locked, bundle>>

\* The process stops: what it held in memory is lost and nothing is resumed.
Crash ==
  /\ up
  /\ up' = FALSE
  /\ log' = <<>> /\ attachments' = <<>> /\ published' = None /\ finalized' = FALSE
  /\ Release
  /\ UNCHANGED <<disk, sidecars, exports, locked, bundle>>

------------------------------------------------------------------------------
(***************************************************************************)
(* verify_run_manifest: the schema of the manifest and every object it     *)
(* lists, read back from the store.  The metadata files are not read.      *)
(***************************************************************************)
Verifies(m) ==
  LET manifest == disk[m]
      entries == manifest.events \o manifest.attachments
  IN /\ manifest.events # <<>>
     /\ Len(manifest.events) <= MaxEvents /\ Len(manifest.attachments) <= MaxAttachments
     /\ IsInjective(entries)
     /\ \A i \in 1..Len(manifest.events) :
          /\ Kind(manifest.events[i]) = "event"
          /\ disk[manifest.events[i]].sequence = i
     /\ \A a \in Range(manifest.attachments) : Kind(a) \in {"screenshot", "archive"}
     /\ manifest.terminal # None =>
          LET result == disk[manifest.terminal]
          IN /\ result.kind = "result" /\ result.status \in Statuses
             /\ result.retention = "failure" <=> result.status = "failure"

------------------------------------------------------------------------------
(***************************************************************************)
(* export_evidence_bundle: verify the manifest of a completed run, then,   *)
(* under a lock on the directory, write a temporary directory part by part *)
(* and rename it.                                                          *)
(***************************************************************************)
\* The files of a bundle in the order of their writing: what it holds of the
\* run, then the manifest that describes them.
Parts == <<"evidence", "manifest">>

StartExport(e) ==
  /\ exports[e].stage = "idle"
  /\ bundle = None
  /\ \E m \in 1..Len(disk) :
       /\ Kind(m) = "manifest" /\ disk[m].terminal # None
       /\ Verifies(m)
       /\ Cardinality({a \in Range(disk[m].attachments) : Kind(a) = "archive"}) <= 1
       /\ exports' = [exports EXCEPT ![e] = [stage |-> "verified", manifest |-> m, parts |-> <<>>]]
  /\ UNCHANGED <<disk, sidecars, journal, holder, job, locked, bundle>>

\* Mutant: The destination is not looked at again once the directory is locked.
LockDestinationOnce(e) ==
  /\ exports[e].stage = "verified"
  /\ locked = None
  /\ exports' = [exports EXCEPT ![e].stage = "writing"] /\ locked' = e
  /\ UNCHANGED <<disk, sidecars, journal, holder, job, bundle>>

LockDestination(e) ==
  /\ exports[e].stage = "verified"
  /\ locked = None
  /\ IF bundle # None
       THEN exports' = [exports EXCEPT ![e] = [stage |-> "idle"]] /\ UNCHANGED locked
       ELSE exports' = [exports EXCEPT ![e].stage = "writing"] /\ locked' = e
  /\ UNCHANGED <<disk, sidecars, journal, holder, job, bundle>>

WritePart(e) ==
  /\ exports[e].stage = "writing"
  /\ Len(exports[e].parts) < Len(Parts)
  /\ exports' = [exports EXCEPT ![e].parts = Append(@, Parts[Len(@) + 1])]
  /\ UNCHANGED <<disk, sidecars, journal, holder, job, locked, bundle>>

RenameBundle(e) ==
  /\ exports[e].stage = "writing" /\ exports[e].parts = Parts
  /\ bundle' = [manifest |-> exports[e].manifest, parts |-> exports[e].parts]
  /\ exports' = [exports EXCEPT ![e] = [stage |-> "idle"]]
  /\ locked' = None
  /\ UNCHANGED <<disk, sidecars, journal, holder, job>>

\* An exception removes the temporary directory, a crash leaves it there; both
\* give the directory's lock back.
AbandonExport(e) ==
  /\ exports[e].stage \in {"verified", "writing"}
  /\ exports' = [exports EXCEPT ![e] = [stage |-> "idle"]]
  /\ locked' = IF locked = e THEN None ELSE locked
  /\ UNCHANGED <<disk, sidecars, journal, holder, job, bundle>>

Journals == (\E t \in Threads : StartRecord(t) \/ StartAttach(t) \/ StartFinalize(t))
            \/ WriteObject \/ PublishRecord \/ PublishAttachment
            \/ WriteDiagnostic \/ WriteResult \/ PublishResult \/ Crash
Exports == \E e \in Exporters : StartExport(e) \/ LockDestination(e) \/ WritePart(e)
                                \/ RenameBundle(e) \/ AbandonExport(e)

Next == Journals \/ Exports

Spec == Init /\ [][Next]_vars

------------------------------------------------------------------------------
(* Properties *)

Ids == 1..Len(disk)
Manifests == {id \in Ids : Kind(id) = "manifest"}
Listed(m) == Range(disk[m].events \o disk[m].attachments)
             \cup ({disk[m].terminal} \ {None})

TypeOK ==
  /\ sidecars \subseteq Ids
  /\ Range(log) \subseteq Ids /\ Range(attachments) \subseteq Ids
  /\ Len(log) <= MaxEvents /\ Len(attachments) <= MaxAttachments
  /\ published \in Manifests \cup {None}
  /\ finalized \in BOOLEAN /\ up \in BOOLEAN
  /\ holder \in Threads \cup {None} /\ (holder = None <=> job = Idle)
  /\ locked \in Exporters \cup {None}

\* A run is completed once: at most one whole manifest has a result, even when
\* finalize failed and was called again.  It tells the truth about the diagnostic
\* archive, and has one at most, or it could not be exported.
CompletedOnce ==
  LET completed == {m \in Manifests \cap sidecars : disk[m].terminal # None}
      archives(m) == {a \in Range(disk[m].attachments) : Kind(a) = "archive"}
  IN /\ Cardinality(completed) <= 1
     /\ finalized => completed = {published}
     /\ \A m \in completed :
          /\ disk[disk[m].terminal].trace = "captured" => archives(m) # {}
          /\ Cardinality(archives(m)) <= 1

\* Whatever fails or stops between two writes, no manifest is ever on disk that
\* verify_run_manifest would refuse, and all it lists has its metadata.  In
\* particular an event that could not be published gives its number to the next
\* one (record, _atomic_write, verify_run_manifest), and a finalization that was
\* repeated completes the run once.
EvidenceIsSound ==
  /\ TypeOK
  /\ \A m \in Manifests : Verifies(m) /\ Listed(m) \subseteq sidecars
  /\ CompletedOnce

\* Between operations the manifest that evidence_manifest_key names lists every
\* event and screenshot whose caller was told that it had been recorded.
JournalIsListed ==
  up /\ holder = None =>
    LET screenshots == {a \in Range(attachments) : Kind(a) = "screenshot"}
    IN IF published = None THEN log = <<>> /\ screenshots = {}
       ELSE /\ disk[published].events = log
            /\ screenshots \subseteq Range(disk[published].attachments)
            /\ finalized <=> disk[published].terminal # None

\* A bundle appears under its final name with all its parts, from the verified
\* evidence of a completed run, and nothing replaces it (export_evidence_bundle).
BundleIsWhole ==
  [][/\ bundle' # None => /\ bundle'.parts = Parts
                          /\ disk[bundle'.manifest].terminal # None
     /\ bundle # None => bundle' = bundle]_vars
==============================================================================
