--------------------------- MODULE CapabilityRegistry ---------------------------
(***************************************************************************)
(* LocalCapabilityRegistry of capabilities/registry.py, for the versions   *)
(* of one capability: publish_next as a sequence of file operations under  *)
(* a lock, any of which may fail, in processes that may stop, on a machine *)
(* that may lose power.                                                    *)
(*                                                                         *)
(* A version x.y.z is a number, as publish_next only ever raises z.  The   *)
(* thread lock within a process and the directory lock between processes   *)
(* are one: a thread that waits for either does nothing else.  Temporary   *)
(* files are left out: no reader's pattern matches them.  So a file is     *)
(* whole as soon as it has its name, but its name is only durable once     *)
(* the directory has been flushed.                                         *)
(***************************************************************************)
EXTENDS Integers, FiniteSetsExt

CONSTANTS
  Processes,   \* runtimes that share a registry directory
  Threads,     \* the threads of all of them
  ProcessOf,   \* the process of each thread
  MaxVersion,  \* bound: versions
  None

ASSUME ThreadsAssumption ==
  ProcessOf \in [Threads -> Processes] /\ MaxVersion \in Nat /\ None \notin Threads

VARIABLES
  files,      \* the files that a reader finds: version and content
  synced,     \* those whose name would survive a loss of power
  confirmed,  \* those whose publication was confirmed to the publisher
  writer      \* the thread with the lock, what it writes and how far it has come

registry == <<files, synced, confirmed, writer>>

RegistryInit == files = {} /\ synced = {} /\ confirmed = {} /\ writer = None

Versions == {file.version : file \in files}

\* The next patch version, unless the draft's own is higher.
NextVersion(proposed) == Max({proposed} \cup {version + 1 : version \in Versions})

\* publish_next reads the versions and names the file, with the lock.
BeginPublish(t, content, proposed) ==
  /\ writer = None
  /\ NextVersion(proposed) <= MaxVersion
  /\ writer' = [thread |-> t, stage |-> "write",
                file |-> [version |-> NextVersion(proposed), content |-> content]]
  /\ UNCHANGED <<files, synced, confirmed>>

At(t, stage) == writer # None /\ writer.thread = t /\ writer.stage = stage

\* Mutant: the directory is not flushed after the link.
LinkFileOnly(t) ==
  /\ At(t, "write")
  /\ files' = files \cup {writer.file}
  /\ writer' = [writer EXCEPT !.stage = "load"]
  /\ UNCHANGED <<synced, confirmed>>

\* The temporary file is written and flushed, then linked to its name.
LinkFile(t) ==
  /\ At(t, "write")
  /\ files' = files \cup {writer.file}
  /\ writer' = [writer EXCEPT !.stage = "sync"]
  /\ UNCHANGED <<synced, confirmed>>

SyncDirectory(t) ==
  /\ At(t, "sync")
  /\ synced' = files
  /\ writer' = [writer EXCEPT !.stage = "load"]
  /\ UNCHANGED <<files, confirmed>>

\* The file is read back and returned.
ConfirmPublication(t) ==
  /\ At(t, "load")
  /\ confirmed' = confirmed \cup {writer.file}
  /\ writer' = None
  /\ UNCHANGED <<files, synced>>

\* The storage fails, before the link, in the flush, or in reading the file back:
\* the publisher gets an error, the file may be there.
FailPublication(t) ==
  /\ writer # None /\ writer.thread = t
  /\ writer' = None
  /\ UNCHANGED <<files, synced, confirmed>>

\* The lock goes with the process that holds it.
StopProcess(p) ==
  /\ writer' = IF writer # None /\ ProcessOf[writer.thread] = p THEN None ELSE writer
  /\ UNCHANGED <<files, synced, confirmed>>

LosePower ==
  /\ \E lost \in SUBSET (files \ synced) : files' = files \ lost
  /\ synced' = files'
  /\ writer' = None
  /\ UNCHANGED confirmed
==============================================================================
