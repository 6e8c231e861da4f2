--------------------------- MODULE AttachmentStore ---------------------------
(***************************************************************************)
(* Uploaded files: the bytes on disk, the rows that claim them, and the     *)
(* nightly sweep of bytes no row claims (apps/api/src/attachment,           *)
(* apps/api/src/retention, apps/api/src/storage, scripts/backup.sh).        *)
(*                                                                         *)
(* An upload writes bytes first and its row second; a row goes with its     *)
(* task, board or workspace inside PostgreSQL and leaves its bytes behind.  *)
(* Time passes in ticks, ages stop counting once past what any test of an   *)
(* age can tell apart.                                                      *)
(***************************************************************************)
EXTENDS Integers, Sequences, FiniteSets

CONSTANTS
    Files,           \* attachment ids, and so storage keys: one for every upload
    BackupInterval,  \* BACKUP_INTERVAL, in ticks
    BackupKeep,      \* BACKUP_KEEP
    DumpTime,        \* how long a dump takes, in ticks
    MinGrace,        \* MIN_ORPHAN_GRACE_MS, in ticks
    UploadTime,      \* longest an upload is between its bytes and its row
    BatchSize,       \* CLEANUP_BATCH_SIZE
    Ceiling,         \* CLEANUP_BATCH_SIZE * MAX_BATCHES_PER_TABLE
    AcksLost,        \* may the answer to a COMMIT be lost?
    BackupsFail,     \* may a backup cycle write no dump?
    MaxCrashes       \* bound: crashes of the API process

\* A transaction ends within seconds (Prisma's limits), the floor is a day.
ASSUME AttachmentAssumption ==
    /\ IsFiniteSet(Files)
    /\ BackupInterval \in Nat
    /\ BackupKeep \in Nat
    /\ DumpTime \in Nat
    /\ MinGrace \in Nat
    /\ UploadTime \in Nat
    /\ UploadTime < MinGrace
    /\ BatchSize \in Nat /\ BatchSize >= 1
    /\ Ceiling \in Nat /\ Ceiling >= 1
    /\ AcksLost \in BOOLEAN
    /\ BackupsFail \in BOOLEAN
    /\ MaxCrashes \in Nat

VARIABLES
    upload,     \* where the request that uploads each file is
    disk,       \* keys with bytes under the storage root
    rows,       \* keys a committed Attachment row claims
    age,        \* ticks since the bytes were written
    unclaimed,  \* ticks since the row was deleted
    sweep,      \* where the nightly job is
    old,        \* the keys older than its cutoff
    left,       \* directory entries it has still to list
    batch,      \* keys of the batch it is filling or unlinking
    removed,    \* files it has unlinked in this run
    dumps,      \* the dumps kept, oldest first: the uploads each one knows of
    taking,     \* the dump being taken, if one is
    due,        \* ticks until it is complete, or until the next one begins
    crashes

claims  == <<upload, rows, unclaimed>>
job     == <<sweep, old, left, batch, removed>>
backups == <<dumps, taking, due>>
vars    == <<upload, disk, rows, age, unclaimed, sweep, old, left, batch, removed, dumps, taking,
             due, crashes>>

AtLeast(n, floor) == IF n < floor THEN floor ELSE n

\* Slip: the product of the two backup settings, as configured.
UnclampedGrace == BackupInterval * BackupKeep

OrphanGrace == AtLeast(BackupInterval * AtLeast(BackupKeep, 1), MinGrace)

InFlight(f) == upload[f] \in {"written", "failing"}

TypeOK ==
    /\ upload \in [Files -> {"none", "written", "failing", "stored", "abandoned"}]
    /\ disk \subseteq Files
    /\ rows \subseteq Files
    /\ age \in [Files -> 0..(OrphanGrace + 1)]
    /\ unclaimed \in [Files -> 0..OrphanGrace]
    /\ sweep \in {"idle", "list", "unlink"}
    /\ old \subseteq Files
    /\ left \subseteq Files
    /\ batch \subseteq Files
    /\ removed \in Nat
    /\ dumps \in Seq(SUBSET Files)
    /\ taking \in {<<>>} \cup {<<known>> : known \in SUBSET Files}
    /\ due \in 0..(BackupInterval + DumpTime)
    /\ crashes \in 0..MaxCrashes

Init ==
    /\ upload = [f \in Files |-> "none"]
    /\ disk = {}
    /\ rows = {}
    /\ age = [f \in Files |-> 0]
    /\ unclaimed = [f \in Files |-> 0]
    /\ sweep = "idle"
    /\ old = {}
    /\ left = {}
    /\ batch = {}
    /\ removed = 0
    /\ dumps = <<>>
    /\ taking = <<>>
    /\ due = 0
    /\ crashes = 0

-----------------------------------------------------------------------------
(* AttachmentService.createFile *)

Upload(f, step) == upload' = [upload EXCEPT ![f] = step]

WriteBytes(f) ==
    /\ upload[f] = "none"
    /\ Upload(f, "written")
    /\ disk' = disk \cup {f}
    /\ age' = [age EXCEPT ![f] = 0]
    /\ UNCHANGED <<rows, unclaimed, job, backups, crashes>>

\* The write is outside the try: what it left on disk, if anything, stays there.
FailWrite(f) ==
    /\ upload[f] = "none"
    /\ Upload(f, "abandoned")
    /\ disk' \in {disk, disk \cup {f}}
    /\ age' = [age EXCEPT ![f] = 0]
    /\ UNCHANGED <<rows, unclaimed, job, backups, crashes>>

CommitRow(f) ==
    /\ upload[f] = "written"
    /\ Upload(f, "stored")
    /\ rows' = rows \cup {f}
    /\ UNCHANGED <<disk, age, unclaimed, job, backups, crashes>>

\* The transaction fails (the task is gone, the server is, it took too long), or it
\* commits and the answer is lost on the way back: the catch cannot tell.
FailRow(f) ==
    /\ upload[f] = "written"
    /\ Upload(f, "failing")
    /\ rows' \in {rows} \cup (IF AcksLost THEN {rows \cup {f}} ELSE {})
    /\ UNCHANGED <<disk, age, unclaimed, job, backups, crashes>>

\* The catch's unlink is best effort.
RemoveBytes(f) ==
    /\ upload[f] = "failing"
    /\ Upload(f, "abandoned")
    /\ disk' \in {disk, disk \ {f}}
    /\ UNCHANGED <<rows, age, unclaimed, job, backups, crashes>>

-----------------------------------------------------------------------------
(* Rows that go: AttachmentService.remove, or the cascade of a task, board or workspace *)

DeleteRows ==
    \E gone \in SUBSET rows \ {{}} :
        /\ rows' = rows \ gone
        /\ unclaimed' = [f \in Files |-> IF f \in gone THEN 0 ELSE unclaimed[f]]
        /\ UNCHANGED <<upload, disk, age, job, backups, crashes>>

-----------------------------------------------------------------------------
(* CleanupWorker.sweepOrphanFiles *)

EndRun ==
    /\ sweep' = "idle"
    /\ old' = {}
    /\ left' = {}
    /\ batch' = {}
    /\ removed' = 0

\* The cutoff is a moment: what is older than it now is what the run may unlink.
StartSweep ==
    /\ sweep = "idle"
    /\ disk # {}
    /\ sweep' = "list"
    /\ old' = {f \in disk : age[f] > OrphanGrace}
    /\ left' = disk
    /\ UNCHANGED <<claims, disk, age, batch, removed, backups, crashes>>

(***************************************************************************)
(* The next entry of the directory.  One that has been unlinked since the   *)
(* walk began is no longer there, or its stat fails and the run with it.    *)
(***************************************************************************)
ListFile ==
    /\ sweep = "list"
    /\ Cardinality(batch) < BatchSize
    /\ \E f \in left :
          \/ /\ f \in old
             /\ f \in disk
             /\ batch' = batch \cup {f}
             /\ left' = left \ {f}
             /\ UNCHANGED <<sweep, old, removed>>
          \/ /\ f \notin old \/ f \notin disk
             /\ left' = left \ {f}
             /\ UNCHANGED <<sweep, old, batch, removed>>
          \/ /\ f \notin disk
             /\ EndRun
    /\ UNCHANGED <<claims, disk, age, backups, crashes>>

BatchReady == sweep = "list" /\ (left = {} \/ Cardinality(batch) = BatchSize)

\* One query for the batch; claimed keys drop out of it.
CheckClaims ==
    /\ BatchReady
    /\ sweep' = "unlink"
    /\ batch' = batch \ rows
    /\ UNCHANGED <<claims, disk, age, old, left, removed, backups, crashes>>

\* Slip: the run stops at the end of its first batch, the files left in it still there.
StopShort ==
    /\ sweep = "unlink"
    /\ EndRun
    /\ UNCHANGED <<claims, disk, age, backups, crashes>>

UnlinkOrphan ==
    /\ sweep = "unlink"
    /\ \E f \in batch :
          /\ disk' = disk \ {f}
          /\ batch' = batch \ {f}
    /\ removed' = removed + 1
    /\ UNCHANGED <<claims, age, sweep, old, left, backups, crashes>>

\* The walk is over, or broken off at the ceiling.
EndBatch ==
    /\ sweep = "unlink"
    /\ batch = {}
    /\ IF left = {} \/ removed >= Ceiling
       THEN EndRun
       ELSE sweep' = "list" /\ UNCHANGED <<old, left, batch, removed>>
    /\ UNCHANGED <<claims, disk, age, backups, crashes>>

-----------------------------------------------------------------------------
(* Time, the backup sidecar and the process *)

\* A dump is a snapshot of its beginning: rows in flight are not in it.
StartDump ==
    /\ due = 0
    /\ taking = <<>>
    /\ taking' = <<{f \in Files : upload[f] \notin {"none", "written"}}>>
    /\ due' = DumpTime
    /\ UNCHANGED <<claims, disk, age, job, dumps, crashes>>

Newest(s) ==
    IF Len(s) > BackupKeep THEN SubSeq(s, Len(s) - BackupKeep + 1, Len(s)) ELSE s

\* Slip: the sidecar sleeps a tick longer than it is told to.
LateBackup ==
    /\ due = 0
    /\ taking # <<>>
    /\ taking' = <<>>
    /\ due' = BackupInterval + DumpTime + 1
    /\ dumps' = Newest(dumps \o taking)
    /\ UNCHANGED <<claims, disk, age, job, crashes>>

\* Prune to the newest BACKUP_KEEP and sleep for BACKUP_INTERVAL; a failed dump is
\* reported, and the archives already there stay.
EndDump ==
    /\ due = 0
    /\ taking # <<>>
    /\ taking' = <<>>
    /\ due' = BackupInterval
    /\ \/ dumps' = Newest(dumps \o taking)
       \/ BackupsFail /\ dumps' = Newest(dumps)
    /\ UNCHANGED <<claims, disk, age, job, crashes>>

\* No upload outlives its time, and a dump that is due begins or ends before time passes.
Tick ==
    /\ \A f \in Files : InFlight(f) => age[f] < UploadTime
    /\ BackupInterval + DumpTime > 0 => due > 0
    /\ due' = IF due > 0 THEN due - 1 ELSE 0
    /\ age' = [f \in Files |-> IF f \in disk /\ age[f] =< OrphanGrace THEN age[f] + 1 ELSE age[f]]
    /\ unclaimed' = [f \in Files |-> IF f \in disk \ rows /\ unclaimed[f] < OrphanGrace
                                     THEN unclaimed[f] + 1 ELSE unclaimed[f]]
    /\ UNCHANGED <<upload, disk, rows, job, dumps, taking, crashes>>

\* Requests in flight and the run are lost; the job is retried, or next night's.
Crash ==
    /\ crashes < MaxCrashes
    /\ crashes' = crashes + 1
    /\ upload' = [f \in Files |-> IF InFlight(f) THEN "abandoned" ELSE upload[f]]
    /\ EndRun
    /\ UNCHANGED <<disk, rows, age, unclaimed, backups>>

-----------------------------------------------------------------------------

UploadStep(f) == CommitRow(f) \/ FailRow(f) \/ RemoveBytes(f)
SweepStep == ListFile \/ CheckClaims \/ UnlinkOrphan \/ EndBatch

Next ==
    \/ \E f \in Files : WriteBytes(f) \/ FailWrite(f) \/ UploadStep(f)
    \/ DeleteRows
    \/ StartSweep \/ SweepStep
    \/ StartDump \/ EndDump \/ Tick \/ Crash

Spec == Init /\ [][Next]_vars

(***************************************************************************)
(* Time passes, backups run when due, requests are answered, and the job    *)
(* runs every night to its end.                                             *)
(***************************************************************************)
FairSpec ==
    /\ Spec
    /\ WF_vars(Tick) /\ WF_vars(StartDump) /\ WF_vars(EndDump)
    /\ \A f \in Files : WF_vars(UploadStep(f))
    /\ WF_vars(StartSweep) /\ WF_vars(SweepStep)

-----------------------------------------------------------------------------

(***************************************************************************)
(* A row always has its bytes: no download is broken, whatever the sweep,   *)
(* failing uploads and crashes do (attachment.service.ts:143-146).          *)
(***************************************************************************)
RowsHaveBytes == rows \subseteq disk

(***************************************************************************)
(* Bytes no row claims are unlinked in the end, or claimed after all: the   *)
(* sweep misses none, though it works in batches, stops at a ceiling and    *)
(* can die half way.                                                        *)
(***************************************************************************)
OrphansAreSwept ==
    \A f \in Files :
        f \in disk \ rows /\ ~InFlight(f) ~> f \notin disk \/ f \in rows

(***************************************************************************)
(* The sweep unlinks no file whose upload a dump that is still kept does    *)
(* not know of: a restore of that dump would disown it                      *)
(* (cleanup.worker.ts:107-115, scripts/backup.sh:37-39).                    *)
(***************************************************************************)
NoKeptDumpDisowns ==
    [][\A f \in batch \cap (disk \ disk'), i \in 1..Len(dumps) : f \in dumps[i]]_vars

=============================================================================
