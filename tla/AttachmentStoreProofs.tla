------------------------ MODULE AttachmentStoreProofs ------------------------
(***************************************************************************)
(* Proofs about AttachmentStore: its types, and that no row is ever left    *)
(* without its bytes as long as the answers to its commits arrive.          *)
(***************************************************************************)
EXTENDS AttachmentStore, SequenceTheorems, TLAPS

-----------------------------------------------------------------------------
(* The grace window *)

(***************************************************************************)
(* Whatever BACKUP_INTERVAL and BACKUP_KEEP are set to, the window is never *)
(* shorter than its floor, so never within an upload's time.                *)
(***************************************************************************)
LEMMA GraceIsLonger ==
    OrphanGrace \in Nat /\ MinGrace =< OrphanGrace /\ UploadTime < OrphanGrace
<1> DEFINE kept == AtLeast(BackupKeep, 1)
           span == BackupInterval * kept
<1>1. kept \in Nat
  BY AttachmentAssumption DEF AtLeast
<1>2. span \in Nat
  <2> HIDE DEF kept
  <2> QED BY <1>1, AttachmentAssumption
<1>3. OrphanGrace = AtLeast(span, MinGrace)
  BY DEF OrphanGrace
<1> HIDE DEF span
<1> QED BY <1>2, <1>3, AttachmentAssumption DEF AtLeast

(***************************************************************************)
(* The window as a number, and the ages a file can have within it.          *)
(***************************************************************************)
LEMMA GraceIsNat ==
    OrphanGrace \in Nat /\ 0 \in 0..OrphanGrace /\ 0 \in 0..(OrphanGrace + 1)
<1>1. OrphanGrace \in Nat
  BY GraceIsLonger
<1> QED BY <1>1

-----------------------------------------------------------------------------
(* Types *)

(***************************************************************************)
(* Pruning to the newest archives leaves a list of archives (prune in       *)
(* scripts/backup.sh).                                                      *)
(***************************************************************************)
LEMMA NewestIsAList ==
    ASSUME NEW s \in Seq(SUBSET Files)
    PROVE  Newest(s) \in Seq(SUBSET Files)
<1>1. CASE Len(s) > BackupKeep
  <2> DEFINE first == Len(s) - BackupKeep + 1
  <2>1. Len(s) \in Nat /\ first \in 1..(Len(s) + 1) /\ Len(s) \in (first - 1)..Len(s)
    BY <1>1, LenProperties, AttachmentAssumption
  <2>2. SubSeq(s, first, Len(s)) \in Seq(SUBSET Files)
    BY <2>1, SubSeqProperties
  <2> QED BY <1>1, <2>2 DEF Newest
<1>2. CASE ~(Len(s) > BackupKeep)
  BY <1>2 DEF Newest
<1> QED BY <1>1, <1>2

(***************************************************************************)
(* Every step of an upload keeps the types.                                 *)
(***************************************************************************)
LEMMA UploadTypes ==
    ASSUME TypeOK, NEW f \in Files, WriteBytes(f) \/ FailWrite(f) \/ UploadStep(f)
    PROVE  TypeOK'
<1> USE DEF TypeOK, Upload, job, backups
<1>1. CASE WriteBytes(f) \/ FailWrite(f)
  <2>1. age' \in [Files -> 0..(OrphanGrace + 1)]
    BY <1>1, GraceIsNat DEF WriteBytes, FailWrite
  <2>2. disk' \subseteq Files
    BY <1>1 DEF WriteBytes, FailWrite
  <2>3. upload' \in [Files -> {"none", "written", "failing", "stored", "abandoned"}]
    BY <1>1 DEF WriteBytes, FailWrite
  <2>4. UNCHANGED <<rows, unclaimed, sweep, old, left, batch, removed, dumps, taking, due, crashes>>
    BY <1>1 DEF WriteBytes, FailWrite
  <2> QED BY <2>1, <2>2, <2>3, <2>4
<1>3. CASE CommitRow(f)    BY <1>3 DEF CommitRow
<1>4. CASE FailRow(f)      BY <1>4 DEF FailRow
<1>5. CASE RemoveBytes(f)  BY <1>5 DEF RemoveBytes
<1> QED BY <1>1, <1>3, <1>4, <1>5 DEF UploadStep

(***************************************************************************)
(* Every step of the nightly job keeps the types.                           *)
(***************************************************************************)
LEMMA SweepTypes ==
    ASSUME TypeOK, StartSweep \/ SweepStep
    PROVE  TypeOK'
<1> USE GraceIsNat, AttachmentAssumption
<1> USE DEF TypeOK, claims, backups, EndRun
<1>1. CASE StartSweep    BY <1>1 DEF StartSweep
<1>2. CASE ListFile
  <2>1. batch' \subseteq Files /\ left' \subseteq Files /\ old' \subseteq Files
    BY <1>2 DEF ListFile
  <2>2. sweep' \in {"idle", "list", "unlink"} /\ removed' \in Nat
    BY <1>2 DEF ListFile
  <2>3. UNCHANGED <<upload, disk, rows, age, unclaimed, dumps, taking, due,
                   crashes>>
    BY <1>2 DEF ListFile
  <2> QED BY <2>1, <2>2, <2>3
<1>3. CASE CheckClaims   BY <1>3 DEF CheckClaims
<1>4. CASE UnlinkOrphan
  <2>1. batch' \subseteq Files /\ disk' \subseteq Files
    BY <1>4 DEF UnlinkOrphan
  <2>2. removed' \in Nat
    BY <1>4 DEF UnlinkOrphan
  <2>3. UNCHANGED <<upload, rows, age, unclaimed, sweep, old, left, dumps, taking,
                   due, crashes>>
    BY <1>4 DEF UnlinkOrphan
  <2> QED BY <2>1, <2>2, <2>3
<1>5. CASE EndBatch      BY <1>5 DEF EndBatch
<1> QED BY <1>1, <1>2, <1>3, <1>4, <1>5 DEF SweepStep

(***************************************************************************)
(* Every step of the specification keeps the types.                         *)
(***************************************************************************)
LEMMA NextTypes == TypeOK /\ [Next]_vars => TypeOK'
<1> SUFFICES ASSUME TypeOK, [Next]_vars PROVE TypeOK'
  OBVIOUS
<1>1. CASE \E f \in Files : WriteBytes(f) \/ FailWrite(f) \/ UploadStep(f)
  BY <1>1, UploadTypes
<1>2. CASE DeleteRows
  <2>1. unclaimed' \in [Files -> 0..OrphanGrace]
    BY <1>2, GraceIsNat DEF DeleteRows, TypeOK
  <2> QED BY <1>2, <2>1 DEF DeleteRows, TypeOK, job, backups
<1>3. CASE StartSweep \/ SweepStep
  BY <1>3, SweepTypes
<1>4. CASE StartDump
  <2>1. taking' \in {<<>>} \cup {<<known>> : known \in SUBSET Files}
    BY <1>4 DEF StartDump
  <2>2. due' \in 0..(BackupInterval + DumpTime)
    BY <1>4, AttachmentAssumption DEF StartDump
  <2>3. UNCHANGED <<upload, rows, unclaimed, disk, age, sweep, old, left, batch, removed, dumps,
                    crashes>>
    BY <1>4 DEF StartDump, claims, job
  <2> QED BY <2>1, <2>2, <2>3 DEF TypeOK
<1>5. CASE EndDump
  <2>1. dumps' \in Seq(SUBSET Files)
    <3>1. PICK known \in SUBSET Files : taking = <<known>>
      BY <1>5 DEF EndDump, TypeOK
    <3>2. dumps \o taking \in Seq(SUBSET Files)
      BY <3>1, ConcatProperties DEF TypeOK
    <3>3. dumps' = Newest(dumps \o taking) \/ dumps' = Newest(dumps)
      BY <1>5 DEF EndDump
    <3> QED BY <3>2, <3>3, NewestIsAList DEF TypeOK
  <2>2. taking' \in {<<>>} \cup {<<known>> : known \in SUBSET Files}
    BY <1>5 DEF EndDump
  <2>3. due' \in 0..(BackupInterval + DumpTime)
    BY <1>5, AttachmentAssumption DEF EndDump
  <2>4. UNCHANGED <<upload, rows, unclaimed, disk, age, sweep, old, left, batch, removed, crashes>>
    BY <1>5 DEF EndDump, claims, job
  <2> QED BY <2>1, <2>2, <2>3, <2>4 DEF TypeOK
<1>6. CASE Tick
  <2>1. age' \in [Files -> 0..(OrphanGrace + 1)]
    BY <1>6, GraceIsNat, AttachmentAssumption DEF Tick, TypeOK
  <2>2. unclaimed' \in [Files -> 0..OrphanGrace]
    BY <1>6, GraceIsNat, AttachmentAssumption DEF Tick, TypeOK
  <2>3. due' \in 0..(BackupInterval + DumpTime)
    BY <1>6, GraceIsNat, AttachmentAssumption DEF Tick, TypeOK
  <2> QED BY <1>6, <2>1, <2>2, <2>3 DEF Tick, TypeOK, job
<1>7. CASE Crash
  BY <1>7, GraceIsNat, AttachmentAssumption DEF Crash, TypeOK, EndRun, backups
<1>8. CASE UNCHANGED vars
  BY <1>8 DEF vars, TypeOK
<1> QED BY <1>1, <1>2, <1>3, <1>4, <1>5, <1>6, <1>7, <1>8 DEF Next

(***************************************************************************)
(* Types are kept: in particular, no age and no backup timer leaves the     *)
(* range its test can tell apart, for every setting of the environment.     *)
(***************************************************************************)
THEOREM StoreTypesKept == Spec => []TypeOK
<1>1. Init => TypeOK
  BY GraceIsNat, AttachmentAssumption, EmptySeq DEF Init, TypeOK
<1> QED BY <1>1, NextTypes, PTL DEF Spec

-----------------------------------------------------------------------------
(* Rows have bytes *)

\* A request writes before it claims, and is gone long before its file is old.
UploadsAreYoung ==
    \A f \in Files :
        /\ upload[f] = "none" => f \notin disk
        /\ upload[f] = "written" => f \in disk
        /\ InFlight(f) => age[f] =< UploadTime

\* A failed request leaves no row.
RowsAreStored == \A f \in rows : upload[f] = "stored"

\* The job's cutoff is past every upload that could still claim a file of its batch.
BatchIsOld ==
    /\ sweep = "idle" => batch = {}
    /\ batch \subseteq old
    /\ \A f \in old : upload[f] # "none" /\ age[f] > OrphanGrace

\* The answer to the job's query stays true: rows only go.
BatchIsUnclaimed == sweep = "unlink" => batch \cap rows = {}

IInv ==
    /\ TypeOK
    /\ RowsHaveBytes
    /\ UploadsAreYoung
    /\ RowsAreStored
    /\ BatchIsOld
    /\ BatchIsUnclaimed

(***************************************************************************)
(* No file a request still works on is old enough to be swept.              *)
(***************************************************************************)
LEMMA OldIsNotInFlight ==
    ASSUME IInv, NEW f \in old
    PROVE  f \in Files /\ ~InFlight(f)
<1>1. f \in Files /\ age[f] \in Int /\ age[f] > OrphanGrace
  BY GraceIsNat DEF IInv, TypeOK, BatchIsOld
<1>2. InFlight(f) => age[f] =< UploadTime
  BY <1>1 DEF IInv, UploadsAreYoung
<1> QED BY <1>1, <1>2, GraceIsLonger, AttachmentAssumption

(***************************************************************************)
(* AttachmentService.createFile keeps the invariant: the row is committed   *)
(* while its bytes are too young for any sweep, and the bytes are removed   *)
(* only when no row was written.                                            *)
(***************************************************************************)
LEMMA UploadKeeps ==
    ASSUME IInv, ~AcksLost, NEW f \in Files, WriteBytes(f) \/ FailWrite(f) \/ UploadStep(f)
    PROVE  IInv'
<1>1. TypeOK'
  BY UploadTypes DEF IInv
<1>2. CASE WriteBytes(f) \/ FailWrite(f)
  <2>1. f \notin old /\ f \notin rows
    BY <1>2 DEF IInv, BatchIsOld, RowsAreStored, WriteBytes, FailWrite
  <2>2. RowsHaveBytes' /\ RowsAreStored' /\ BatchIsOld' /\ BatchIsUnclaimed'
    BY <1>2, <2>1 DEF IInv, TypeOK, RowsHaveBytes, RowsAreStored, BatchIsOld, BatchIsUnclaimed,
                      WriteBytes, FailWrite, Upload, job
  <2>3. UploadsAreYoung'
    <3>1. age'[f] = 0 /\ \A g \in Files \ {f} : age'[g] = age[g]
      BY <1>2 DEF IInv, TypeOK, WriteBytes, FailWrite
    <3>2. upload'[f] # "none" /\ (upload'[f] = "written" => f \in disk')
      BY <1>2 DEF IInv, TypeOK, WriteBytes, FailWrite, Upload
    <3>3. \A g \in Files \ {f} : upload'[g] = upload[g] /\ (g \in disk' <=> g \in disk)
      BY <1>2 DEF IInv, TypeOK, WriteBytes, FailWrite, Upload
    <3>4. 0 =< UploadTime
      BY AttachmentAssumption
    <3> QED BY <3>1, <3>2, <3>3, <3>4 DEF IInv, UploadsAreYoung, InFlight
  <2> QED BY <1>1, <2>2, <2>3 DEF IInv
<1>3. CASE UploadStep(f)
  <2>1. InFlight(f)
    BY <1>3 DEF UploadStep, CommitRow, FailRow, RemoveBytes, InFlight
  <2>2. f \notin old
    BY <2>1, OldIsNotInFlight
  <2>3. f \notin rows
    BY <2>1 DEF IInv, RowsAreStored, InFlight
  <2>4. RowsHaveBytes' /\ RowsAreStored' /\ UploadsAreYoung'
    BY <1>3, <2>3
    DEF IInv, TypeOK, RowsHaveBytes, RowsAreStored, UploadsAreYoung, InFlight,
        UploadStep, CommitRow, FailRow, RemoveBytes, Upload
  <2>5. BatchIsOld' /\ BatchIsUnclaimed'
    BY <1>3, <2>2
    DEF IInv, TypeOK, BatchIsOld, BatchIsUnclaimed,
        UploadStep, CommitRow, FailRow, RemoveBytes, Upload, job
  <2> QED BY <1>1, <2>4, <2>5 DEF IInv
<1> QED BY <1>2, <1>3

(***************************************************************************)
(* CleanupWorker.sweepOrphanFiles keeps it: what it unlinks was unclaimed   *)
(* when it asked, and can no longer be claimed.                             *)
(***************************************************************************)
LEMMA SweepKeeps ==
    ASSUME IInv, StartSweep \/ SweepStep
    PROVE  IInv'
<1>1. TypeOK'
  BY SweepTypes DEF IInv
<1>2. CASE UnlinkOrphan
  <2> PICK f \in batch : disk' = disk \ {f} /\ batch' = batch \ {f}
    BY <1>2 DEF UnlinkOrphan
  <2>1. f \in Files /\ ~InFlight(f) /\ f \notin rows
    BY <1>2, OldIsNotInFlight DEF IInv, BatchIsOld, BatchIsUnclaimed, UnlinkOrphan
  <2>2. UploadsAreYoung'
    BY <1>2, <2>1 DEF IInv, UploadsAreYoung, InFlight, UnlinkOrphan, claims
  <2> QED BY <1>1, <1>2, <2>1, <2>2
    DEF IInv, RowsHaveBytes, RowsAreStored, BatchIsOld, BatchIsUnclaimed, UnlinkOrphan, claims
<1>3. CASE StartSweep \/ ListFile \/ CheckClaims \/ EndBatch
  <2>1. UNCHANGED <<upload, rows, disk, age>>
    BY <1>3 DEF StartSweep, ListFile, CheckClaims, EndBatch, claims
  <2>2. RowsHaveBytes' /\ RowsAreStored' /\ UploadsAreYoung'
    BY <2>1 DEF IInv, RowsHaveBytes, RowsAreStored, UploadsAreYoung, InFlight
  <2>3. BatchIsOld' /\ BatchIsUnclaimed'
    <3> USE DEF IInv, BatchIsOld, BatchIsUnclaimed
    <3>1. CASE StartSweep   BY <3>1, <2>1 DEF StartSweep, UploadsAreYoung, TypeOK
    <3>2. CASE ListFile     BY <3>2, <2>1 DEF ListFile, EndRun
    <3>3. CASE CheckClaims  BY <3>3, <2>1 DEF CheckClaims
    <3>4. CASE EndBatch     BY <3>4, <2>1 DEF EndBatch, EndRun
    <3> QED BY <1>3, <3>1, <3>2, <3>3, <3>4
  <2> QED BY <1>1, <2>2, <2>3 DEF IInv
<1> QED BY <1>2, <1>3 DEF SweepStep

(***************************************************************************)
(* Every step keeps the invariant.                                          *)
(***************************************************************************)
LEMMA StoreNext == ~AcksLost /\ IInv /\ [Next]_vars => IInv'
<1> SUFFICES ASSUME ~AcksLost, IInv, [Next]_vars PROVE IInv'
  OBVIOUS
<1>0. TypeOK'
  BY NextTypes DEF IInv
<1> USE DEF IInv, RowsHaveBytes, RowsAreStored, UploadsAreYoung, InFlight, BatchIsOld,
            BatchIsUnclaimed
<1>1. CASE \E f \in Files : WriteBytes(f) \/ FailWrite(f) \/ UploadStep(f)
  BY <1>1, UploadKeeps
<1>2. CASE DeleteRows
  BY <1>0, <1>2 DEF DeleteRows, job
<1>3. CASE StartSweep \/ SweepStep
  BY <1>3, SweepKeeps
<1>4. CASE StartDump \/ EndDump
  BY <1>0, <1>4 DEF StartDump, EndDump, claims, job
<1>5. CASE Tick
  <2>1. UploadsAreYoung'
    BY <1>5, GraceIsNat, AttachmentAssumption DEF Tick, TypeOK
  <2>2. BatchIsOld'
    BY <1>5, GraceIsNat DEF Tick, TypeOK, job
  <2> QED BY <1>0, <1>5, <2>1, <2>2 DEF Tick, job
<1>6. CASE Crash
  BY <1>0, <1>6 DEF Crash, EndRun, TypeOK
<1>7. CASE UNCHANGED vars
  BY <1>0, <1>7 DEF vars
<1> QED BY <1>1, <1>2, <1>3, <1>4, <1>5, <1>6, <1>7 DEF Next

(***************************************************************************)
(* As long as no commit's answer is lost, no row is ever without its bytes: *)
(* for any number of files, any setting of the backups and the batches, and *)
(* a crash anywhere.                                                        *)
(***************************************************************************)
THEOREM NoBrokenDownloads == ~AcksLost => (Spec => []RowsHaveBytes)
<1> SUFFICES ASSUME ~AcksLost PROVE Spec => []RowsHaveBytes
  OBVIOUS
<1>1. Init => IInv
  <2> SUFFICES ASSUME Init PROVE IInv
    OBVIOUS
  <2>1. TypeOK
    BY GraceIsNat, AttachmentAssumption, EmptySeq DEF Init, TypeOK
  <2> QED BY <2>1
    DEF Init, IInv, RowsHaveBytes, UploadsAreYoung, InFlight, RowsAreStored, BatchIsOld,
        BatchIsUnclaimed
<1>2. IInv /\ [Next]_vars => IInv'
  BY StoreNext
<1>3. IInv => RowsHaveBytes
  BY DEF IInv
<1> QED BY <1>1, <1>2, <1>3, PTL DEF Spec

=============================================================================
