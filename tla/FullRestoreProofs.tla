--------------------------- MODULE FullRestoreProofs ---------------------------
(***************************************************************************)
(* Proofs about complete backups and their restoration, for any blobs, any *)
(* number of requests, archives, days and faults.                          *)
(***************************************************************************)
EXTENDS FullRestore, SequenceTheorems, WellFoundedInduction, NaturalsInduction, TLAPS

-----------------------------------------------------------------------------
(* The inductive invariant.                                                 *)

Ahead(i) == \E k \in Verified : i < k

CaptureSteps == {"snapshot", "captured", "linked"}
BackupSteps == {"started", "locked"} \cup CaptureSteps
CopySteps == {"catalogued", "copied", "refused"}
RemovalSteps == {"remote-deleted", "local-deleted"}

\* What the holder of RUN is at.
JobOK ==
    /\ job.by = "schedule" => tick \in {"backup", "prune", "retry"}
    /\ Lost => job = NoJob
    /\ job.step \in CaptureSteps => job.created \in Days
    /\ job.step = "linked" => /\ job.id \in 1 .. published
                              /\ \A i \in DOMAIN receipts : i < job.id
    /\ job.step \in CopySteps \cup RemovalSteps => job.id \in Ids

\* Nothing a snapshot names is deleted before it is captured.
CaptureOK == job.step = "snapshot" => job.snap \subseteq disk

\* Archives are verified in the order of their identities, and a scheduled
\* backup is under way only when none of them is of this day.
OrderOK ==
    /\ \A i \in DOMAIN receipts : receipts[i].verified <= day
    /\ \A i, j \in DOMAIN receipts : i < j => receipts[i].verified <= receipts[j].verified
    /\ job.by = "schedule" /\ job.step \in BackupSteps =>
          \A i \in Verified : receipts[i].verified < day

\* What retention removes is followed by a verified archive.
PruneOK ==
    /\ job.step \in PruneSteps => \A i \in job.todo : Ahead(i)
    /\ job.step \in RemovalSteps => Ahead(job.id)

\* The type invariant, by what it is about.
StoreTyped ==
    refs \subseteq disk /\ disk \subseteq Blobs /\ held \in [Writers -> SUBSET disk]
ArchivesTyped ==
    /\ published \in 0 .. MaxArchives /\ rotten \subseteq 1 .. published
    /\ archives \subseteq 1 .. published
ReceiptsTyped ==
    /\ DOMAIN receipts \subseteq 1 .. published
    /\ \A i \in DOMAIN receipts : receipts[i] \in Receipt
RemoteTyped == remote \in [Ids -> {"none", "bad", "whole"}] /\ attempted \in Seq(Ids)
ClockTyped == day \in Days /\ tick \in Ticks

BackupInv ==
    /\ StoreTyped /\ ArchivesTyped /\ ReceiptsTyped /\ RemoteTyped /\ ClockTyped
    /\ job \in Job /\ JobOK /\ CaptureOK /\ OrderOK /\ PruneOK /\ NoRedundantBackup

\* Before the loss nothing is restored; afterwards the marker tells how far
\* the target is.
TargetOK ==
    /\ restored \in BOOLEAN /\ revoked \in BOOLEAN /\ serving \in BOOLEAN
    /\ files \subseteq Blobs
    /\ restoring \in {"none", "claimed", "files", "database"}
    /\ activating \in {"none", "read", "revoked"}
    /\ marker \in {"none", "claimed", "incomplete", "data-restored"}
    /\ ~Lost => marker = "none" /\ files = {} /\ ~restored
    /\ restoring = "claimed" => marker = "claimed" /\ ~restored
    /\ restoring = "files" => marker = "incomplete" /\ ~restored
    /\ restoring = "database" => marker = "incomplete" /\ restored /\ files = Blobs
    /\ activating # "none" => marker = "data-restored"
    /\ activating = "revoked" => revoked
    /\ marker = "data-restored" => restored /\ files = Blobs
    /\ marker = "none" => \/ files = {} /\ ~restored
                          \/ restored /\ revoked /\ files = Blobs
    /\ serving => marker = "none" /\ restored

FullInv == BackupInv /\ TargetOK

-----------------------------------------------------------------------------
LEMMA Bounds ==
    /\ MaxDays \in Nat /\ MaxDays > 0 /\ Retention \in Nat
    /\ MaxEvents \in Nat /\ MaxArchives \in Nat /\ MaxTries \in Nat
BY BackupAssumption

(* The last of a set of identities.                                         *)

LEMMA HasLeast ==
    ASSUME NEW S \in SUBSET Nat, S # {}
    PROVE  \E m \in S : \A x \in S : m <= x
<1> DEFINE R == OpToRel(<, Nat)
<1>1. IsWellFoundedOn(R, Nat)
  BY NatLessThanWellFounded
<1>2. \A x, y \in Nat : x < y => <<x, y>> \in R
  BY Zenon DEF OpToRel
<1> HIDE DEF R
<1>3. PICK m \in S : \A x \in S : <<x, m>> \notin R
  BY <1>1, WFMin
<1>4. \A x \in S : ~(x < m)
  BY <1>2, <1>3
<1>5. \A x \in S : m <= x
  BY <1>4
<1> QED
  BY <1>5

LEMMA MaxIsLast ==
    ASSUME NEW n \in Nat, NEW S \in SUBSET (1 .. n), S # {}
    PROVE  Max(S) \in S /\ \A x \in S : x <= Max(S)
<1> DEFINE T == {n - x : x \in S}
<1>1. \A x \in S : x \in 1 .. n
  OBVIOUS
<1>2. \A x \in 1 .. n : n - x \in Nat
  OBVIOUS
<1>3. T \in SUBSET Nat /\ T # {}
  BY <1>1, <1>2
<1>4. PICK m \in T : \A t \in T : m <= t
  BY <1>3, HasLeast
<1>5. PICK y \in S : m = n - y
  BY <1>4
<1>6. \A x \in S : y >= x
  BY <1>1, <1>4, <1>5
<1> QED
  BY <1>6 DEF Max

(* The verified archives have identities that were given.                   *)
LEMMA VerifiedAreGiven ==
    ASSUME BackupInv
    PROVE  Verified \in SUBSET (1 .. published) /\ Verified \in SUBSET Ids
<1>1. Verified \subseteq archives
  BY Zenon DEF Verified
<1>2. archives \subseteq 1 .. published /\ published \in 0 .. MaxArchives
  BY DEF BackupInv, ArchivesTyped
<1>3. 1 .. published \subseteq Ids
  BY <1>2, Bounds DEF Ids
<1> QED
  BY <1>1, <1>2, <1>3

LEMMA LatestVerified ==
    ASSUME BackupInv, Verified # {}
    PROVE  Max(Verified) \in Verified /\ \A i \in Verified : i <= Max(Verified)
<1>1. published \in Nat /\ Verified \in SUBSET (1 .. published)
  BY Bounds, VerifiedAreGiven DEF BackupInv, ArchivesTyped
<1> QED
  BY <1>1, MaxIsLast

LEMMA NoJobIsIdle ==
    NoJob \in Job /\ NoJob.step = "none" /\ NoJob.by = "nobody"
BY Bounds DEF NoJob, Job


LEMMA PutIs ==
    ASSUME NEW f, NEW i, NEW v
    PROVE  /\ DOMAIN Put(f, i, v) = DOMAIN f \cup {i}
           /\ Put(f, i, v)[i] = v
           /\ \A j \in DOMAIN f : j # i => Put(f, i, v)[j] = f[j]
BY DEF Put

LEMMA DropIs ==
    ASSUME NEW f, NEW i
    PROVE  /\ DOMAIN Drop(f, i) = DOMAIN f \ {i}
           /\ \A j \in DOMAIN f \ {i} : Drop(f, i)[j] = f[j]
BY DEF Drop

LEMMA OthersTyped ==
    ASSUME attempted \in Seq(Ids), NEW i \in Ids
    PROVE  Others(i) \in Seq(Ids) /\ Append(Others(i), i) \in Seq(Ids)
<1>1. CASE LastAttempt(i) = 0
  BY <1>1, AppendProperties DEF Others
<1>2. CASE LastAttempt(i) # 0
  <2> DEFINE k == LastAttempt(i)
  <2>1. \E n \in DOMAIN attempted : attempted[n] = i
    BY <1>2 DEF LastAttempt, Contains
  <2>2. k \in DOMAIN attempted
    BY <1>2, <2>1 DEF LastAttempt
  <2>3. Others(i) = SubSeq(attempted, 1, k - 1) \o SubSeq(attempted, k + 1, Len(attempted))
    BY <1>2 DEF Others, RemoveAt
  <2>4. /\ SubSeq(attempted, 1, k - 1) \in Seq(Ids)
        /\ SubSeq(attempted, k + 1, Len(attempted)) \in Seq(Ids)
    BY <2>2, SubSeqProperties
  <2>5. Others(i) \in Seq(Ids)
    BY <2>3, <2>4, ConcatProperties
  <2> QED
    BY <2>5, AppendProperties
<1> QED
  BY <1>1, <1>2

(* What has an archive ahead of it is never the last one.                   *)
LEMMA AheadOfRemoved ==
    ASSUME BackupInv, NEW r \in Ids, Ahead(r), Verified \ {r} \subseteq Verified',
           NEW i \in Ids, Ahead(i)
    PROVE  Ahead(i)'
<1>1. (\A k \in Verified : k \in Nat) /\ (\A k \in Ids : k \in Nat)
  BY VerifiedAreGiven DEF Ids
<1>2. PICK k \in Verified : r < k
  BY DEF Ahead
<1>3. PICK n \in Verified : i < n
  BY DEF Ahead
<1>4. CASE n = r
  <2>1. k \in Nat /\ r \in Nat /\ i \in Nat /\ i < r /\ r < k
    BY <1>1, <1>2, <1>3, <1>4
  <2>2. k # r /\ i < k
    BY <2>1
  <2> QED
    BY <1>2, <2>2 DEF Ahead
<1>5. CASE n # r
  BY <1>3, <1>5 DEF Ahead
<1> QED
  BY <1>4, <1>5

LEMMA StoreKeeps ==
    ASSUME BackupInv, StoreStep
    PROVE  BackupInv'
<1>1. ArchivesTyped' /\ ReceiptsTyped' /\ RemoteTyped' /\ ClockTyped' /\ (job \in Job)' /\ JobOK' /\ OrderOK' /\ PruneOK' /\ NoRedundantBackup'
  BY DEF BackupInv, ArchivesTyped, ReceiptsTyped, RemoteTyped, ClockTyped, JobOK, OrderOK, PruneOK, NoRedundantBackup, Lost, Ahead, Verified,
         StoreStep, Write, EndWrite, Unreference, Collect, storeVars, catalogueVars, envVars
<1>2. StoreTyped'
  <2>1. CASE \E w \in Writers : EndWrite(w)
    BY <2>1 DEF BackupInv, StoreTyped, EndWrite
  <2>2. CASE \E w \in Writers, b \in Blobs : Write(w, b)
    BY <2>2 DEF BackupInv, StoreTyped, Write
  <2>3. CASE \E b \in Blobs : Unreference(b)
    BY <2>3 DEF BackupInv, StoreTyped, Unreference
  <2>4. CASE \E b \in Blobs : Collect(b)
    <3>1. \A w \in Writers : held[w] = {}
      BY <2>4 DEF Collect, CollectFree, Writing
    <3> QED
      BY <2>4, <3>1 DEF BackupInv, StoreTyped, Collect
  <2> QED
    BY <2>1, <2>2, <2>3, <2>4 DEF StoreStep
<1>3. CaptureOK'
  BY Bounds, NoJobIsIdle DEF BackupInv, CaptureOK, Job, CollectFree, FilesHeld, StoreStep, Write, EndWrite, Unreference, Collect, storeVars, catalogueVars, envVars
<1> QED
  BY <1>1, <1>2, <1>3 DEF BackupInv

LEMMA TickKeeps ==
    ASSUME BackupInv, Tick
    PROVE  BackupInv'
<1>1. StoreTyped' /\ ArchivesTyped' /\ ReceiptsTyped' /\ RemoteTyped' /\ (job \in Job)' /\ CaptureOK' /\ OrderOK' /\ PruneOK' /\ NoRedundantBackup'
  BY DEF BackupInv, StoreTyped, ArchivesTyped, ReceiptsTyped, RemoteTyped, CaptureOK, OrderOK, PruneOK, NoRedundantBackup, Lost, Ahead, Verified,
         Tick, storeVars, catalogueVars, envVars
<1>2. ClockTyped'
  BY Bounds, NoJobIsIdle DEF BackupInv, ClockTyped, Ticks, Days, Tick, storeVars, catalogueVars, envVars
<1>3. JobOK'
  BY Bounds, NoJobIsIdle DEF BackupInv, JobOK, Job, Lost, CaptureSteps, CopySteps, RemovalSteps, PruneSteps, Tick, storeVars, catalogueVars, envVars
<1> QED
  BY <1>1, <1>2, <1>3 DEF BackupInv

LEMMA StartScheduledKeeps ==
    ASSUME BackupInv, StartScheduled
    PROVE  BackupInv'
<1>1. StoreTyped' /\ ArchivesTyped' /\ ReceiptsTyped' /\ RemoteTyped' /\ NoRedundantBackup'
  BY DEF BackupInv, StoreTyped, ArchivesTyped, ReceiptsTyped, RemoteTyped, NoRedundantBackup, Lost, Ahead, Verified,
         StartScheduled, storeVars, catalogueVars, envVars
<1>2. ClockTyped'
  BY Bounds, NoJobIsIdle DEF BackupInv, ClockTyped, Ticks, Days, StartScheduled, storeVars, catalogueVars, envVars
<1>3. (job \in Job)'
  BY Bounds, NoJobIsIdle DEF BackupInv, Job, PruneSteps, Ids, StartScheduled, storeVars, catalogueVars, envVars
<1>4. JobOK'
  BY Bounds, NoJobIsIdle DEF BackupInv, JobOK, Job, Lost, CaptureSteps, CopySteps, RemovalSteps, PruneSteps, StartScheduled, storeVars, catalogueVars, envVars
<1>5. CaptureOK'
  BY Bounds, NoJobIsIdle DEF BackupInv, CaptureOK, Job, StartScheduled, storeVars, catalogueVars, envVars
<1>6. OrderOK'
  <2>1. CASE StillDue
    <3>1. \A i \in Verified : receipts[i].verified < day
      <4>1. CASE Verified = {}
        BY <4>1
      <4>2. CASE Verified # {}
        <5> DEFINE m == Max(Verified)
        <5>1. m \in Verified /\ \A i \in Verified : i <= m
          BY <4>2, LatestVerified
        <5>2. receipts[m].verified < day
          BY <2>1, <4>2 DEF StillDue, Due
        <5>3. \A i \in Verified : receipts[i].verified \in Nat /\ i \in Nat
          BY Bounds DEF BackupInv, ReceiptsTyped, Receipt, Verified, Days, ArchivesTyped
        <5>4. day \in Nat
          BY Bounds DEF BackupInv, ClockTyped, Days
        <5> HIDE DEF m
        <5>5. \A i \in Verified : i # m => receipts[i].verified <= receipts[m].verified
          BY <5>1, <5>3 DEF BackupInv, OrderOK, Verified
        <5> QED
          BY <5>1, <5>2, <5>3, <5>4, <5>5
      <4> QED
        BY <4>1, <4>2
    <3>2. UNCHANGED <<receipts, archives, rotten, day>> /\ Verified' = Verified
      BY DEF StartScheduled, storeVars, catalogueVars, envVars, Verified
    <3> QED
      BY <3>1, <3>2 DEF BackupInv, OrderOK
  <2>2. CASE ~StillDue
    BY <2>2 DEF BackupInv, OrderOK, Verified, StartScheduled, storeVars, catalogueVars, envVars
  <2> QED
    BY <2>1, <2>2
<1>7. PruneOK'
  BY Bounds, NoJobIsIdle DEF BackupInv, PruneOK, Job, PruneSteps, RemovalSteps, Ahead, Verified, StartScheduled, storeVars, catalogueVars, envVars
<1> QED
  BY <1>1, <1>2, <1>3, <1>4, <1>5, <1>6, <1>7 DEF BackupInv

LEMMA StartManualKeeps ==
    ASSUME BackupInv, StartManual
    PROVE  BackupInv'
<1>1. StoreTyped' /\ ArchivesTyped' /\ ReceiptsTyped' /\ RemoteTyped' /\ ClockTyped' /\ NoRedundantBackup'
  BY DEF BackupInv, StoreTyped, ArchivesTyped, ReceiptsTyped, RemoteTyped, ClockTyped, NoRedundantBackup, Lost, Ahead, Verified,
         StartManual, storeVars, catalogueVars, envVars
<1>2. (job \in Job)'
  BY Bounds, NoJobIsIdle DEF BackupInv, Job, PruneSteps, Ids, StartManual, storeVars, catalogueVars, envVars
<1>3. JobOK'
  BY Bounds, NoJobIsIdle DEF BackupInv, JobOK, Job, Lost, CaptureSteps, CopySteps, RemovalSteps, PruneSteps, StartManual, storeVars, catalogueVars, envVars
<1>4. CaptureOK'
  BY Bounds, NoJobIsIdle DEF BackupInv, CaptureOK, Job, StartManual, storeVars, catalogueVars, envVars
<1>5. OrderOK'
  BY Bounds, NoJobIsIdle DEF BackupInv, OrderOK, Job, BackupSteps, CaptureSteps, PruneSteps, Verified, StartManual, storeVars, catalogueVars, envVars
<1>6. PruneOK'
  BY Bounds, NoJobIsIdle DEF BackupInv, PruneOK, Job, PruneSteps, RemovalSteps, Ahead, Verified, StartManual, storeVars, catalogueVars, envVars
<1> QED
  BY <1>1, <1>2, <1>3, <1>4, <1>5, <1>6 DEF BackupInv

LEMMA HoldFilesKeeps ==
    ASSUME BackupInv, HoldFiles
    PROVE  BackupInv'
<1>1. StoreTyped' /\ ArchivesTyped' /\ ReceiptsTyped' /\ RemoteTyped' /\ ClockTyped' /\ NoRedundantBackup'
  BY DEF BackupInv, StoreTyped, ArchivesTyped, ReceiptsTyped, RemoteTyped, ClockTyped, NoRedundantBackup, Lost, Ahead, Verified,
         HoldFiles, storeVars, catalogueVars, envVars
<1>2. (job \in Job)'
  BY Bounds, NoJobIsIdle DEF BackupInv, Job, PruneSteps, Ids, HoldFiles, storeVars, catalogueVars, envVars
<1>3. JobOK'
  BY Bounds, NoJobIsIdle DEF BackupInv, JobOK, Job, Lost, CaptureSteps, CopySteps, RemovalSteps, PruneSteps, HoldFiles, storeVars, catalogueVars, envVars
<1>4. CaptureOK'
  BY Bounds, NoJobIsIdle DEF BackupInv, CaptureOK, Job, HoldFiles, storeVars, catalogueVars, envVars
<1>5. OrderOK'
  BY Bounds, NoJobIsIdle DEF BackupInv, OrderOK, Job, BackupSteps, CaptureSteps, PruneSteps, Verified, HoldFiles, storeVars, catalogueVars, envVars
<1>6. PruneOK'
  BY Bounds, NoJobIsIdle DEF BackupInv, PruneOK, Job, PruneSteps, RemovalSteps, Ahead, Verified, HoldFiles, storeVars, catalogueVars, envVars
<1> QED
  BY <1>1, <1>2, <1>3, <1>4, <1>5, <1>6 DEF BackupInv

LEMMA OpenSnapshotKeeps ==
    ASSUME BackupInv, OpenSnapshot
    PROVE  BackupInv'
<1>1. StoreTyped' /\ ArchivesTyped' /\ ReceiptsTyped' /\ RemoteTyped' /\ ClockTyped' /\ NoRedundantBackup'
  BY DEF BackupInv, StoreTyped, ArchivesTyped, ReceiptsTyped, RemoteTyped, ClockTyped, NoRedundantBackup, Lost, Ahead, Verified,
         OpenSnapshot, storeVars, catalogueVars, envVars
<1>2. (job \in Job)'
  <2>1. refs \in SUBSET Blobs /\ day \in 0 .. MaxDays
    BY Bounds DEF BackupInv, StoreTyped, ClockTyped, Days
  <2> QED
    BY <2>1 DEF BackupInv, Job, OpenSnapshot
<1>3. JobOK'
  BY Bounds, NoJobIsIdle DEF BackupInv, JobOK, Job, Lost, CaptureSteps, CopySteps, RemovalSteps, PruneSteps, ClockTyped, OpenSnapshot, storeVars, catalogueVars, envVars
<1>4. CaptureOK'
  BY Bounds, NoJobIsIdle DEF BackupInv, CaptureOK, Job, StoreTyped, OpenSnapshot, storeVars, catalogueVars, envVars
<1>5. OrderOK'
  BY Bounds, NoJobIsIdle DEF BackupInv, OrderOK, Job, BackupSteps, CaptureSteps, PruneSteps, Verified, OpenSnapshot, storeVars, catalogueVars, envVars
<1>6. PruneOK'
  BY Bounds, NoJobIsIdle DEF BackupInv, PruneOK, Job, PruneSteps, RemovalSteps, Ahead, Verified, OpenSnapshot, storeVars, catalogueVars, envVars
<1> QED
  BY <1>1, <1>2, <1>3, <1>4, <1>5, <1>6 DEF BackupInv

LEMMA CaptureKeeps ==
    ASSUME BackupInv, Capture
    PROVE  BackupInv'
<1>1. StoreTyped' /\ ArchivesTyped' /\ ReceiptsTyped' /\ RemoteTyped' /\ NoRedundantBackup'
  BY DEF BackupInv, StoreTyped, ArchivesTyped, ReceiptsTyped, RemoteTyped, NoRedundantBackup, Lost, Ahead, Verified,
         Capture, FailedTick, storeVars, catalogueVars, envVars
<1>2. ClockTyped'
  BY Bounds, NoJobIsIdle DEF BackupInv, ClockTyped, Ticks, Days, Capture, FailedTick, storeVars, catalogueVars, envVars
<1>3. (job \in Job)'
  BY Bounds, NoJobIsIdle DEF BackupInv, Job, PruneSteps, Ids, Capture, FailedTick, storeVars, catalogueVars, envVars
<1>4. JobOK'
  BY Bounds, NoJobIsIdle DEF BackupInv, JobOK, Job, Lost, CaptureSteps, CopySteps, RemovalSteps, PruneSteps, Capture, FailedTick, storeVars, catalogueVars, envVars
<1>5. CaptureOK'
  <2>1. job.snap \ disk = {} \/ job' = NoJob
    BY DEF Capture
  <2>2. CASE job.snap \subseteq disk
    <3>1. job'.step = "captured"
      BY <2>2 DEF BackupInv, Job, Capture
    <3> QED
      BY <3>1 DEF BackupInv, CaptureOK, Capture, storeVars, catalogueVars
  <2>3. CASE ~(job.snap \subseteq disk)
    BY <2>3, NoJobIsIdle DEF BackupInv, CaptureOK, Capture, storeVars, catalogueVars
  <2> QED
    BY <2>2, <2>3
<1>6. OrderOK'
  BY Bounds, NoJobIsIdle DEF BackupInv, OrderOK, Job, BackupSteps, CaptureSteps, PruneSteps, Verified, Capture, FailedTick, storeVars, catalogueVars, envVars
<1>7. PruneOK'
  BY Bounds, NoJobIsIdle DEF BackupInv, PruneOK, Job, PruneSteps, RemovalSteps, Ahead, Verified, Capture, FailedTick, storeVars, catalogueVars, envVars
<1> QED
  BY <1>1, <1>2, <1>3, <1>4, <1>5, <1>6, <1>7 DEF BackupInv

LEMMA LinkKeeps ==
    ASSUME BackupInv, Link
    PROVE  BackupInv'
<1>1. StoreTyped' /\ RemoteTyped' /\ ClockTyped'
  BY DEF BackupInv, StoreTyped, RemoteTyped, ClockTyped, Lost, Ahead, Verified,
         Link, Put, storeVars, catalogueVars, envVars
<1>2. ArchivesTyped'
  <2>1. published \in Nat /\ published + 1 \in 1 .. MaxArchives
    BY Bounds DEF BackupInv, ArchivesTyped, Link
  <2>2. archives' = archives \cup {published + 1}
    BY DEF Link
  <2>3. published + 1 \notin archives
    BY <2>1 DEF BackupInv, ArchivesTyped
  <2>7. published' = published + 1 /\ rotten' = rotten
    BY DEF Link
  <2>8. archives' \subseteq 1 .. published' /\ rotten' \subseteq 1 .. published'
    BY <2>1, <2>2, <2>7 DEF BackupInv, ArchivesTyped
  <2> QED
    BY Bounds, <2>1, <2>7, <2>8 DEF BackupInv, ArchivesTyped
<1>3. ReceiptsTyped'
  <2>1. published \in Nat /\ published + 1 \in 1 .. MaxArchives
    BY Bounds DEF BackupInv, ArchivesTyped, Link

  <2> QED
    BY <2>1 DEF BackupInv, ReceiptsTyped, Link
<1>4. (job \in Job)'
  <2>1. published \in Nat /\ published + 1 \in 1 .. MaxArchives
    BY Bounds DEF BackupInv, ArchivesTyped, Link

  <2>2. published + 1 \in 0 .. MaxArchives
    BY <2>1
  <2>3. job' = [job EXCEPT !.step = "linked", !.id = published + 1]
    BY DEF Link
  <2> QED
    BY <2>2, <2>3 DEF BackupInv, Job
<1>5. JobOK'
  <2>1. published \in Nat /\ published + 1 \in 1 .. MaxArchives
    BY Bounds DEF BackupInv, ArchivesTyped, Link

  <2>2. job'.id = published + 1 /\ job'.step = "linked" /\ job'.by = job.by /\ job'.created = job.created
    BY DEF BackupInv, Job, Link
  <2>3. \A i \in DOMAIN receipts : i < published + 1
    BY <2>1 DEF BackupInv, ReceiptsTyped
  <2> QED
    BY <2>1, <2>2, <2>3, NoJobIsIdle
    DEF BackupInv, JobOK, CaptureSteps, CopySteps, RemovalSteps, Lost, Link
<1>6. CaptureOK'
  BY DEF BackupInv, Job, CaptureOK, Link
<1>7. OrderOK'
  <2>1. published \in Nat /\ published + 1 \in 1 .. MaxArchives
    BY Bounds DEF BackupInv, ArchivesTyped, Link
  <2>2. archives' = archives \cup {published + 1}
    BY DEF Link
  <2>3. published + 1 \notin archives
    BY <2>1 DEF BackupInv, ArchivesTyped
  <2>5. published + 1 \notin DOMAIN receipts /\ UNCHANGED <<receipts, rotten, day>>
    BY <2>1 DEF BackupInv, ReceiptsTyped, Link
  <2>6. Verified' = Verified
    BY <2>2, <2>5 DEF Verified

  <2>7. job'.step \in BackupSteps /\ job.step \in BackupSteps /\ job'.by = job.by
    BY DEF BackupInv, Job, Link, BackupSteps, CaptureSteps
  <2> QED
    BY <2>5, <2>6, <2>7 DEF BackupInv, OrderOK
<1>8. PruneOK'
  BY Bounds, NoJobIsIdle DEF BackupInv, PruneOK, Job, PruneSteps, RemovalSteps, Ahead, Verified, Link, Put, storeVars, catalogueVars, envVars
<1>9. NoRedundantBackup'
  <2>1. published \in Nat /\ published + 1 \in 1 .. MaxArchives
    BY Bounds DEF BackupInv, ArchivesTyped, Link
  <2>2. archives' = archives \cup {published + 1}
    BY DEF Link
  <2>3. published + 1 \notin archives
    BY <2>1 DEF BackupInv, ArchivesTyped
  <2>5. published + 1 \notin DOMAIN receipts /\ UNCHANGED <<receipts, rotten, day>>
    BY <2>1 DEF BackupInv, ReceiptsTyped, Link
  <2>6. Verified' = Verified
    BY <2>2, <2>5 DEF Verified

  <2> QED
    BY <2>5, <2>6 DEF BackupInv, NoRedundantBackup
<1> QED
  BY <1>1, <1>2, <1>3, <1>4, <1>5, <1>6, <1>7, <1>8, <1>9 DEF BackupInv

LEMMA CatalogueKeeps ==
    ASSUME BackupInv, Catalogue
    PROVE  BackupInv'
<1>1. StoreTyped' /\ ArchivesTyped' /\ RemoteTyped' /\ ClockTyped'
  BY DEF BackupInv, StoreTyped, ArchivesTyped, RemoteTyped, ClockTyped, Lost, Ahead, Verified,
         Catalogue, Put, storeVars, catalogueVars, envVars
<1>2. ReceiptsTyped'
  <2> DEFINE new == [created |-> job.created, verified |-> day,
                     reason |-> IF job.by = "schedule" THEN "scheduled" ELSE "manual",
                     remote |-> "pending", tries |-> 0]
  <2>1. /\ job.id \in 1 .. published /\ \A i \in DOMAIN receipts : i < job.id
        /\ job.created \in Days
    BY DEF BackupInv, JobOK, CaptureSteps, Catalogue
  <2>a. receipts' = Put(receipts, job.id, new)
    BY DEF Catalogue
  <2>b. \A i \in DOMAIN receipts : i # job.id
    BY <2>1, Bounds DEF BackupInv, ArchivesTyped
  <2>2. /\ DOMAIN receipts' = DOMAIN receipts \cup {job.id} /\ receipts'[job.id] = new
        /\ \A i \in DOMAIN receipts : receipts'[i] = receipts[i]
    BY <2>a, <2>b DEF Put

  <2>3. 0 \in 0 .. MaxTries /\ day \in Days
    BY Bounds DEF BackupInv, ClockTyped
  <2>4. new \in Receipt
    BY <2>1, <2>3 DEF Receipt
  <2> HIDE DEF new
  <2>5. published' = published
    BY DEF Catalogue, envVars
  <2> QED
    BY <2>1, <2>2, <2>4, <2>5 DEF BackupInv, ReceiptsTyped
<1>3. (job \in Job)'
  <2>1. 0 \in 0 .. MaxDays
    BY Bounds
  <2>2. job' = [job EXCEPT !.step = "catalogued", !.created = 0]
    BY DEF Catalogue
  <2> QED
    BY <2>1, <2>2 DEF BackupInv, Job
<1>4. JobOK'
  <2> DEFINE new == [created |-> job.created, verified |-> day,
                     reason |-> IF job.by = "schedule" THEN "scheduled" ELSE "manual",
                     remote |-> "pending", tries |-> 0]
  <2>1. /\ job.id \in 1 .. published /\ \A i \in DOMAIN receipts : i < job.id
        /\ job.created \in Days
    BY DEF BackupInv, JobOK, CaptureSteps, Catalogue
  <2>a. receipts' = Put(receipts, job.id, new)
    BY DEF Catalogue
  <2>b. \A i \in DOMAIN receipts : i # job.id
    BY <2>1, Bounds DEF BackupInv, ArchivesTyped
  <2>2. /\ DOMAIN receipts' = DOMAIN receipts \cup {job.id} /\ receipts'[job.id] = new
        /\ \A i \in DOMAIN receipts : receipts'[i] = receipts[i]
    BY <2>a, <2>b DEF Put

  <2>3. job.id \in Ids
    BY Bounds, <2>1 DEF BackupInv, ArchivesTyped, Ids
  <2>4. job'.step = "catalogued" /\ job'.id = job.id /\ job'.by = job.by
    BY DEF BackupInv, Job, Catalogue
  <2> QED
    BY <2>3, <2>4, NoJobIsIdle
    DEF BackupInv, JobOK, CaptureSteps, CopySteps, RemovalSteps, Lost, Catalogue
<1>5. CaptureOK'
  BY Bounds, NoJobIsIdle DEF BackupInv, CaptureOK, Job, Catalogue, Put, storeVars, catalogueVars, envVars
<1>6. OrderOK'
  <2> DEFINE new == [created |-> job.created, verified |-> day,
                     reason |-> IF job.by = "schedule" THEN "scheduled" ELSE "manual",
                     remote |-> "pending", tries |-> 0]
  <2>1. /\ job.id \in 1 .. published /\ \A i \in DOMAIN receipts : i < job.id
        /\ job.created \in Days
    BY DEF BackupInv, JobOK, CaptureSteps, Catalogue
  <2>a. receipts' = Put(receipts, job.id, new)
    BY DEF Catalogue
  <2>b. \A i \in DOMAIN receipts : i # job.id
    BY <2>1, Bounds DEF BackupInv, ArchivesTyped
  <2>2. /\ DOMAIN receipts' = DOMAIN receipts \cup {job.id} /\ receipts'[job.id] = new
        /\ \A i \in DOMAIN receipts : receipts'[i] = receipts[i]
    BY <2>a, <2>b DEF Put

  <2>3. Verified' \subseteq Verified \cup {job.id} /\ Verified \subseteq DOMAIN receipts
    BY <2>2 DEF Verified, Catalogue
  <2>4. /\ published \in Nat /\ day \in Nat
        /\ \A i \in DOMAIN receipts : i \in Nat /\ receipts[i].verified \in Nat
    BY Bounds DEF BackupInv, ArchivesTyped, ReceiptsTyped, Receipt, ClockTyped, Days

  <2>5. job'.step = "catalogued"
    BY DEF BackupInv, Job, Catalogue
  <2>6. /\ new.verified = day /\ day' = day
        /\ \A i \in DOMAIN receipts : receipts[i].verified <= day
    BY DEF BackupInv, OrderOK, Catalogue, envVars
  <2> HIDE DEF new
  <2>7. \A i \in DOMAIN receipts' : receipts'[i].verified <= day'
    BY <2>2, <2>4, <2>6
  <2>8. ASSUME NEW i \in DOMAIN receipts', NEW j \in DOMAIN receipts', i < j
        PROVE  receipts'[i].verified <= receipts'[j].verified
    BY <2>1, <2>2, <2>4, <2>6, <2>8 DEF BackupInv, OrderOK
  <2> QED
    BY <2>5, <2>7, <2>8 DEF OrderOK, BackupSteps, CaptureSteps
<1>7. PruneOK'
  BY Bounds, NoJobIsIdle DEF BackupInv, PruneOK, Job, PruneSteps, RemovalSteps, Ahead, Verified, Catalogue, Put, storeVars, catalogueVars, envVars
<1>8. NoRedundantBackup'
  <2> DEFINE new == [created |-> job.created, verified |-> day,
                     reason |-> IF job.by = "schedule" THEN "scheduled" ELSE "manual",
                     remote |-> "pending", tries |-> 0]
  <2>1. /\ job.id \in 1 .. published /\ \A i \in DOMAIN receipts : i < job.id
        /\ job.created \in Days
    BY DEF BackupInv, JobOK, CaptureSteps, Catalogue
  <2>a. receipts' = Put(receipts, job.id, new)
    BY DEF Catalogue
  <2>b. \A i \in DOMAIN receipts : i # job.id
    BY <2>1, Bounds DEF BackupInv, ArchivesTyped
  <2>2. /\ DOMAIN receipts' = DOMAIN receipts \cup {job.id} /\ receipts'[job.id] = new
        /\ \A i \in DOMAIN receipts : receipts'[i] = receipts[i]
    BY <2>a, <2>b DEF Put

  <2>3. Verified' \subseteq Verified \cup {job.id} /\ Verified \subseteq DOMAIN receipts
    BY <2>2 DEF Verified, Catalogue
  <2>4. /\ published \in Nat /\ day \in Nat
        /\ \A i \in DOMAIN receipts : i \in Nat /\ receipts[i].verified \in Nat
    BY Bounds DEF BackupInv, ArchivesTyped, ReceiptsTyped, Receipt, ClockTyped, Days

  <2>5. new.verified = day /\ (new.reason = "scheduled" => job.by = "schedule")
    OBVIOUS
  <2> HIDE DEF new
  <2>6. ASSUME NEW i \in Verified', NEW j \in Verified', i < j, receipts'[j].reason = "scheduled"
        PROVE  receipts'[i].verified < receipts'[j].verified
    <3>1. CASE j = job.id
      <4>1. i \in Verified
        BY <2>1, <2>3, <2>4, <2>6, <3>1
      <4>2. receipts[i].verified < day
        BY <2>2, <2>5, <2>6, <3>1, <4>1 DEF BackupInv, OrderOK, Catalogue, BackupSteps, CaptureSteps
      <4> QED
        BY <2>2, <2>3, <2>5, <3>1, <4>1, <4>2
    <3>2. CASE j # job.id
      <4>1. i \in Verified /\ j \in Verified
        BY <2>1, <2>3, <2>4, <2>6, <3>2
      <4> QED
        BY <2>2, <2>3, <2>6, <4>1 DEF BackupInv, NoRedundantBackup
    <3> QED
      BY <3>1, <3>2
  <2> QED
    BY <2>6 DEF NoRedundantBackup
<1> QED
  BY <1>1, <1>2, <1>3, <1>4, <1>5, <1>6, <1>7, <1>8 DEF BackupInv

LEMMA CopyRemoteKeeps ==
    ASSUME BackupInv, CopyRemote
    PROVE  BackupInv'
<1>1. StoreTyped' /\ ArchivesTyped' /\ ReceiptsTyped' /\ ClockTyped' /\ NoRedundantBackup'
  BY DEF BackupInv, StoreTyped, ArchivesTyped, ReceiptsTyped, ClockTyped, NoRedundantBackup, Lost, Ahead, Verified,
         CopyRemote, storeVars, catalogueVars, envVars
<1>2. RemoteTyped'
  BY Bounds, NoJobIsIdle DEF BackupInv, RemoteTyped, CopyRemote, storeVars, catalogueVars, envVars
<1>3. (job \in Job)'
  BY Bounds, NoJobIsIdle DEF BackupInv, Job, PruneSteps, Ids, CopyRemote, storeVars, catalogueVars, envVars
<1>4. JobOK'
  BY Bounds, NoJobIsIdle DEF BackupInv, JobOK, Job, Lost, CaptureSteps, CopySteps, RemovalSteps, PruneSteps, CopyRemote, storeVars, catalogueVars, envVars
<1>5. CaptureOK'
  BY Bounds, NoJobIsIdle DEF BackupInv, CaptureOK, Job, CopyRemote, storeVars, catalogueVars, envVars
<1>6. OrderOK'
  BY Bounds, NoJobIsIdle DEF BackupInv, OrderOK, Job, BackupSteps, CaptureSteps, PruneSteps, Verified, CopyRemote, storeVars, catalogueVars, envVars
<1>7. PruneOK'
  BY Bounds, NoJobIsIdle DEF BackupInv, PruneOK, Job, PruneSteps, RemovalSteps, Ahead, Verified, CopyRemote, storeVars, catalogueVars, envVars
<1> QED
  BY <1>1, <1>2, <1>3, <1>4, <1>5, <1>6, <1>7 DEF BackupInv

LEMMA RecordCopyKeeps ==
    ASSUME BackupInv, RecordCopy
    PROVE  BackupInv'
<1>1. StoreTyped' /\ ArchivesTyped'
  BY DEF BackupInv, StoreTyped, ArchivesTyped, Lost, Ahead, Verified,
         RecordCopy, NextTick, After, storeVars, catalogueVars, envVars
<1>2. ReceiptsTyped'
  <2> DEFINE i == job.id
  <2>1. /\ DOMAIN receipts' = DOMAIN receipts
        /\ \A j \in DOMAIN receipts : j # i => receipts'[j] = receipts[j]
        /\ i \in DOMAIN receipts =>
             receipts'[i] = [receipts[i] EXCEPT
                !.remote = IF job.step = "copied" THEN "verified" ELSE "failed",
                !.tries = IF @ < MaxTries THEN @ + 1 ELSE MaxTries]
    BY DEF RecordCopy

  <2>2. ASSUME i \in DOMAIN receipts PROVE receipts'[i] \in Receipt
    <3>1. receipts[i] \in Receipt
      BY <2>2 DEF BackupInv, ReceiptsTyped
    <3>2. receipts[i].tries \in 0 .. MaxTries
      BY <3>1 DEF Receipt
    <3>3. (IF receipts[i].tries < MaxTries THEN receipts[i].tries + 1 ELSE MaxTries) \in 0 .. MaxTries
      BY <3>2, Bounds
    <3> QED
      BY <2>1, <2>2, <3>1, <3>3 DEF Receipt
  <2> QED
    BY <2>1, <2>2 DEF BackupInv, ReceiptsTyped, RecordCopy, envVars
<1>3. RemoteTyped'
  <2>1. job.id \in Ids
    BY DEF BackupInv, JobOK, CopySteps, RecordCopy
  <2> QED
    BY <2>1, OthersTyped DEF BackupInv, RemoteTyped, RecordCopy
<1>4. ClockTyped'
  <2> QED
    BY DEF BackupInv, ClockTyped, JobOK, Ticks, RecordCopy, NextTick, After, envVars
<1>5. (job \in Job)'
  BY Bounds, NoJobIsIdle DEF BackupInv, Job, PruneSteps, Ids, RecordCopy, NextTick, After, storeVars, catalogueVars, envVars
<1>6. JobOK'
  BY Bounds, NoJobIsIdle DEF BackupInv, JobOK, Job, Lost, CaptureSteps, CopySteps, RemovalSteps, PruneSteps, RecordCopy, NextTick, After, storeVars, catalogueVars, envVars
<1>7. CaptureOK'
  BY Bounds, NoJobIsIdle DEF BackupInv, CaptureOK, Job, RecordCopy, NextTick, After, storeVars, catalogueVars, envVars
<1>8. OrderOK'
  <2> DEFINE i == job.id
  <2>1. /\ DOMAIN receipts' = DOMAIN receipts
        /\ \A j \in DOMAIN receipts : j # i => receipts'[j] = receipts[j]
        /\ i \in DOMAIN receipts =>
             receipts'[i] = [receipts[i] EXCEPT
                !.remote = IF job.step = "copied" THEN "verified" ELSE "failed",
                !.tries = IF @ < MaxTries THEN @ + 1 ELSE MaxTries]
    BY DEF RecordCopy

  <2>2. \A j \in DOMAIN receipts : /\ receipts'[j].verified = receipts[j].verified
                                   /\ receipts'[j].reason = receipts[j].reason
    <3> SUFFICES ASSUME NEW j \in DOMAIN receipts
                 PROVE  /\ receipts'[j].verified = receipts[j].verified
                        /\ receipts'[j].reason = receipts[j].reason
      OBVIOUS
    <3>1. receipts[j] \in Receipt
      BY DEF BackupInv, ReceiptsTyped
    <3> QED
      BY <2>1, <3>1 DEF Receipt
  <2>3. Verified' = Verified /\ Verified \subseteq DOMAIN receipts
    BY <2>1 DEF Verified, RecordCopy

  <2> QED
    BY <2>1, <2>2, <2>3, NoJobIsIdle DEF BackupInv, OrderOK, RecordCopy, envVars
<1>9. PruneOK'
  BY Bounds, NoJobIsIdle DEF BackupInv, PruneOK, Job, PruneSteps, RemovalSteps, Ahead, Verified, RecordCopy, NextTick, After, storeVars, catalogueVars, envVars
<1>10. NoRedundantBackup'
  <2> DEFINE i == job.id
  <2>1. /\ DOMAIN receipts' = DOMAIN receipts
        /\ \A j \in DOMAIN receipts : j # i => receipts'[j] = receipts[j]
        /\ i \in DOMAIN receipts =>
             receipts'[i] = [receipts[i] EXCEPT
                !.remote = IF job.step = "copied" THEN "verified" ELSE "failed",
                !.tries = IF @ < MaxTries THEN @ + 1 ELSE MaxTries]
    BY DEF RecordCopy

  <2>2. \A j \in DOMAIN receipts : /\ receipts'[j].verified = receipts[j].verified
                                   /\ receipts'[j].reason = receipts[j].reason
    <3> SUFFICES ASSUME NEW j \in DOMAIN receipts
                 PROVE  /\ receipts'[j].verified = receipts[j].verified
                        /\ receipts'[j].reason = receipts[j].reason
      OBVIOUS
    <3>1. receipts[j] \in Receipt
      BY DEF BackupInv, ReceiptsTyped
    <3> QED
      BY <2>1, <3>1 DEF Receipt
  <2>3. Verified' = Verified /\ Verified \subseteq DOMAIN receipts
    BY <2>1 DEF Verified, RecordCopy

  <2> QED
    BY <2>2, <2>3 DEF BackupInv, NoRedundantBackup
<1> QED
  BY <1>1, <1>2, <1>3, <1>4, <1>5, <1>6, <1>7, <1>8, <1>9, <1>10 DEF BackupInv

LEMMA StartRetryKeeps ==
    ASSUME BackupInv, StartRetry
    PROVE  BackupInv'
<1>1. StoreTyped' /\ ArchivesTyped' /\ ReceiptsTyped' /\ RemoteTyped' /\ NoRedundantBackup'
  BY DEF BackupInv, StoreTyped, ArchivesTyped, ReceiptsTyped, RemoteTyped, NoRedundantBackup, Lost, Ahead, Verified,
         StartRetry, storeVars, catalogueVars, envVars
<1>2. ClockTyped'
  BY Bounds, NoJobIsIdle DEF BackupInv, ClockTyped, Ticks, Days, StartRetry, storeVars, catalogueVars, envVars
<1>3. (job \in Job)'
  <2>1. Pending \subseteq Ids
    BY Bounds DEF BackupInv, ArchivesTyped, ReceiptsTyped, Pending, Ids
  <2>2. \/ job' = job /\ tick' = "none"
        \/ /\ tick' = "retry"
           /\ \E i \in Ids : job' = [NoJob EXCEPT !.by = "schedule", !.step = "catalogued", !.id = i]
    BY <2>1 DEF StartRetry

  <2>3. ASSUME NEW i \in Ids
        PROVE  [NoJob EXCEPT !.by = "schedule", !.step = "catalogued", !.id = i] \in Job
    <3>1. 0 \in 0 .. MaxDays /\ i \in 0 .. MaxArchives
      BY Bounds DEF Ids
    <3> QED
      BY <3>1 DEF NoJob, Job
  <2> QED
    BY <2>2, <2>3 DEF BackupInv
<1>4. JobOK'
  <2>1. Pending \subseteq Ids
    BY Bounds DEF BackupInv, ArchivesTyped, ReceiptsTyped, Pending, Ids
  <2>2. \/ job' = job /\ tick' = "none"
        \/ /\ tick' = "retry"
           /\ \E i \in Ids : job' = [NoJob EXCEPT !.by = "schedule", !.step = "catalogued", !.id = i]
    BY <2>1 DEF StartRetry

  <2>3. CASE job' = job
    BY <2>2, <2>3, NoJobIsIdle
    DEF BackupInv, JobOK, CaptureSteps, CopySteps, RemovalSteps, Lost, StartRetry, catalogueVars, envVars
  <2>4. ASSUME NEW i \in Ids, tick' = "retry",
               job' = [NoJob EXCEPT !.by = "schedule", !.step = "catalogued", !.id = i]
        PROVE  JobOK'
    <3>1. job'.by = "schedule" /\ job'.step = "catalogued" /\ job'.id = i
      BY <2>4 DEF NoJob
    <3> QED
      BY <2>4, <3>1 DEF JobOK, CaptureSteps, CopySteps, RemovalSteps, Lost
  <2> QED
    BY <2>2, <2>3, <2>4
<1>5. CaptureOK'
  BY Bounds, NoJobIsIdle DEF BackupInv, CaptureOK, Job, StartRetry, storeVars, catalogueVars, envVars
<1>6. OrderOK'
  BY Bounds, NoJobIsIdle DEF BackupInv, OrderOK, Job, BackupSteps, CaptureSteps, PruneSteps, Verified, StartRetry, storeVars, catalogueVars, envVars
<1>7. PruneOK'
  BY Bounds, NoJobIsIdle DEF BackupInv, PruneOK, Job, PruneSteps, RemovalSteps, Ahead, Verified, StartRetry, storeVars, catalogueVars, envVars
<1> QED
  BY <1>1, <1>2, <1>3, <1>4, <1>5, <1>6, <1>7 DEF BackupInv

LEMMA StartPruneKeeps ==
    ASSUME BackupInv, StartPrune
    PROVE  BackupInv'
<1>1. StoreTyped' /\ ArchivesTyped' /\ ReceiptsTyped' /\ RemoteTyped' /\ ClockTyped' /\ NoRedundantBackup'
  BY DEF BackupInv, StoreTyped, ArchivesTyped, ReceiptsTyped, RemoteTyped, ClockTyped, NoRedundantBackup, Lost, Ahead, Verified,
         StartPrune, storeVars, catalogueVars, envVars
<1>2. (job \in Job)'
  <2>1. Verified \subseteq Ids
    BY VerifiedAreGiven DEF Ids
  <2>2. ASSUME NEW S \in SUBSET Ids
        PROVE  [NoJob EXCEPT !.by = "schedule", !.step = "pruning", !.todo = S] \in Job
    <3>1. 0 \in 0 .. MaxDays /\ 0 \in 0 .. MaxArchives /\ "pruning" \in PruneSteps
      BY Bounds DEF PruneSteps
    <3> QED
      BY <3>1 DEF NoJob, Job
  <2>3. \E S \in SUBSET Ids : job' = [NoJob EXCEPT !.by = "schedule", !.step = "pruning", !.todo = S]
    BY <2>1 DEF StartPrune
  <2> QED
    BY <2>2, <2>3
<1>3. JobOK'
  BY Bounds, NoJobIsIdle DEF BackupInv, JobOK, Job, Lost, CaptureSteps, CopySteps, RemovalSteps, PruneSteps, StartPrune, storeVars, catalogueVars, envVars
<1>4. CaptureOK'
  BY Bounds, NoJobIsIdle DEF BackupInv, CaptureOK, Job, StartPrune, storeVars, catalogueVars, envVars
<1>5. OrderOK'
  BY Bounds, NoJobIsIdle DEF BackupInv, OrderOK, Job, BackupSteps, CaptureSteps, PruneSteps, Verified, StartPrune, storeVars, catalogueVars, envVars
<1>6. PruneOK'
  <2>1. Verified \subseteq Ids
    BY VerifiedAreGiven DEF Ids
  <2>2. job'.step = "pruning" /\ job'.todo \subseteq Verified
        /\ (Verified # {} => job'.todo \subseteq Verified \ Kept)
    BY DEF StartPrune, NoJob

  <2>3. Verified' = Verified
    BY DEF Verified, StartPrune, catalogueVars
  <2>4. ASSUME NEW i \in job'.todo PROVE Ahead(i)
    <3>1. Verified # {} /\ i \in Verified /\ i # Max(Verified)
      BY <2>2, <2>4 DEF Kept
    <3>2. Max(Verified) \in Verified /\ i <= Max(Verified)
      BY <3>1, LatestVerified
    <3>3. \A k \in Verified : k \in Nat
      <4>1. \A k \in Ids : k \in Nat
        BY Bounds DEF Ids
      <4> QED
        BY <2>1, <4>1
    <3> QED
      BY <3>1, <3>2, <3>3 DEF Ahead
  <2> QED
    BY <2>2, <2>3, <2>4 DEF PruneOK, Ahead, RemovalSteps
<1> QED
  BY <1>1, <1>2, <1>3, <1>4, <1>5, <1>6 DEF BackupInv

LEMMA PruneRemoteKeeps ==
    ASSUME BackupInv, PruneRemote
    PROVE  BackupInv'
<1>1. StoreTyped' /\ ArchivesTyped' /\ ReceiptsTyped' /\ ClockTyped' /\ NoRedundantBackup'
  BY DEF BackupInv, StoreTyped, ArchivesTyped, ReceiptsTyped, ClockTyped, NoRedundantBackup, Lost, Ahead, Verified,
         PruneRemote, storeVars, catalogueVars, envVars
<1>2. RemoteTyped'
  <2> QED
    BY DEF BackupInv, RemoteTyped, PruneRemote
<1>3. (job \in Job)'
  <2> DEFINE i == Max(job.todo)
  <2>1. job.todo \in SUBSET Ids
    BY DEF BackupInv, Job
  <2>2. i \in job.todo /\ i \in Ids
    BY Bounds, <2>1, MaxIsLast DEF PruneRemote, Ids
  <2>3. \/ job' = [job EXCEPT !.todo = @ \ {i}, !.id = i, !.step = "remote-deleted"]
        \/ job' = [job EXCEPT !.todo = @ \ {i}]
    BY DEF PruneRemote

  <2> HIDE DEF i
  <2>4. job \in Job /\ i \in 0 .. MaxArchives /\ job.todo \ {i} \in SUBSET Ids
    BY Bounds, <2>1, <2>2 DEF BackupInv, Ids
  <2> QED
    BY <2>3, <2>4 DEF Job, PruneSteps
<1>4. JobOK'
  <2> DEFINE i == Max(job.todo)
  <2>1. job.todo \in SUBSET Ids
    BY DEF BackupInv, Job
  <2>2. i \in job.todo /\ i \in Ids
    BY Bounds, <2>1, MaxIsLast DEF PruneRemote, Ids
  <2>3. \/ job' = [job EXCEPT !.todo = @ \ {i}, !.id = i, !.step = "remote-deleted"]
        \/ job' = [job EXCEPT !.todo = @ \ {i}]
    BY DEF PruneRemote

  <2> HIDE DEF i
  <2>4. /\ job'.by = job.by /\ job'.todo = job.todo \ {i}
        /\ \/ job'.step = "remote-deleted" /\ job'.id = i
           \/ job'.step = "pruning"
    BY <2>3 DEF BackupInv, Job, PruneRemote

  <2> QED
    BY <2>2, <2>4 DEF BackupInv, JobOK, NoJob, Lost, CaptureSteps, CopySteps, RemovalSteps, PruneRemote
<1>5. CaptureOK'
  <2> DEFINE i == Max(job.todo)
  <2>1. job.todo \in SUBSET Ids
    BY DEF BackupInv, Job
  <2>2. i \in job.todo /\ i \in Ids
    BY Bounds, <2>1, MaxIsLast DEF PruneRemote, Ids
  <2>3. \/ job' = [job EXCEPT !.todo = @ \ {i}, !.id = i, !.step = "remote-deleted"]
        \/ job' = [job EXCEPT !.todo = @ \ {i}]
    BY DEF PruneRemote

  <2> HIDE DEF i
  <2>4. /\ job'.by = job.by /\ job'.todo = job.todo \ {i}
        /\ \/ job'.step = "remote-deleted" /\ job'.id = i
           \/ job'.step = "pruning"
    BY <2>3 DEF BackupInv, Job, PruneRemote

  <2> QED
    BY <2>4 DEF BackupInv, CaptureOK, PruneRemote
<1>6. OrderOK'
  <2> DEFINE i == Max(job.todo)
  <2>1. job.todo \in SUBSET Ids
    BY DEF BackupInv, Job
  <2>2. i \in job.todo /\ i \in Ids
    BY Bounds, <2>1, MaxIsLast DEF PruneRemote, Ids
  <2>3. \/ job' = [job EXCEPT !.todo = @ \ {i}, !.id = i, !.step = "remote-deleted"]
        \/ job' = [job EXCEPT !.todo = @ \ {i}]
    BY DEF PruneRemote

  <2> HIDE DEF i
  <2>4. /\ job'.by = job.by /\ job'.todo = job.todo \ {i}
        /\ \/ job'.step = "remote-deleted" /\ job'.id = i
           \/ job'.step = "pruning"
    BY <2>3 DEF BackupInv, Job, PruneRemote

  <2>5. Verified' = Verified
    BY DEF Verified, PruneRemote
  <2> QED
    BY <2>4, <2>5 DEF BackupInv, OrderOK, BackupSteps, CaptureSteps, PruneRemote, envVars
<1>7. PruneOK'
  <2> DEFINE i == Max(job.todo)
  <2>1. job.todo \in SUBSET Ids
    BY DEF BackupInv, Job
  <2>2. i \in job.todo /\ i \in Ids
    BY Bounds, <2>1, MaxIsLast DEF PruneRemote, Ids
  <2>3. \/ job' = [job EXCEPT !.todo = @ \ {i}, !.id = i, !.step = "remote-deleted"]
        \/ job' = [job EXCEPT !.todo = @ \ {i}]
    BY DEF PruneRemote

  <2> HIDE DEF i
  <2>4. /\ job'.by = job.by /\ job'.todo = job.todo \ {i}
        /\ \/ job'.step = "remote-deleted" /\ job'.id = i
           \/ job'.step = "pruning"
    BY <2>3 DEF BackupInv, Job, PruneRemote

  <2>5. Verified' = Verified
    BY DEF Verified, PruneRemote
  <2>6. \A j \in job.todo : Ahead(j)
    BY DEF BackupInv, PruneOK, PruneSteps, PruneRemote
  <2> QED
    BY <2>2, <2>4, <2>5, <2>6 DEF PruneOK, Ahead, RemovalSteps
<1> QED
  BY <1>1, <1>2, <1>3, <1>4, <1>5, <1>6, <1>7 DEF BackupInv

LEMMA PruneLocalKeeps ==
    ASSUME BackupInv, PruneLocal
    PROVE  BackupInv'
<1>1. StoreTyped' /\ ReceiptsTyped' /\ RemoteTyped' /\ ClockTyped'
  BY DEF BackupInv, StoreTyped, ReceiptsTyped, RemoteTyped, ClockTyped, Lost, Ahead, Verified,
         PruneLocal, Drop, storeVars, catalogueVars, envVars
<1>2. ArchivesTyped'
  BY Bounds, NoJobIsIdle DEF BackupInv, ArchivesTyped, PruneLocal, Drop, storeVars, catalogueVars, envVars
<1>3. (job \in Job)'
  BY Bounds, NoJobIsIdle DEF BackupInv, Job, PruneSteps, Ids, PruneLocal, Drop, storeVars, catalogueVars, envVars
<1>4. JobOK'
  BY Bounds, NoJobIsIdle DEF BackupInv, JobOK, Job, Lost, CaptureSteps, CopySteps, RemovalSteps, PruneSteps, PruneLocal, Drop, storeVars, catalogueVars, envVars
<1>5. CaptureOK'
  BY Bounds, NoJobIsIdle DEF BackupInv, CaptureOK, Job, PruneLocal, Drop, storeVars, catalogueVars, envVars
<1>6. OrderOK'
  BY Bounds, NoJobIsIdle DEF BackupInv, OrderOK, Job, BackupSteps, CaptureSteps, PruneSteps, Verified, PruneLocal, Drop, storeVars, catalogueVars, envVars
<1>7. PruneOK'
  <2>1. /\ job.id \in Ids /\ job.todo \in SUBSET Ids
        /\ Ahead(job.id) /\ \A i \in job.todo : Ahead(i)
    BY DEF BackupInv, Job, JobOK, PruneOK, PruneSteps, RemovalSteps, PruneLocal
  <2>2. Verified \ {job.id} \subseteq Verified'
    BY DropIs DEF Verified, PruneLocal
  <2> DEFINE AheadNext(i) == \E k \in Verified' : i < k
  <2>3. \A i \in Ids : Ahead(i) => AheadNext(i)
    BY <2>1, <2>2, AheadOfRemoved DEF Ahead
  <2>4. job'.id = job.id /\ job'.todo = job.todo
    BY DEF BackupInv, Job, PruneLocal
  <2> QED
    BY <2>1, <2>3, <2>4 DEF PruneOK, Ahead
<1>8. NoRedundantBackup'
  BY Bounds, NoJobIsIdle DEF BackupInv, NoRedundantBackup, Verified, PruneLocal, Drop, storeVars, catalogueVars, envVars
<1> QED
  BY <1>1, <1>2, <1>3, <1>4, <1>5, <1>6, <1>7, <1>8 DEF BackupInv

LEMMA PruneReceiptKeeps ==
    ASSUME BackupInv, PruneReceipt
    PROVE  BackupInv'
<1>1. StoreTyped' /\ ArchivesTyped' /\ RemoteTyped' /\ ClockTyped'
  BY DEF BackupInv, StoreTyped, ArchivesTyped, RemoteTyped, ClockTyped, Lost, Ahead, Verified,
         PruneReceipt, Drop, storeVars, catalogueVars, envVars
<1>2. ReceiptsTyped'
  <2>1. receipts' = Drop(receipts, job.id) /\ published' = published
    BY DEF PruneReceipt, envVars
  <2>2. /\ DOMAIN receipts' = DOMAIN receipts \ {job.id}
        /\ \A i \in DOMAIN receipts' : receipts'[i] = receipts[i]
    BY <2>1, DropIs
  <2> QED
    BY <2>1, <2>2 DEF BackupInv, ReceiptsTyped
<1>3. (job \in Job)'
  <2>1. job \in Job /\ 0 \in 0 .. MaxArchives /\ "pruning" \in PruneSteps
    BY Bounds DEF BackupInv, PruneSteps
  <2> QED
    BY <2>1 DEF Job, PruneReceipt
<1>4. JobOK'
  BY Bounds, NoJobIsIdle DEF BackupInv, JobOK, Job, Lost, CaptureSteps, CopySteps, RemovalSteps, PruneSteps, PruneReceipt, Drop, storeVars, catalogueVars, envVars
<1>5. CaptureOK'
  BY Bounds, NoJobIsIdle DEF BackupInv, CaptureOK, Job, PruneReceipt, Drop, storeVars, catalogueVars, envVars
<1>6. OrderOK'
  BY Bounds, NoJobIsIdle DEF BackupInv, OrderOK, Job, BackupSteps, CaptureSteps, PruneSteps, Verified, PruneReceipt, Drop, storeVars, catalogueVars, envVars
<1>7. PruneOK'
  <2>1. /\ job.id \in Ids /\ job.todo \in SUBSET Ids
        /\ Ahead(job.id) /\ \A i \in job.todo : Ahead(i)
    BY DEF BackupInv, Job, JobOK, PruneOK, PruneSteps, RemovalSteps, PruneReceipt
  <2>0. /\ receipts' = Drop(receipts, job.id)
        /\ archives' = archives /\ rotten' = rotten
    BY DEF PruneReceipt
  <2>2. Verified \ {job.id} \subseteq Verified'
    <3>1. DOMAIN receipts' = DOMAIN receipts \ {job.id}
      BY <2>0 DEF Drop
    <3> QED
      BY <2>0, <3>1 DEF Verified
  <2> DEFINE AheadNext(i) == \E k \in Verified' : i < k
  <2>3. \A i \in Ids : Ahead(i) => AheadNext(i)
    BY <2>1, <2>2, AheadOfRemoved DEF Ahead
  <2>4. job'.step = "pruning" /\ job'.todo = job.todo
    BY DEF BackupInv, Job, PruneReceipt
  <2> QED
    BY <2>1, <2>3, <2>4 DEF PruneOK, Ahead, RemovalSteps
<1>8. NoRedundantBackup'
  BY Bounds, NoJobIsIdle DEF BackupInv, NoRedundantBackup, Verified, PruneReceipt, Drop, storeVars, catalogueVars, envVars
<1> QED
  BY <1>1, <1>2, <1>3, <1>4, <1>5, <1>6, <1>7, <1>8 DEF BackupInv

LEMMA EndPruneKeeps ==
    ASSUME BackupInv, EndPrune
    PROVE  BackupInv'
<1>1. StoreTyped' /\ ArchivesTyped' /\ ReceiptsTyped' /\ RemoteTyped' /\ NoRedundantBackup'
  BY DEF BackupInv, StoreTyped, ArchivesTyped, ReceiptsTyped, RemoteTyped, NoRedundantBackup, Lost, Ahead, Verified,
         EndPrune, NextTick, After, storeVars, catalogueVars, envVars
<1>2. ClockTyped'
  <2> QED
    BY DEF BackupInv, ClockTyped, JobOK, Ticks, EndPrune, NextTick, After, envVars
<1>3. (job \in Job)'
  BY Bounds, NoJobIsIdle DEF BackupInv, Job, PruneSteps, Ids, EndPrune, NextTick, After, storeVars, catalogueVars, envVars
<1>4. JobOK'
  BY Bounds, NoJobIsIdle DEF BackupInv, JobOK, Job, Lost, CaptureSteps, CopySteps, RemovalSteps, PruneSteps, EndPrune, NextTick, After, storeVars, catalogueVars, envVars
<1>5. CaptureOK'
  BY Bounds, NoJobIsIdle DEF BackupInv, CaptureOK, Job, EndPrune, NextTick, After, storeVars, catalogueVars, envVars
<1>6. OrderOK'
  BY Bounds, NoJobIsIdle DEF BackupInv, OrderOK, Job, BackupSteps, CaptureSteps, PruneSteps, Verified, EndPrune, NextTick, After, storeVars, catalogueVars, envVars
<1>7. PruneOK'
  BY Bounds, NoJobIsIdle DEF BackupInv, PruneOK, Job, PruneSteps, RemovalSteps, Ahead, Verified, EndPrune, NextTick, After, storeVars, catalogueVars, envVars
<1> QED
  BY <1>1, <1>2, <1>3, <1>4, <1>5, <1>6, <1>7 DEF BackupInv

LEMMA InterruptKeeps ==
    ASSUME BackupInv, NEW p \in {"schedule", "host"}, Interrupt(p)
    PROVE  BackupInv'
<1>1. StoreTyped' /\ ArchivesTyped' /\ ReceiptsTyped' /\ RemoteTyped' /\ NoRedundantBackup'
  BY DEF BackupInv, StoreTyped, ArchivesTyped, ReceiptsTyped, RemoteTyped, NoRedundantBackup, Lost, Ahead, Verified,
         Interrupt, storeVars, catalogueVars, envVars
<1>2. ClockTyped'
  BY Bounds, NoJobIsIdle DEF BackupInv, ClockTyped, Ticks, Days, Interrupt, storeVars, catalogueVars, envVars
<1>3. (job \in Job)'
  BY Bounds, NoJobIsIdle DEF BackupInv, Job, PruneSteps, Ids, Interrupt, storeVars, catalogueVars, envVars
<1>4. JobOK'
  BY Bounds, NoJobIsIdle DEF BackupInv, JobOK, Job, Lost, CaptureSteps, CopySteps, RemovalSteps, PruneSteps, Interrupt, storeVars, catalogueVars, envVars
<1>5. CaptureOK'
  BY Bounds, NoJobIsIdle DEF BackupInv, CaptureOK, Job, Interrupt, storeVars, catalogueVars, envVars
<1>6. OrderOK'
  BY Bounds, NoJobIsIdle DEF BackupInv, OrderOK, Job, BackupSteps, CaptureSteps, PruneSteps, Verified, Interrupt, storeVars, catalogueVars, envVars
<1>7. PruneOK'
  BY Bounds, NoJobIsIdle DEF BackupInv, PruneOK, Job, PruneSteps, RemovalSteps, Ahead, Verified, Interrupt, storeVars, catalogueVars, envVars
<1> QED
  BY <1>1, <1>2, <1>3, <1>4, <1>5, <1>6, <1>7 DEF BackupInv

LEMMA RotKeeps ==
    ASSUME BackupInv, NEW r \in Ids, Rot(r)
    PROVE  BackupInv'
<1>1. StoreTyped' /\ ReceiptsTyped' /\ RemoteTyped' /\ ClockTyped' /\ (job \in Job)' /\ JobOK' /\ CaptureOK'
  BY DEF BackupInv, StoreTyped, ReceiptsTyped, RemoteTyped, ClockTyped, JobOK, CaptureOK, Lost, Ahead, Verified,
         Rot, storeVars, catalogueVars, envVars
<1>2. ArchivesTyped'
  BY Bounds, NoJobIsIdle DEF BackupInv, ArchivesTyped, Rot, storeVars, catalogueVars, envVars
<1>3. OrderOK'
  BY Bounds, NoJobIsIdle DEF BackupInv, OrderOK, Job, BackupSteps, CaptureSteps, PruneSteps, Verified, Rot, storeVars, catalogueVars, envVars
<1>4. PruneOK'
  BY Bounds, NoJobIsIdle DEF BackupInv, PruneOK, Job, PruneSteps, RemovalSteps, Ahead, Verified, Rot, storeVars, catalogueVars, envVars
<1>5. NoRedundantBackup'
  BY Bounds, NoJobIsIdle DEF BackupInv, NoRedundantBackup, Verified, Rot, storeVars, catalogueVars, envVars
<1> QED
  BY <1>1, <1>2, <1>3, <1>4, <1>5 DEF BackupInv

LEMMA WeatherKeeps ==
    ASSUME BackupInv, Outage \/ Return \/ NextDay
    PROVE  BackupInv'
<1>1. StoreTyped' /\ ArchivesTyped' /\ ReceiptsTyped' /\ RemoteTyped' /\ (job \in Job)' /\ JobOK' /\ CaptureOK' /\ PruneOK' /\ NoRedundantBackup'
  BY DEF BackupInv, StoreTyped, ArchivesTyped, ReceiptsTyped, RemoteTyped, JobOK, CaptureOK, PruneOK, NoRedundantBackup, Lost, Ahead, Verified,
         Outage, Return, NextDay, storeVars, catalogueVars, envVars
<1>2. ClockTyped'
  BY Bounds, NoJobIsIdle DEF BackupInv, ClockTyped, Ticks, Days, Outage, Return, NextDay, storeVars, catalogueVars, envVars
<1>3. OrderOK'
  <2>1. /\ day \in Nat /\ day' \in {day, day + 1}
        /\ \A i \in DOMAIN receipts : receipts[i].verified \in Nat
    BY Bounds DEF BackupInv, ClockTyped, ReceiptsTyped, Receipt, Days, Outage, Return, NextDay
  <2>2. /\ UNCHANGED <<receipts, job>> /\ Verified' = Verified
        /\ Verified \subseteq DOMAIN receipts
    BY DEF Verified, Outage, Return, NextDay, catalogueVars
  <2> QED
    BY <2>1, <2>2 DEF BackupInv, OrderOK
<1> QED
  BY <1>1, <1>2, <1>3 DEF BackupInv

LEMMA LoseKeeps ==
    ASSUME BackupInv, Lose
    PROVE  BackupInv'
<1>1. StoreTyped'
  BY Bounds, NoJobIsIdle DEF BackupInv, StoreTyped, Lose, Empty, storeVars, catalogueVars, envVars
<1>2. ArchivesTyped'
  BY Bounds, NoJobIsIdle DEF BackupInv, ArchivesTyped, Lose, Empty, storeVars, catalogueVars, envVars
<1>3. ReceiptsTyped'
  BY Bounds, NoJobIsIdle DEF BackupInv, ReceiptsTyped, Receipt, Lose, Empty, storeVars, catalogueVars, envVars
<1>4. RemoteTyped'
  BY Bounds, NoJobIsIdle DEF BackupInv, RemoteTyped, Lose, Empty, storeVars, catalogueVars, envVars
<1>5. ClockTyped'
  BY Bounds, NoJobIsIdle DEF BackupInv, ClockTyped, Ticks, Days, Lose, Empty, storeVars, catalogueVars, envVars
<1>6. (job \in Job)'
  BY Bounds, NoJobIsIdle DEF BackupInv, Job, PruneSteps, Ids, Lose, Empty, storeVars, catalogueVars, envVars
<1>7. JobOK'
  BY Bounds, NoJobIsIdle DEF BackupInv, JobOK, Job, Lost, CaptureSteps, CopySteps, RemovalSteps, PruneSteps, Lose, Empty, storeVars, catalogueVars, envVars
<1>8. CaptureOK'
  BY Bounds, NoJobIsIdle DEF BackupInv, CaptureOK, Job, Lose, Empty, storeVars, catalogueVars, envVars
<1>9. OrderOK'
  BY Bounds, NoJobIsIdle DEF BackupInv, OrderOK, Job, BackupSteps, CaptureSteps, PruneSteps, Verified, Lose, Empty, storeVars, catalogueVars, envVars
<1>10. PruneOK'
  BY Bounds, NoJobIsIdle DEF BackupInv, PruneOK, Job, PruneSteps, RemovalSteps, Ahead, Verified, Lose, Empty, storeVars, catalogueVars, envVars
<1>11. NoRedundantBackup'
  BY Bounds, NoJobIsIdle DEF BackupInv, NoRedundantBackup, Verified, Lose, Empty, storeVars, catalogueVars, envVars
<1> QED
  BY <1>1, <1>2, <1>3, <1>4, <1>5, <1>6, <1>7, <1>8, <1>9, <1>10, <1>11 DEF BackupInv

-----------------------------------------------------------------------------
LEMMA TypeParts == BackupInv => RestoreTypeOK
BY DEF BackupInv, StoreTyped, ArchivesTyped, ReceiptsTyped, RemoteTyped, ClockTyped, RestoreTypeOK

LEMMA InitHolds == Init => BackupInv
<1> SUFFICES ASSUME Init PROVE BackupInv
  OBVIOUS
<1>1. archives = {} /\ DOMAIN receipts = {} /\ Verified = {}
  BY DEF Init, Empty, Verified
<1>2. StoreTyped /\ ArchivesTyped /\ ReceiptsTyped
  BY Bounds, <1>1 DEF Init, StoreTyped, ArchivesTyped, ReceiptsTyped
<1>3. RemoteTyped /\ ClockTyped /\ job \in Job
  BY Bounds, NoJobIsIdle DEF Init, RemoteTyped, ClockTyped, Days, Ticks, Ids
<1>4. JobOK /\ CaptureOK /\ OrderOK /\ PruneOK /\ NoRedundantBackup
  BY <1>1, NoJobIsIdle
  DEF Init, JobOK, CaptureSteps, CopySteps, RemovalSteps, PruneSteps, Lost, CaptureOK, OrderOK,
      PruneOK, NoRedundantBackup
<1> QED
  BY <1>2, <1>3, <1>4 DEF BackupInv

LEMMA UnchangedKeeps == BackupInv /\ UNCHANGED vars => BackupInv'
BY DEF vars, storeVars, catalogueVars, envVars, BackupInv, StoreTyped, ArchivesTyped, ReceiptsTyped,
       RemoteTyped, ClockTyped, JobOK, Lost, CaptureOK, OrderOK, PruneOK, NoRedundantBackup,
       Ahead, Verified

LEMMA NextKeeps == BackupInv /\ [Next]_vars => BackupInv'
<1> SUFFICES ASSUME BackupInv, [Next]_vars PROVE BackupInv'
  OBVIOUS
<1>1. CASE StoreStep
  BY <1>1, StoreKeeps
<1>2. CASE ScheduleStep
  BY <1>2, TickKeeps, StartScheduledKeeps, StartPruneKeeps, StartRetryKeeps DEF ScheduleStep
<1>3. CASE StartManual \/ HoldFiles
  BY <1>3, StartManualKeeps, HoldFilesKeeps
<1>4. CASE JobStep
  BY <1>4, OpenSnapshotKeeps, CaptureKeeps, LinkKeeps, CatalogueKeeps, CopyRemoteKeeps,
     RecordCopyKeeps, PruneRemoteKeeps, PruneLocalKeeps, PruneReceiptKeeps, EndPruneKeeps DEF JobStep
<1>5. CASE EnvStep
  BY <1>5, InterruptKeeps, RotKeeps, WeatherKeeps DEF EnvStep
<1>6. CASE UNCHANGED vars
  BY <1>6, UnchangedKeeps
<1> QED
  BY <1>1, <1>2, <1>3, <1>4, <1>5, <1>6 DEF Next

(* Only the loss of the machine loses it, and it is for ever.               *)
LEMMA LossIsFinal == BackupInv /\ [Next]_vars => (Lost' <=> Lost)
<1> SUFFICES ASSUME BackupInv, [Next]_vars PROVE Lost' <=> Lost
  OBVIOUS
<1> USE DEF Lost
<1>1. /\ tick \in Ticks /\ (Lost => job.by = "nobody" /\ job.step = "none")
      /\ (job.by = "schedule" => tick \in {"backup", "prune", "retry"})
  BY NoJobIsIdle DEF BackupInv, ClockTyped, JobOK
<1>2. CASE StoreStep
  BY <1>2 DEF StoreStep
<1>3. CASE ScheduleStep
  BY <1>3 DEF ScheduleStep, Tick, StartScheduled, StartPrune, StartRetry
<1>4. CASE StartManual \/ HoldFiles
  BY <1>4 DEF StartManual, HoldFiles
<1>5. CASE JobStep
  <2>1. CASE Capture
    BY <1>1, <2>1 DEF Capture, FailedTick
  <2>2. CASE RecordCopy \/ EndPrune
    BY <1>1, <2>2 DEF RecordCopy, EndPrune, NextTick, After
  <2> QED
    BY <1>5, <2>1, <2>2
    DEF JobStep, OpenSnapshot, Link, Catalogue, CopyRemote, PruneRemote, PruneLocal, PruneReceipt
<1>6. CASE EnvStep
  BY <1>6 DEF EnvStep, Interrupt, Rot, Outage, Return, NextDay
<1>7. CASE UNCHANGED vars
  BY <1>7 DEF vars
<1> QED
  BY <1>2, <1>3, <1>4, <1>5, <1>6, <1>7 DEF Next

-----------------------------------------------------------------------------
(* The restoration.                                                         *)

LEMMA RestoreInitHolds == RestoreInit => FullInv
<1> SUFFICES ASSUME RestoreInit PROVE FullInv
  OBVIOUS
<1>1. BackupInv
  BY InitHolds DEF RestoreInit
<1>2. TargetOK
  BY DEF RestoreInit, Init, TargetOK, Lost
<1> QED
  BY <1>1, <1>2 DEF FullInv

LEMMA RestoreNextKeeps == FullInv /\ [RestoreNext]_allVars => FullInv'
<1> SUFFICES ASSUME FullInv, [RestoreNext]_allVars PROVE FullInv'
  OBVIOUS
<1> USE DEF FullInv
<1>1. CASE BackupStep(Next)
  <2>1. BackupInv' /\ (Lost' <=> Lost)
    BY <1>1, NextKeeps, LossIsFinal DEF BackupStep
  <2> QED
    BY <1>1, <2>1 DEF BackupStep, restoreVars, targetVars, TargetOK
<1>2. CASE LoseMachine
  <2>1. BackupInv'
    BY <1>2, LoseKeeps DEF LoseMachine
  <2>3. Lost'
    BY <1>2 DEF LoseMachine, Lose, Lost
  <2> QED
    BY <1>2, <2>1, <2>3 DEF LoseMachine, targetVars, TargetOK
<1>3. CASE RestoreStep
  <2>1. UNCHANGED vars
    BY <1>3 DEF RestoreStep, Claim, MarkIncomplete, RestoreFile, RestoreDatabase, FinishRestore,
      StopRestore, ReadMarker, Revoke, RemoveMarker, StopActivation, StartServer
  <2>2. BackupInv' /\ (Lost' <=> Lost)
    BY <2>1, UnchangedKeeps DEF vars, Lost
  <2>3. CASE Claim
    BY <2>2, <2>3 DEF Claim, TargetOK
  <2>4. CASE MarkIncomplete
    BY <2>2, <2>4 DEF MarkIncomplete, TargetOK
  <2>5. CASE \E b \in Blobs : RestoreFile(b)
    BY <2>2, <2>5 DEF RestoreFile, TargetOK
  <2>6. CASE RestoreDatabase
    BY <2>2, <2>6 DEF RestoreDatabase, TargetOK
  <2>7. CASE FinishRestore
    BY <2>2, <2>7 DEF FinishRestore, TargetOK
  <2>8. CASE StopRestore
    BY <2>2, <2>8 DEF StopRestore, TargetOK, targetVars
  <2>9. CASE ReadMarker
    BY <2>2, <2>9 DEF ReadMarker, Activatable, TargetOK, targetVars
  <2>10. CASE Revoke
    BY <2>2, <2>10 DEF Revoke, TargetOK
  <2>11. CASE RemoveMarker
    BY <2>2, <2>11 DEF RemoveMarker, TargetOK
  <2>12. CASE StopActivation
    BY <2>2, <2>12 DEF StopActivation, TargetOK, targetVars
  <2>13. CASE StartServer
    BY <2>2, <2>13 DEF StartServer, TargetOK, targetVars
  <2> QED
    BY <1>3, <2>3, <2>4, <2>5, <2>6, <2>7, <2>8, <2>9, <2>10, <2>11, <2>12, <2>13 DEF RestoreStep
<1>4. CASE UNCHANGED allVars
  <2>1. BackupInv' /\ (Lost' <=> Lost)
    BY <1>4, UnchangedKeeps DEF allVars, vars, Lost
  <2> QED
    BY <1>4, <2>1 DEF allVars, restoreVars, targetVars, TargetOK
<1> QED
  BY <1>1, <1>2, <1>3, <1>4 DEF RestoreNext

(* The named parts of the invariant hold in every reachable state.          *)
THEOREM FullInvHolds == RestoreSpec => []FullInv
<1>1. RestoreInit => FullInv
  BY RestoreInitHolds
<1>2. FullInv /\ [RestoreNext]_allVars => FullInv'
  BY RestoreNextKeeps
<1> QED
  BY <1>1, <1>2, PTL DEF RestoreSpec

(* The catalogue, the receipts and what the holder of RUN is at keep their  *)
(* types: at most MaxArchives identities, every receipt complete.           *)
THEOREM RestoreTypeCorrect == RestoreSpec => []RestoreTypeOK
<1>1. FullInv => RestoreTypeOK
  BY TypeParts DEF FullInv
<1> QED
  BY <1>1, FullInvHolds, PTL

(* Between the snapshot and the last blob copied nothing the snapshot names *)
(* is deleted, so no archive lacks a blob its dump names.                   *)
THEOREM SnapshotsAreCaptured == RestoreSpec => []SnapshotsCaptured
<1>1. FullInv => SnapshotsCaptured
  BY DEF FullInv, BackupInv, CaptureOK, SnapshotsCaptured
<1> QED
  BY <1>1, FullInvHolds, PTL

(* The schedule never adds a backup to a day that has a verified one, even  *)
(* when a command of the host ended one while it waited for RUN.            *)
THEOREM NoBackupTwice == RestoreSpec => []NoRedundantBackup
<1>1. FullInv => NoRedundantBackup
  BY DEF FullInv, BackupInv
<1> QED
  BY <1>1, FullInvHolds, PTL

(* No step but the rot of its archive or the loss of the machine takes the  *)
(* latest verified recovery point away.                                     *)
THEOREM RecoveryPointStays == RestoreSpec => RecoveryPointKept
<1> DEFINE Stays == \A i \in Verified : (i = Max(Verified) /\ i \notin rotten' /\ ~Lost')
                                           => i \in Verified'
<1>1. ASSUME FullInv, [RestoreNext]_allVars PROVE Stays
  <2> SUFFICES ASSUME NEW i \in Verified, i = Max(Verified), i \notin rotten', ~Lost'
               PROVE  i \in DOMAIN receipts' /\ i \in archives'
    BY DEF Verified
  <2>1. BackupInv /\ i \in DOMAIN receipts /\ i \in archives
    BY <1>1 DEF FullInv, Verified
  <2>2. ASSUME Ahead(job.id), job.id \in Ids PROVE i # job.id
    <3>1. PICK k \in Verified : job.id < k
      BY <2>2 DEF Ahead
    <3>2. \A n \in Verified : n <= i /\ n \in Nat
      BY <2>1, VerifiedAreGiven, LatestVerified DEF Ids
    <3> QED
      BY <3>1, <3>2
  <2>3. CASE PruneLocal
    <3>1. i # job.id
      BY <2>1, <2>2, <2>3 DEF BackupInv, PruneOK, JobOK, RemovalSteps, PruneLocal
    <3> QED
      BY <2>1, <2>3, <3>1 DEF PruneLocal, Drop
  <2>4. CASE PruneReceipt
    <3>1. i # job.id
      BY <2>1, <2>2, <2>4 DEF BackupInv, PruneOK, JobOK, RemovalSteps, PruneReceipt
    <3> QED
      BY <2>1, <2>4, <3>1 DEF PruneReceipt, Drop
  <2>5. CASE Link
    BY <2>1, <2>5 DEF Link, Put
  <2>6. CASE Catalogue
    BY <2>1, <2>6 DEF Catalogue, Put
  <2>7. CASE RecordCopy
    BY <2>1, <2>7 DEF RecordCopy
  <2>8. CASE UNCHANGED <<archives, receipts>>
    BY <2>1, <2>8
  <2>9. CASE Next /\ ~(PruneLocal \/ PruneReceipt \/ Link \/ Catalogue \/ RecordCopy)
    <3>1. CASE StoreStep \/ ScheduleStep
      BY <2>8, <3>1 DEF StoreStep, ScheduleStep, Tick, StartScheduled, StartPrune, StartRetry, catalogueVars
    <3>2. CASE JobStep
      BY <2>8, <2>9, <3>2 DEF JobStep, OpenSnapshot, Capture, CopyRemote, PruneRemote, EndPrune, catalogueVars
    <3>3. CASE StartManual \/ HoldFiles
      BY <2>8, <3>3 DEF StartManual, HoldFiles, catalogueVars
    <3>4. CASE EnvStep
      BY <2>8, <3>4 DEF EnvStep, Interrupt, Rot, Outage, Return, NextDay, catalogueVars
    <3> QED
      BY <2>9, <3>1, <3>2, <3>3, <3>4 DEF Next
  <2>10. CASE RestoreStep \/ UNCHANGED allVars
    <3>1. UNCHANGED vars
      BY <2>10 DEF RestoreStep, Claim, MarkIncomplete, RestoreFile, RestoreDatabase, FinishRestore,
        StopRestore, ReadMarker, Revoke, RemoveMarker, StopActivation, StartServer, allVars
    <3> QED
      BY <2>8, <3>1 DEF vars, catalogueVars
  <2>11. CASE LoseMachine
    BY <2>11 DEF LoseMachine, Lose, Lost
  <2> QED
    BY <1>1, <2>3, <2>4, <2>5, <2>6, <2>7, <2>9, <2>10, <2>11 DEF RestoreNext, BackupStep
<1> QED
  BY <1>1, FullInvHolds, PTL DEF RestoreSpec, RecoveryPointKept

(* A server runs over a restored target only when the dump and every blob   *)
(* of the archive are there and the sessions of the archive are revoked,    *)
(* wherever the restoration and the activation were stopped.                *)
THEOREM ServedIsWhole == RestoreSpec => []ServedWhole
<1>1. FullInv => ServedWhole
  BY DEF FullInv, TargetOK, ServedWhole
<1> QED
  BY <1>1, FullInvHolds, PTL
=============================================================================
