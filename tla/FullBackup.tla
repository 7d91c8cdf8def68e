----------------------------- MODULE FullBackup -----------------------------
(* Complete backups of an installation: the capture of one consistent state  *)
(* of the database with the blobs it names, the local catalogue, the copies  *)
(* sent to a remote destination, their retries, and retention                *)
(* (apps/api/src/backup/full, backup/schedule.ts, server.ts).                *)
(*                                                                           *)
(* Two processes work on one backup directory: the server's schedule, and a  *)
(* command of the host.  The advisory lock RUN lets one of them work at a    *)
(* time: `job` is what its holder does.  Of the live installation only what  *)
(* the locks FILE_MUTATION and BLOB_DELETION order is kept; ProtectedFiles   *)
(* has the rest.  A remote destination is configured.                        *)
EXTENDS Naturals, FiniteSets, FiniteSetsExt, SequencesExt

CONSTANTS Blobs, Writers,   \* chunks, and the requests that store them
          MaxDays,          \* bound: deadlines that pass
          Retention,        \* the deadlines an archive outlives
          MaxEvents,        \* bound: commands, interruptions, outages, rotten archives
          MaxArchives,      \* bound: archives published
          MaxTries          \* stands for Number.MAX_SAFE_INTEGER

ASSUME BackupAssumption ==
    /\ {MaxDays, Retention, MaxEvents, MaxArchives, MaxTries} \subseteq Nat
    /\ MaxDays > 0

VARIABLES
    refs, disk, held,   \* blobs that rows name, blobs stored, blobs of requests under way
    archives,           \* the archives of the backup directory
    receipts,           \* and the receipts beside them
    rotten,             \* archives that lost the digest of their receipt
    remote,             \* what the destination holds of each archive
    attempted,          \* archives whose last copy failed, in the order of the attempts
    day,                \* deadlines passed
    published,          \* identities given to archives, in the order of their creation
    events, down,       \* bound of the environment; the destination is out of reach
    tick,               \* what the schedule has left to do in this tick
    job                 \* what the holder of RUN does

storeVars == <<refs, disk, held>>
catalogueVars == <<archives, receipts, rotten, remote, attempted>>
envVars == <<day, published, events, down>>
vars == <<storeVars, catalogueVars, envVars, tick, job>>

Ids == 1..MaxArchives
Days == 1..MaxDays
Ticks == {"none", "backup", "prune", "retry", "lost"}

Receipt == [created: Days, verified: Days, reason: {"scheduled", "manual"},
            remote: {"pending", "failed", "verified"}, tries: 0..MaxTries]

PruneSteps == {"pruning", "remote-deleted", "local-deleted"}
Job == [by: {"nobody", "schedule", "host"},
        step: {"none", "started", "locked", "snapshot", "captured", "linked",
               "catalogued", "copied", "refused"} \cup PruneSteps,
        id: 0..MaxArchives, created: 0..MaxDays,
        snap: SUBSET Blobs,     \* blobs named in the snapshot
        todo: SUBSET Ids]       \* archives retention has left to remove
NoJob == [by |-> "nobody", step |-> "none", id |-> 0, created |-> 0,
          snap |-> {}, todo |-> {}]

Lost == tick = "lost"

(* The receipts whose archive still has their digest. *)
Verified == {i \in DOMAIN receipts \cap archives : i \notin rotten}

\* Mutant: a receipt counts without its archive.
DueByReceipt == DOMAIN receipts = {} \/ receipts[Max(DOMAIN receipts)].verified < day

(* The most recent deadline has no verified complete backup. *)
Due == Verified = {} \/ receipts[Max(Verified)].verified < day

\* Mutant: the files are let go as soon as the snapshot is exported.
FilesHeldForSnapshot == job.step = "locked"

(* A capture holds the locks of the files from before its snapshot. *)
FilesHeld == job.step \in {"locked", "snapshot"}

---------------------------------------------------------------------------
(* The live installation: a request stores a blob and then commits the row   *)
(* that names it, sharing FILE_MUTATION for both; maintenance takes          *)
(* FILE_MUTATION alone and deletes what no row names.                        *)

Write(w, b) ==
    /\ ~FilesHeld /\ held[w] = {}
    /\ disk' = disk \cup {b} /\ held' = [held EXCEPT ![w] = {b}]
    /\ UNCHANGED refs

EndWrite(w) ==
    /\ held[w] # {}
    /\ held' = [held EXCEPT ![w] = {}]
    /\ refs' \in {refs, refs \cup held[w]}
    /\ UNCHANGED disk

Unreference(b) ==
    /\ b \in refs
    /\ refs' = refs \ {b}
    /\ UNCHANGED <<disk, held>>

Writing == {w \in Writers : held[w] # {}}

CollectFree == Writing = {} /\ ~FilesHeld

Collect(b) ==
    /\ CollectFree /\ b \in disk \ refs
    /\ disk' = disk \ {b}
    /\ UNCHANGED <<refs, held>>

StoreStep ==
    /\ ~Lost
    /\ \/ \E w \in Writers : EndWrite(w) \/ \E b \in Blobs : Write(w, b)
       \/ \E b \in Blobs : Unreference(b) \/ Collect(b)
    /\ UNCHANGED <<catalogueVars, envVars, tick, job>>

---------------------------------------------------------------------------
(* A backup, by the schedule or by the host. *)

Tick ==
    /\ tick = "none"
    /\ tick' = IF Due THEN "backup" ELSE "retry"
    /\ UNCHANGED <<storeVars, catalogueVars, envVars, job>>

\* Mutant: the answer of the tick is used.
DueThen == TRUE

(* Asked again under RUN: a backup of the host may have ended meanwhile. *)
StillDue == Due

StartScheduled ==
    /\ tick = "backup" /\ job = NoJob
    /\ IF StillDue
         THEN job' = [NoJob EXCEPT !.by = "schedule", !.step = "started"] /\ UNCHANGED tick
         ELSE tick' = "prune" /\ UNCHANGED job
    /\ UNCHANGED <<storeVars, catalogueVars, envVars>>

StartManual ==
    /\ ~Lost /\ job = NoJob /\ events < MaxEvents
    /\ job' = [NoJob EXCEPT !.by = "host", !.step = "started"]
    /\ events' = events + 1
    /\ UNCHANGED <<storeVars, catalogueVars, day, published, down, tick>>

HoldFiles ==
    /\ job.step = "started" /\ Writing = {}
    /\ job' = [job EXCEPT !.step = "locked"]
    /\ UNCHANGED <<storeVars, catalogueVars, envVars, tick>>

OpenSnapshot ==
    /\ job.step = "locked"
    /\ job' = [job EXCEPT !.step = "snapshot", !.snap = refs, !.created = day]
    /\ UNCHANGED <<storeVars, catalogueVars, envVars, tick>>

(* What the schedule does next when its job is over, and when it failed. *)
After == [backup |-> "prune", prune |-> "retry", retry |-> "none"]
NextTick == IF job.by = "schedule" THEN After[tick] ELSE tick
FailedTick == IF job.by = "schedule" THEN "none" ELSE tick

(* Every blob of the store is copied beside the dump, and the locks of the   *)
(* files are given back; a named blob that is missing refuses the backup.    *)
Capture ==
    /\ job.step = "snapshot"
    /\ IF job.snap \subseteq disk
         THEN /\ job' = [job EXCEPT !.step = "captured", !.snap = {}]
              /\ UNCHANGED tick
         ELSE job' = NoJob /\ tick' = FailedTick
    /\ UNCHANGED <<storeVars, catalogueVars, envVars>>

Put(f, i, v) == [j \in DOMAIN f \cup {i} |-> IF j = i THEN v ELSE f[j]]
Drop(f, i) == [j \in DOMAIN f \ {i} |-> f[j]]

Link ==
    /\ job.step = "captured" /\ published < MaxArchives
    /\ published' = published + 1
    /\ archives' = archives \cup {published + 1}
    /\ job' = [job EXCEPT !.step = "linked", !.id = published + 1]
    /\ UNCHANGED <<storeVars, receipts, rotten, remote, attempted, day, events, down, tick>>

Catalogue ==
    /\ job.step = "linked"
    /\ receipts' = Put(receipts, job.id,
                       [created |-> job.created, verified |-> day,
                        reason |-> IF job.by = "schedule" THEN "scheduled" ELSE "manual",
                        remote |-> "pending", tries |-> 0])
    /\ job' = [job EXCEPT !.step = "catalogued", !.created = 0]
    /\ UNCHANGED <<storeVars, archives, rotten, remote, attempted, envVars, tick>>

---------------------------------------------------------------------------
(* The remote copy of one archive: what is there is read, replaced unless it *)
(* is whole, and read back.  An outage on the way leaves anything behind.    *)

CopyRemote ==
    /\ job.step = "catalogued"
    /\ LET i == job.id IN
       IF ~down /\ i \notin rotten
         THEN /\ remote' = [remote EXCEPT ![i] = "whole"]
              /\ job' = [job EXCEPT !.step = "copied"]
         ELSE /\ \/ remote' = remote
                 \/ /\ down /\ i \notin rotten /\ remote[i] # "whole"
                    /\ \E r \in {"none", "bad", "whole"} : remote' = [remote EXCEPT ![i] = r]
              /\ job' = [job EXCEPT !.step = "refused"]
    /\ UNCHANGED <<storeVars, archives, receipts, rotten, attempted, envVars, tick>>

(* The place of the last attempt, 0 when there was none. *)
LastAttempt(i) == IF Contains(attempted, i)
                  THEN CHOOSE k \in DOMAIN attempted : attempted[k] = i ELSE 0
Others(i) == IF LastAttempt(i) = 0 THEN attempted ELSE RemoveAt(attempted, LastAttempt(i))

RecordCopy ==
    /\ job.step \in {"copied", "refused"}
    /\ LET i == job.id IN
       /\ receipts' = [receipts EXCEPT
             ![i].remote = IF job.step = "copied" THEN "verified" ELSE "failed",
             ![i].tries = IF @ < MaxTries THEN @ + 1 ELSE MaxTries]
       /\ attempted' = IF job.step = "copied" THEN Others(i) ELSE Append(Others(i), i)
    /\ job' = NoJob /\ tick' = NextTick
    /\ UNCHANGED <<storeVars, archives, rotten, remote, envVars>>

\* Mutant: the latest archive first, whatever was attempted.
LatestFirst(i, j) == i > j

(* compareRemoteRetryPriority: fewest attempts, then oldest attempt, then    *)
(* oldest archive.                                                           *)
Before(i, j) ==
    \/ receipts[i].tries < receipts[j].tries
    \/ /\ receipts[i].tries = receipts[j].tries
       /\ \/ LastAttempt(i) < LastAttempt(j)
          \/ LastAttempt(i) = LastAttempt(j) /\ i < j

Pending == {i \in DOMAIN receipts : receipts[i].remote \in {"pending", "failed"}}

StartRetry ==
    /\ tick = "retry" /\ job = NoJob
    /\ IF Pending = {}
         THEN tick' = "none" /\ UNCHANGED job
         ELSE /\ \E i \in Pending :
                   /\ \A j \in Pending \ {i} : Before(i, j)
                   /\ job' = [NoJob EXCEPT !.by = "schedule", !.step = "catalogued", !.id = i]
              /\ UNCHANGED tick
    /\ UNCHANGED <<storeVars, catalogueVars, envVars>>

---------------------------------------------------------------------------
(* Retention.  An archive goes when it is old, is not the latest verified    *)
(* one and its remote copy is still whole: first the remote copy, then the   *)
(* archive, then the receipt.                                                *)

\* Mutant: the archive of the latest receipt is the one kept.
KeptByReceipt == {Max(DOMAIN receipts)}

Kept == {Max(Verified)}

(* Hours are left out: an archive of `Retention` deadlines may be old or not. *)
StartPrune ==
    /\ tick = "prune" /\ job = NoJob
    /\ \E today \in {day - 1, day} :
         job' = [NoJob EXCEPT !.by = "schedule", !.step = "pruning",
                   !.todo = IF Verified = {} THEN {} ELSE
                     {i \in Verified \ Kept : /\ receipts[i].created + Retention <= today
                                              /\ receipts[i].remote = "verified"}]
    /\ UNCHANGED <<storeVars, catalogueVars, envVars, tick>>

PruneRemote ==
    /\ job.step = "pruning" /\ job.todo # {}
    /\ LET i == Max(job.todo) IN
       IF ~down /\ remote[i] = "whole"
         THEN /\ remote' = [remote EXCEPT ![i] = "none"]
              /\ job' = [job EXCEPT !.todo = @ \ {i}, !.id = i, !.step = "remote-deleted"]
         ELSE /\ remote' \in {remote} \cup (IF down THEN {[remote EXCEPT ![i] = "none"]} ELSE {})
              /\ job' = [job EXCEPT !.todo = @ \ {i}]
    /\ UNCHANGED <<storeVars, archives, receipts, rotten, attempted, envVars, tick>>

PruneLocal ==
    /\ job.step = "remote-deleted"
    /\ archives' = archives \ {job.id}
    /\ job' = [job EXCEPT !.step = "local-deleted"]
    /\ UNCHANGED <<storeVars, receipts, rotten, remote, attempted, envVars, tick>>

PruneReceipt ==
    /\ job.step = "local-deleted"
    /\ receipts' = Drop(receipts, job.id)
    /\ job' = [job EXCEPT !.step = "pruning", !.id = 0]
    /\ UNCHANGED <<storeVars, archives, rotten, remote, attempted, envVars, tick>>

EndPrune ==
    /\ job.step = "pruning" /\ job.todo = {}
    /\ job' = NoJob /\ tick' = NextTick
    /\ UNCHANGED <<storeVars, catalogueVars, envVars>>

---------------------------------------------------------------------------
(* What happens around them. *)

(* A process stops, or what it does throws: its locks go with its session.   *)
Interrupt(p) ==
    /\ ~Lost /\ events < MaxEvents
    /\ job.by = p \/ (p = "schedule" /\ tick # "none")
    /\ job' = IF job.by = p THEN NoJob ELSE job
    /\ tick' = IF p = "schedule" THEN "none" ELSE tick
    /\ events' = events + 1
    /\ UNCHANGED <<storeVars, catalogueVars, day, published, down>>

(* Not while retention is between its digests and its deletions. *)
Rot(i) ==
    /\ ~Lost /\ events < MaxEvents
    /\ i \in archives \ rotten /\ job.step \notin PruneSteps
    /\ rotten' = rotten \cup {i}
    /\ events' = events + 1
    /\ UNCHANGED <<storeVars, archives, receipts, remote, attempted,
                   day, published, down, tick, job>>

Outage ==
    /\ ~Lost /\ ~down /\ events < MaxEvents
    /\ down' = TRUE /\ events' = events + 1
    /\ UNCHANGED <<storeVars, catalogueVars, day, published, tick, job>>

Return ==
    /\ down /\ down' = FALSE
    /\ UNCHANGED <<storeVars, catalogueVars, day, published, events, tick, job>>

NextDay ==
    /\ ~Lost /\ day < MaxDays /\ day' = day + 1
    /\ UNCHANGED <<storeVars, catalogueVars, published, events, down, tick, job>>

Empty == [i \in {} |-> 0]

(* The machine is lost with its database, its blobs and its backups. *)
Lose ==
    /\ ~Lost /\ tick' = "lost" /\ job' = NoJob
    /\ refs' = {} /\ disk' = {} /\ held' = [w \in Writers |-> {}]
    /\ archives' = {} /\ receipts' = Empty /\ rotten' = {} /\ attempted' = <<>>
    /\ remote' = [i \in Ids |-> "none"]
    /\ day' = 1 /\ published' = 0 /\ events' = 0 /\ down' = FALSE

ScheduleStep == Tick \/ StartScheduled \/ StartPrune \/ StartRetry
JobStep == \/ OpenSnapshot \/ Capture \/ Link \/ Catalogue \/ CopyRemote \/ RecordCopy
           \/ PruneRemote \/ PruneLocal \/ PruneReceipt \/ EndPrune
EnvStep == \/ \E p \in {"schedule", "host"} : Interrupt(p)
           \/ \E i \in Ids : Rot(i)
           \/ Outage \/ Return \/ NextDay

Init ==
    /\ refs = {} /\ disk = {} /\ held = [w \in Writers |-> {}]
    /\ archives = {} /\ receipts = Empty /\ rotten = {} /\ attempted = <<>>
    /\ remote = [i \in Ids |-> "none"]
    /\ day = 1 /\ published = 0 /\ events = 0 /\ down = FALSE
    /\ tick = "none" /\ job = NoJob

Next == StoreStep \/ ScheduleStep \/ StartManual \/ HoldFiles \/ JobStep \/ EnvStep

Spec == Init /\ [][Next]_vars
=============================================================================
