----------------------------- MODULE FullRestore -----------------------------
(* A machine is lost and one archive of it is restored into an empty database *)
(* and an empty directory, stopped anywhere; the server that is then started  *)
(* over them must find all of the archive and none of its sessions            *)
(* (backup/full/restore.ts, restore-state.ts, app.ts).  A restoration beside  *)
(* the running installation is the same: the command refuses the active       *)
(* database and directory, and reads a private copy of the archive.           *)
EXTENDS FullBackup

VARIABLES
    restoring,    \* where the restore command is
    marker,       \* .full-restore-state of the directory
    files,        \* blobs restored to the directory
    restored,     \* the dump is restored to the database
    revoked,      \* its sessions are revoked and its devices set aside
    activating,   \* where the activation command is
    serving       \* a server runs over the database and the directory

targetVars == <<marker, files, restored, revoked>>
restoreVars == <<restoring, targetVars, activating, serving>>

(* An archive that still authenticates, here or at the destination.  It has   *)
(* every blob its dump names: a backup that lacks one is refused.             *)
Salvageable(i) == i \in archives /\ (i \notin rotten \/ remote[i] = "whole")

LoseMachine ==
    /\ \E i \in Ids : Salvageable(i)
    /\ Lose
    /\ UNCHANGED <<restoring, targetVars, activating, serving>>

(* The archive is authenticated whole, the target is found empty, and the    *)
(* directory is claimed by creating the marker exclusively.                  *)
Claim ==
    /\ Lost /\ restoring = "none"
    /\ marker = "none" /\ files = {} /\ ~restored
    /\ restoring' = "claimed" /\ marker' = "claimed"
    /\ UNCHANGED <<vars, files, restored, revoked, activating, serving>>

MarkIncomplete ==
    /\ restoring = "claimed"
    /\ restoring' = "files" /\ marker' = "incomplete"
    /\ UNCHANGED <<vars, files, restored, revoked, activating, serving>>

RestoreFile(b) ==
    /\ restoring = "files" /\ b \in Blobs \ files
    /\ files' = files \cup {b}
    /\ UNCHANGED <<vars, restoring, marker, restored, revoked, activating, serving>>

(* pg_restore --single-transaction *)
RestoreDatabase ==
    /\ restoring = "files" /\ files = Blobs
    /\ restoring' = "database" /\ restored' = TRUE
    /\ UNCHANGED <<vars, marker, files, revoked, activating, serving>>

FinishRestore ==
    /\ restoring = "database"
    /\ restoring' = "none" /\ marker' = "data-restored"
    /\ UNCHANGED <<vars, files, restored, revoked, activating, serving>>

StopRestore ==
    /\ restoring # "none" /\ restoring' = "none"
    /\ UNCHANGED <<vars, targetVars, activating, serving>>

\* Mutant: any marker will do.
ActivatableClaimed == marker # "none"

Activatable == marker = "data-restored"

ReadMarker ==
    /\ activating = "none" /\ Activatable
    /\ activating' = "read"
    /\ UNCHANGED <<vars, restoring, targetVars, serving>>

Revoke ==
    /\ activating = "read"
    /\ activating' = "revoked" /\ revoked' = restored
    /\ UNCHANGED <<vars, restoring, marker, files, restored, serving>>

RemoveMarker ==
    /\ activating = "revoked" /\ marker # "none"
    /\ activating' = "none" /\ marker' = "none"
    /\ UNCHANGED <<vars, restoring, files, restored, revoked, serving>>

StopActivation ==
    /\ activating # "none" /\ activating' = "none"
    /\ UNCHANGED <<vars, restoring, targetVars, serving>>

(* assertFullRestoreActivated, over a target someone began to restore. *)
StartServer ==
    /\ marker = "none" /\ ~serving
    /\ files # {} \/ restored
    /\ serving' = TRUE
    /\ UNCHANGED <<vars, restoring, targetVars, activating>>

RestoreStep ==
    \/ Claim \/ MarkIncomplete \/ (\E b \in Blobs : RestoreFile(b)) \/ RestoreDatabase
    \/ FinishRestore \/ StopRestore
    \/ ReadMarker \/ Revoke \/ RemoveMarker \/ StopActivation
    \/ StartServer

RestoreInit ==
    /\ Init
    /\ restoring = "none" /\ activating = "none" /\ serving = FALSE
    /\ marker = "none" /\ files = {} /\ restored = FALSE /\ revoked = FALSE

BackupStep(A) == A /\ UNCHANGED restoreVars

RestoreNext == BackupStep(Next) \/ LoseMachine \/ RestoreStep
allVars == <<vars, restoreVars>>

RestoreSpec == RestoreInit /\ [][RestoreNext]_allVars

FairRestoreSpec ==
    /\ RestoreSpec
    /\ WF_allVars(BackupStep(ScheduleStep)) /\ WF_allVars(BackupStep(JobStep))
    /\ SF_allVars(BackupStep(HoldFiles))
    /\ WF_allVars(BackupStep(Return))
    /\ WF_allVars(BackupStep(StoreStep /\ \E w \in Writers : EndWrite(w)))

---------------------------------------------------------------------------
(* Types; a blob that a row names is on disk. *)
RestoreTypeOK ==
    /\ refs \subseteq disk /\ disk \subseteq Blobs /\ held \in [Writers -> SUBSET disk]
    /\ archives \subseteq 1..published
    /\ DOMAIN receipts \subseteq 1..published /\ \A i \in DOMAIN receipts : receipts[i] \in Receipt
    /\ rotten \subseteq 1..published /\ published \in 0..MaxArchives
    /\ remote \in [Ids -> {"none", "bad", "whole"}]
    /\ attempted \in Seq(Ids)
    /\ day \in Days /\ tick \in Ticks /\ job \in Job

(* What the snapshot of a backup names stays on disk until its blobs are      *)
(* copied, whatever requests and maintenance do beside it.                    *)
SnapshotsCaptured == job.step = "snapshot" => job.snap \subseteq disk

(* No step of a backup, a copy or retention, stopped anywhere, takes the       *)
(* latest verified archive away.                                              *)
RecoveryPointKept ==
    [][\A i \in Verified : (i = Max(Verified) /\ i \notin rotten' /\ ~Lost')
                           => i \in Verified']_allVars

(* The schedule makes no second backup of a deadline, whatever the host's      *)
(* commands ended while it waited for RUN.                                    *)
NoRedundantBackup ==
    \A i, j \in Verified : i < j /\ receipts[j].reason = "scheduled"
                           => receipts[i].verified < receipts[j].verified

(* The last deadline gets a verified backup, however many attempts failed. *)
BackedUpDaily == <>[](Lost \/ \E i \in Verified : receipts[i].verified = day)

(* Every archive that still has its digest is copied in the end. *)
EachIsCopied == <>[](Lost \/ Pending \subseteq rotten)

(* A server that starts over a restored target has the dump, every blob of     *)
(* the archive and none of its sessions, wherever the commands were stopped.  *)
ServedWhole == serving => restored /\ revoked /\ files = Blobs
=============================================================================
