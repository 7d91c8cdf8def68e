# A verification development for MyOwnNotion

MyOwnNotion is a self-hosted, offline-first notes workspace. Every device edits
its own encrypted replica; a server keeps the shared copy and gives it back. What
makes that hard is not the documents, which a CRDT merges, but everything around
them: which change is acknowledged and which is only believed to be, when a
payload or a key may be forgotten, what a backup must carry. This directory holds
TLA+ models of that machinery, the TLC runs that check small instances of them,
and proofs that hold for every instance.

Paths below are relative to the repository.

## 1. The system

| Part | State it keeps | Operations | Talks to | Correct when |
|---|---|---|---|---|
| Server page log (`apps/api/src/page-state/page-operation-service.ts`, `packages/database/src/repositories/page-operation-repository.ts`) | per page: a state row, the updates in sequence, receipts | `sync`, `applyServerCommands`, `#load`, `#rollReplayCheckpoint` | devices (HTTP), checkpoints, history, ambiguities | one row per update, causal order, page always loads, a response never skips a row |
| Checkpoints (`checkpoint-service.ts`) | snapshots with a state, a revision and a coverage | create, verify, compact | page log, history, backups, device frontiers | nothing is forgotten that a device, a revision or an ambiguity still needs |
| History (`page-history-service.ts`) | the window of rows not yet in a revision | consolidate (on request or due), restore a revision | page log, checkpoints | a revision and the checkpoint attached to it describe the same document |
| Ambiguities (`page-ambiguity-service.ts`, `persist-ambiguities.ts`) | concurrent edits whose meaning the owner must settle | detect, resolve | page log, compaction | detected whenever branches meet; settled ones hold nothing back |
| Device frontiers | per device: durable version vector, confirmed prefix | recorded by `sync`, read by `compact` | devices | only advance, and are proved by the log |
| Device authorization (`packages/domain/src/security/device-state.ts`) | pending, active, reauthorization-required, revoked | register, suspend, reauthorize, revoke | every request, compaction | an absent device is waited for until it is revoked |
| Page archive (`apps/api/src/backup/page-operation-archive.ts`) | the pages inside a portable backup | export, verify, restore | database, backup destinations | what is restored loads, and serves the devices it knows |
| Client reconciler (`packages/client-core/src/page-sync/page-reconciler.ts`, `encrypted-update-log.ts`, `local-page-state.ts`) | per device: durable vector, cursor, rows pending/sending/blocked | commit locally, send, commit the response, recover | server page log, tabs | what was written is eventually acknowledged; nothing acknowledged is lost |
| Tabs (`page-editing-session.ts`, `tab-channel.ts`) | a document per tab over one durable state | adopt the rows of another tab | client reconciler | tabs of one device converge |
| Legacy pages (`legacy-page-editing-session.ts`, `migration.ts`, `page-activation-service.ts`, `packages/page-state/src/legacy-offline-branch.ts`) | the document before activation, the offline branch | activate, convert once | page log, outbox | the branch is converted exactly once |
| Mutations and change feed (`packages/database/src/mutations`, `apps/api/src/routes/mutation-batch.ts`, `routes/changes.ts`) | items and revisions, one verdict per mutation identity, numbered changes | submit, list changes | outbox, write block | a repeated mutation gets its first verdict; every device receives every change |
| Workspace outbox (`packages/client-core/src/outbox`, `reconciliation`) | queued mutations, projections, conflict records, change cursor | enqueue, submit, settle, merge, resolve, catch up | change feed | an edit is queued, kept or accepted, once; the screen does not lose queued work |
| Key rotation (`apps/api/src/admin/commands/rotation-data-key.ts`, `apps/api/src/security`, `packages/database/src/repositories/security`) | key generations, rotation operations and checkpoints, policies | start, sweep, resume, complete, revoke, block writes | every protected writer, files | nothing stored under a revoked generation, a crash resumes, nobody writes under a retired key |
| Files (`apps/api/src/files`, `packages/blob-store`, `apps/web/src/features/files`) | upload sessions, chunk indexes, blob journal, the device's queue of files | create, append, publish, read, rotate, collect | database, blobs, key rotation, backups | an acknowledged byte is kept, a chunk in use is never deleted, an unused one is |
| Full backup (`apps/api/src/backup/full`, `backup/schedule.ts`) | archives, receipts, the remote copies | schedule, run, copy, retry, prune | database, blobs, remote destination | a backup a day, whole, copied; retention keeps a recovery point |
| Full restore (`apps/api/src/backup/full/restore.ts`, `restore-state.ts`) | a marker on the target, files, the database | claim, restore, activate, start | an archive, the server | no server runs over half a restoration |
| Hierarchy, databases, search, graph, import, export, MCP, user interface | derived data or adapters | | the above | |

**Concurrency.** Every server operation on a page is one SERIALIZABLE transaction
that first locks the page's state row, so two operations on one page never
interleave inside; they interleave in every order as wholes, with timers
(consolidation of history, creation of candidates, compaction), the owner (device
lifecycle, ambiguities, restoring a revision) and the backup. Mutations lock the
item they change and nothing else. Writers of blobs share an advisory lock that
rotation, cleanup and the backup's inventory take alone, in the order they ask
for it. On the device several tabs share one store under a named lock and run
their own reconcilers.

**Failure.** Requests and responses are lost and retried; a device disappears for
months and comes back with a branch; a process dies between two transactions, or
between the file system and the database; a backup older than some devices' work
is restored.

The hazards this leaves, each at the line where it bites, are listed in
`PROJECT.json` with the properties that would catch them.

## 2. The modules

Four groups that share no state in the models. Where the code couples them, the
coupling is a constant or an action of the environment: the write block of an
overdue rotation is `refusing` in `MutationFeed`; the cleanup of files is `Collect`
in `FullBackup`; a verified backup is `VerifiedBackup` in `PageOperationLog`.

    PageOperationLog                                       PageOperationLogProofs
                     <- PageOperationRestore <- MC...      PageOperationRestoreProofs
                     <- PageSync <- MCPageSync             PageSyncProofs
    PageReplica      <-    |
    SharedPage       <- (implemented by PageSync)

    MutationFeed <- WorkspaceSync <- MCWorkspaceSync       WorkspaceSyncProofs <- WorkspaceWorkProofs

    DataKeyRotation                                        DataKeyRotationProofs
    ProtectedFiles <- FileTransfer <- MCFileTransfer       ProtectedFilesProofs
    FullBackup <- FullRestore                              FullRestoreProofs

A definition named after a mistake, introduced by a comment `Mutant:`, is not part of
a specification: it is a plausible error in the definition below it, kept to show
that a property can tell the two apart.

### PageOperationLog

One operational page on the server. An update is its identity and the frontier it
was authored on; a version vector is the set of updates it dominates, so
`versionVectorDominates` is set inclusion. This abstraction keeps what the log
decides on and drops what the CRDT computes; two updates that really conflict are
a choice (`Detections`).

| Variable | Code |
|---|---|
| `rows` | `page_operation_updates` by `page_sequence`; `compacted` is an absent update envelope |
| `checkpoints`, `current` | `page_operation_checkpoints` by `through_page_sequence`, and the state row's `current_checkpoint_id`. `floor` is how much history the snapshot has trimmed, `revision` whether it is attached to the page's last revision, `covered` whether a verified backup names it |
| `windowOpen` | `revision_window_started_at` is set |
| `frontiers` | `page_device_frontiers` |
| `authorization` | `authorized_devices.state` |
| `ambiguities` | `page_ambiguities`, by their source updates |

| Action | Code |
|---|---|
| `Sync` | `sync` in mode `active`, whole: the due consolidation, `#load`, identity checks, `#rollReplayCheckpoint`, the repeated scans of the batch, `#confirmedRequestPrefix`, the row window and byte budget, the device frontier, `#detectAmbiguities`, the later consolidation |
| `RestoreRevision`, `ResolveAmbiguity` | the two callers of `applyServerCommands` |
| `ConsolidateDue` | the background timer of the history service |
| `CreateCandidate`, `VerifyCandidate`, `Compact`, `CompactionBlocked` | the checkpoint service; a compaction blocked by a device still marks revoked frontiers |
| `VerifiedBackup` | `recordPageOperationBackupCoverage` after a read-back |
| `RequireDeviceReauthorization`, `Reauthorize`, `RevokeDevice` | the device repository |

`Plans(r)` is everything `sync` decides before it writes: it is empty exactly when
the request is refused. A refusal rolls the transaction back and is no step.
Which order the batch is imported in is not invented: `IsImportOrder` is the
repeated circular scan of the code, and it is a function of the request.

### PageOperationRestore

Adds `archive`, the page as the last verified backup carries it: `export` leaves
out candidates and superseded checkpoints. `Restore` replaces the operational
tables and keeps the authorization inventory, as `database-restore-target.ts`
does.

### MCPageOperationLog, MCPageOperationRestore

Instances: device `d1` writes `a1`, `d2` writes `b1` concurrently and `b2` after
seeing both; with a restoration the server authors `s1` and `s2` instead.
Requests are every sequence of a device's updates (in and out of order, with a
missing dependency, with a repeated identity, truncated) with the frontier the
client names, and polls from every causally closed frontier, which includes those
of stale tabs.

### PageReplica

The device side of the same page, for several devices at once. The store of a
device is written under the page lock in one IndexedDB transaction, so a commit
is one action; what lies between two of them interleaves.

| Variable | Code |
|---|---|
| `durable` | `PageOperationStateRecord`: the durable version, `lastServerPageSequence` (`cursor`), the frontier last announced by the server (`server`), the open ambiguities |
| `queue` | `PageOperationUpdateRecord` rows by update: causal base, order number, age (creation time), `pending`, `sending` or `blocked`; an accepted row is deleted |
| `tabs` | the `PageEditingSession` of each tab: what its replica shows and its `#nextEnqueueOrder` |
| `exchange` | what the owner of the origin-wide synchronization lock is doing: `idle`, `waiting` for the answer to a request, or `answered` and about to commit |

| Action | Code |
|---|---|
| `Edit` | `#enqueue` and `#commitLocalTransaction`: the row and the state in one transaction, on what the store holds by then, then the adoption of the store unless the owner is typing |
| `Adopt`, `Reload` | `adoptDurablePage` on a notice; a tab that closes or crashes, with or without the lock, and `resume` |
| `Send` | the head of `#run`: `recoverInterruptedSending`, `selectPageUpdateBatch`, the claim of the rows and the frontier the request proves |
| `Receive`, `Refused`, `Fail` | the answer, a problem (of `BLOCKING_PROBLEMS` or not), and every other end of the exchange |
| `CommitResponse`, `RejectResponse` | `#commitResponseOnce`: the checks in their order, then one transaction; or `projection-invalid`, after which the claimed rows are blocked |
| `DetailsRefused` | `getAmbiguity` fails with anything but a lost connection (401, 429, 5xx, an unreadable detail: `page-operations-api.ts:187-226`): the claimed rows are blocked (`page-reconciler.ts:803-812`). Offline it is `Fail` |
| `Unreadable` | a 200 whose body does not parse is `projection-invalid` (`page-operations-api.ts:107-127`), one of `BLOCKING_PROBLEMS`: the claimed rows are blocked after the server accepted them |

A row records the frontier its tab had, which may be behind the store: that is how
the code numbers and bases the work of two tabs.

### PageSync

Composes `PageOperationLog` and `PageReplica` (by `INSTANCE`) over a network. A
request is served (`Serve`, the whole of `sync`), refused (`Refuse`, whose
outcomes `Refusals` derives from the guards of `sync`), or the device stops
waiting (`GiveUp`, `Reload`). An abandoned request may still be on its way: `late`
keeps one for each device and `ServeLate` serves or loses it at any later time,
which together with the retry makes duplicated and reordered delivery. The
answer takes what it says from the plan of `Serve`, and the ambiguities open when
it was served; at any time until the commit its details may be refused or its body
turn out cut, whatever the request was. `ServerStep` is every operation of the server that is nobody's request.

### SharedPage

What synchronizing promises, without rows, cursors, frontiers or requests: every
device knows a set of updates, one set is shared, both only grow, a device
contributes only what it knows and learns only what is shared. `SharesOnePage`
instantiates it with `known` the durable version of each device and `shared` the
document of the server.

### MCPageSync

Device `d1` writes in the tabs `t1` and `t3`, `d2` in `t2`; `BoundedNext` names
the bounds of section 3.

### MutationFeed

The server's side of everything that is not page content. An edit changes one
field of one item and is submitted under mutation identities `<<edit, n>>`: a retry
keeps the identity, a rebase or a resolution takes the next.

| Variable | Code |
|---|---|
| `contents`, `head` | `revisions` and the current revision of each item |
| `receipts` | `mutations`: the verdict kept for each identity |
| `feed`, `drawn` | `changes` by `sequence`, and the last number its identity column drew |
| `open` | by item, the transaction that has written it and has not committed |
| `refusing` | the write block of a rotation overdue beyond its deadline |

| Action | Code |
|---|---|
| `Accept`, `Commit` | `submitMutation` (`execute-command.ts:837-940`): the number is drawn at the insert, everything appears at the commit |
| `Refuse` | `execute-command.ts:941-969`: the refusal is kept, so a late copy can only repeat it |
| `WriteBlocked` | the guard of `plugins/mutations.ts:306`, last in the transaction: nothing is kept |
| `Answers` | the verdict of a submission, from its receipt when there is one (`replayResult`) |
| `ToggleRefusing` | `rotation-policy-service.ts:105` |
| `ChangesAfter` | `listChangesAfter` |

### WorkspaceSync

Composes any number of devices with `MutationFeed`.

| Variable | Code |
|---|---|
| `outbox` | `OutboxMutationRow` in order: identity, base revisions, payload, local revision, status |
| `conflicts` | refused work kept for the owner |
| `view`, `cursor` | the optimistic projection of each item, and the last change applied |
| `pass` | where `reconcileAsOwner` stands: idle, submit, wait, settle, list, apply, with what it has read |
| `late` | a request given up on that the server still serves |
| `tries` | identities each edit has taken |

| Action | Code |
|---|---|
| `MakeEdit`, `Resolve` | `apply-local-mutation.ts`, `resolve-conflict.ts:162`: projection and row in one transaction; the record of a conflict goes after its resolution is queued |
| `Command` | a client without a queue, straight to the server |
| `Begin`, `Submit` | `recoverInterrupted`; `nextCausalBatch` (`reconcile.ts:103`) and `markSending` |
| `Serve`, `ServeLate` | `routes/mutation-batch.ts`, one mutation at a time |
| `GiveUp`, `Crash`, `Offline`, `CrashApplying` | the failures; a crash keeps the rows `sending` |
| `Answer`, `Settle` | `reconcile.ts:379-447`, one transaction per result: `Acknowledge`, `Requeue` (a merge under a new identity), `CaptureConflict`, `MarkBlocked` of `outbox.ts` |
| `List`, `Apply` | `routes/changes.ts`; `reconcile.ts:529` and `applyServerChange`, unless work was queued since the page was asked for |

### DataKeyRotation

The rotation of a workspace's data key beside protected writes and deletions, one
action per transaction or per read outside of one: what a command read before a
transaction may be stale inside it.

| Variable | Code |
|---|---|
| `generation`, `sealed`, `index` | the state of each key generation; the generation that seals each record or file; the one a file's chunk index names |
| `operation` | `rotation_operations` with the last checkpoint of each |
| `policy` | the data-key row of `rotation_policies` and its write block |
| `writer` | the generation each protected write is sealing under |
| `command` | the step of each run of the administration command, and what it has read |

`BeginWrite`, `Publish`, `RefuseWrite` are `writePinned`; `OwnerStart` the route of the
application; `Launch`, `Find*`, `Start*`, `Resume*`, `ReadCheckpoint`, `List*`, `Rewrite`,
`RewriteFile`, `NoFileLeft`, `Complete`, `Fail`, `AbandonRotation` the run of
`rotation-data-key.ts` from its first read to its end; `AskRevocation`, `Revoke`,
`RevokeRefused` its `--revoke-generation`. `LoseTransaction` and `Crash` are a failed
transaction and a stopped process; `LoseIndex` and `RepairIndex` the damage that
`Verified` exists for and its repair by the administrator.

### ProtectedFiles

The server's side of files: the blobs on disk against the rows that name them.

| Variable | Code |
|---|---|
| `blobs`, `journal` | chunk files; the journal of intended writes (`registerBlobWriteIntent`) |
| `uploads` | `uploads` with their chunk index: bytes received, chunks |
| `contents`, `files` | encrypted contents and the files published on them |
| `tx` | what each request under way holds and has done |
| `cleaning` | the cleanup waits for the exclusive lock, and new sharers wait behind it |

`Create`, `OpenAppend`, `CommitAppend`, `RefuseAppend` are `protected-upload-service.ts`;
`RegisterIntent`, `PutBlob` one chunk of the store, journalled first;
`OpenPublish`, `PublishNew`, `PublishReused`, `PublishUndone` are `completeUpload` and
`ingestContent`, the bytes stored already included; `Abort` any end before the
commit; `OpenRead`, `CloseRead` `pinned-file-read.ts`; `RetireExpired`, `QueueCleanup`,
`Collect`, `CollectInterrupted` `protected-file-cleanup.ts`; `Rotate`,
`RotateInterrupted` `protected-file-rotation.ts`. Bytes are a sequence of letters, chunks
hold `Holds` of them.

### FileTransfer, MCFileTransfer

Adds the devices that send files (`device`), the requests in flight (`sent`) and
`faults`. A device asks for the upload (`Discover`), looks for a verified file
(`LookForFile`), asks for the offset (`Ask`), creates or appends (`SendCreate`,
`SendPatch`); `Arrive*` and `Serve*` are the route; `GiveUp`, `Interrupt` and `Maintain`
the faults; `HousekeepFiles` the timer.

### FullBackup

| Variable | Code |
|---|---|
| `refs`, `disk`, `held` | blobs that rows name, blobs stored, blobs of requests under way |
| `archives`, `receipts`, `rotten`, `remote`, `attempted` | the backup directory, its receipts, the archives that lost their digest, the remote copies, the order of failed copies |
| `day`, `published`, `events`, `down`, `tick` | deadlines passed, identities given, environment, what the schedule has left in this tick |
| `job` | what the holder of the lock RUN does |

`Tick`, `StartScheduled`, `StartManual` are `schedule.ts` and `service.ts:124-213`;
`HoldFiles`, `OpenSnapshot`, `Capture`, `Link`, `Catalogue` the capture under the locks of
`locks.ts`; `CopyRemote`, `RecordCopy`, `StartRetry` the copies; `StartPrune`,
`PruneRemote`, `PruneLocal`, `PruneReceipt`, `EndPrune` retention, over three stores in
that order; `Interrupt`, `Rot`, `Outage`, `Return`, `NextDay` the environment.

### FullRestore

Adds the loss of the machine (`LoseMachine`) and the target: `marker`
(`.full-restore-state`), `files`, `restored`, `revoked`, what the two commands do
(`restoring`, `activating`) and `serving`. `Claim`, `MarkIncomplete`, `RestoreFile`,
`RestoreDatabase`, `FinishRestore` are `restoreFullBackup`; `ReadMarker`, `Revoke`,
`RemoveMarker` are `activateFullRestore`; both stop anywhere; `StartServer` is
`assertFullRestoreActivated`.

### The proof modules

`PageOperationLogProofs`, `PageOperationRestoreProofs`, `PageSyncProofs`,
`WorkspaceSyncProofs`, `WorkspaceWorkProofs`, `DataKeyRotationProofs`, `ProtectedFilesProofs`,
`FullRestoreProofs`: the theorems of section 4.

## 3. The runs

| Run | Checks | Shows |
|---|---|---|
| `PageOperationLog` | `TypeOK`, `Reloadable`, `CompactionAtHead`, `CanCatchUp`, `FrontierProven`, `CausalLog`, `CatchUpComplete`, `OfflineWorkComparable`, `FrontierAdvances` | batches in any order against answers cut at two rows and one payload, with revision windows, replay checkpoints, backups, ambiguities, compaction, suspension and revocation: the page always reloads, a device that is not revoked can catch up, its recorded frontier is proved and never moves back, a branch can always be compared |
| `PageOperationRestore` | `Reloadable`, `CanCatchUp` | a backup taken at any moment is restored at any other |
| `PageSyncSafety` | `CursorCovered`, `ServerFrontierHeld`, `NothingLost`, `VisibleIsDurable`, `SharesOnePage` | two devices, one with two tabs, exchange with losses, late requests and reloads: what a device believes of the server is held at both ends, no edit leaves both queue and log, no commit takes back what a tab shows, and all of it implements `SharedPage` |
| `PageSyncSettles` | `SetAsideIsAccepted`, `Settles` | with requests and answers lost, cut short or refused their details: a row is set aside only once the server has accepted it, and under fairness all devices end on the one document with nothing queued but such rows |
| `PageSyncPaging` (violation) | `PagedCatchUp` | finding 1 |
| `WorkspaceSync` | `NothingDropped`, `AcceptedOnce`, `OnlyBlockedIsHidden`, `ConflictsAreReal`, `NoChangeSkipped`, `Converges` | a device edits while another client changes the same item, some work is refused and a write block comes and goes, with losses, late copies and crashes: nothing written is dropped or applied twice, queued work is hidden only once the server has blocked it, and under fairness the device ends with the server's content |
| `WorkspaceSyncMerge` (violation) | `AcceptedChangesStand` | finding 2 |
| `WorkspaceSyncFeed` (violation) | `NoChangeSkipped` | finding 3 |
| `DataKeyRotation` | `Readable`, `NothingBehindCursor`, `SweptWhenComplete`, `RotationCompletes` | rotations are started, stopped anywhere, resumed, failed, followed by revocations, beside writes and a lost index: nothing becomes unreadable, nothing is left behind the cursor, a rotation that minted its generation completes unless one without a generation is started after it |
| `DataKeyRotationOwner` (violation) | `EveryRotationCompletes` | finding 4 |
| `FileTransfer` | `StoredIntact`, `NothingLeaked`, `ReadersFindChunks`, `ForgottenOnlyWhenVerified`, `Synchronizes`, `SpaceReturns` | files are sent in pieces with losses, interruptions and repetitions, the same bytes stored already, transfers expiring, chunks rotated, readers, garbage collected: acknowledged bytes stay, no chunk is orphaned or taken from a reader, the device gives up only a verified file |
| `FullRestore` | `SnapshotsCaptured`, `NoRedundantBackup`, `ServedWhole`, `RecoveryPointKept`, `BackedUpDaily`, `EachIsCopied` | two days of backups with rot, outages, interruptions and commands of the host, then one archive restored and activated, stopped anywhere |

The instances run in one second to four minutes and have up to 400,000 distinct states.

**Bounds.** Every bound is a CONSTANT or is named in `BoundedNext`.

*Page log.* `MaxRows` (the code's `MAX_PAGE_UPDATES_PER_SYNC`) is 2 and `MaxRemote` (the
byte budget, in updates of one size) is 1, so that with three rows both cuts
happen and happen apart. `ReplayInterval` is 2, or 1 with a restoration, so a
replay checkpoint rolls between any two batches. `MaxCheckpoints` caps candidates
at 3: the initial one, a rolled or compacted one and the next. Three updates are
enough for two concurrent branches and a dependency. `Managed` names the device
whose authorization changes; the other stays active.

*Page synchronization.* `BoundedNext` settles the revision window in the request
that opens it (as when the editor was closed), so that windows and checkpoints,
which `PageOperationLog` explores, do not multiply the states of the devices;
`Delayed` names the devices whose lost requests may arrive late. `PageSyncSafety`
keeps both cuts of the answer; its symmetry exchanges the two tabs of one device,
which the model never tells apart. `PageSyncSettles` lifts them, because an answer
that is cut is the subject of finding 1 and would only repeat it; each device writes one
update in one tab, and no request arrives late. `Settles` was checked once with late
requests of `d1` (151,140 states), with `d1` writing both updates (12,586), and with
three tabs (167,892). In `PageSyncSafety` `d1` writes two
updates in two tabs, enough for one to be behind the other, and `d2` exchanges with no
editor open; with one open on `d2` too it was checked once (714,692 states).

*Workspace.* One device with two edits of one item, and a third edit of it sent
straight to the server (`Direct`): a device interacts with others only through the
server, so their part is played by commands. The edits `a1` and `b1` meet in one field, `a2` is
in the other, so that merges and clashes both occur; `a2` may be rejected, `b1` names no
base. `a1` may take three identities: first, merged, merged or resolved again.
`MaxOpen` is 1, the transactions commit in the order of their numbers: with 2, finding 3.
Larger instances were checked once: a fourth identity (3,080,276 states), and two
devices with two items and two open transactions (1,242,670) for the invariant of
the proof.

*Rotation.* Two records and a file in batches of one, two generations, three operations
and two failures: enough for a cursor with something before and behind it, a resumed
operation, and a stranded operation started while an older one that minted its
generation has failed. A third generation repeats the first rotation; it was checked once
with one record and one failure (150,800 states), and without the liveness with two
records (979,588). The run has one command;
two commands at once were checked once (871,724 states), and the theorems
hold for any number.

*Files.* An empty file, two short ones of the same length, one of more than a chunk
and not a whole number of them; `Holds` is 2, a request carries 2 parts: kept
prefixes, a partial last chunk and an empty finalizing request all occur.
`short2` is stored already when the run starts. Two requests at once and two
faults. `Copies` is never exhausted. A request nobody listens to any more is kept
once. The instance with two-chunk copies was checked once (282,794 states).

*Backup.* One blob and one writer, two days, archives kept for one, two events
(command, interruption, outage or rotten archive), four archives, a retry counter
that saturates at 2. Two blobs were checked once (836,707 states).

**Deadlock.** A page whose devices have nothing more to say and whose history is
settled is at rest, so the runs of the page do not check for deadlock; nor does
`FullRestore`, where a restored installation has nothing left to do. All others do.

**Fairness.**

- `Settles`. `WF(Send)`: an exchange starts again and again while a page is open
  (`apps/web/src/services/local-content.ts` calls `synchronize` on mount, on
  reconnection, on a hint of the change stream and on the notice of a tab). An outcome
  `blocked` asks for no exchange itself: a pass counts it as settled (`:866`), and the
  blocked rows are never sent again. The next exchange, with the rows that came since or
  none, is the one the next mount, reconnection, edit or announced advance
  (`:449`) starts; that there is one is the assumption.
  `SF(Serve)` and `SF(Commit)`: a network that loses most requests, details that are
  refused and bodies that come cut most times, a device that mostly crashes between answer
  and commit, but none of it for ever. Nothing is assumed of editing, of adoption, of late
  requests or of the server's maintenance. What `Settles` does not say is that the queue
  empties: rows that were set aside stay in it, and the owner is not shown the page as
  synchronized.
- `Converges`. `WF(Pass)` for each device, whose passes follow each reconnection and
  each announced change; `WF(Commit)`, a transaction of the server ends; and
  `Connected`, after some time nothing fails any more. Nothing is assumed of the
  owner: conflicts may stay.
- `RotationCompletes`, of an operation after which none is stranded, that is started without
  the generation it names (finding 4). `WF(EndWrite)`, writes end; `SF` of the command's steps, because a
  crash sends it back to its start and not for ever; `SF` of launching it again
  while an operation is unfinished, which the administrator does. `WF(RepairIndex)` is an
  assumption on the environment: lost rows are put back.
- `Synchronizes`, `SpaceReturns`. `SF(Advance)` for the device and its network, `SF(Serve)`
  for each worker, `WF(HousekeepFiles)` for the timer. PostgreSQL grants advisory locks
  in order, which `cleaning` models: sharers that come later wait behind it. Readers end.
- `BackedUpDaily`, `EachIsCopied`. `WF` of the schedule, of the job under way and of writers
  that end; `SF(HoldFiles)`, since the lock queue is first in, first out; `WF(Return)`,
  the destination comes back.

### Findings

1. *A device further behind than one answer cannot catch up.* An answer cut at the
   row window or the byte budget still announces the frontier of the whole
   document (`page-operation-service.ts:942`), and `#commitResponseOnce`
   (`page-reconciler.ts:1004`) refuses an answer that does not reach the frontier it
   announces. `plan.md:562` of `specs/017` says that catch-up windows are paginated.
2. *A later edit of the same item undoes an accepted change.* `requeueMerged`
   (`outbox.ts:287`) merges the refused row only; the next row of the item keeps a payload
   computed without the other device's change, and is accepted as a fast-forward.
   `spec.md:133` of `specs/006` says that neither version is destroyed.
3. *A change may never reach a device.* `changes.sequence` is drawn at the insert
   (`change-sequence.ts:14`), so a lower number may commit after a device has read a
   higher one. `spec.md:194` of `specs/006` promises every change, in order.
4. *A rotation the owner starts cannot be completed.* The route
   (`security-rotation.ts:222`) mints no generation; the command that resumes the
   operation then violates `rotation_operations_progression_check` every time, and the
   active operation keeps any other from starting. It also keeps an older operation that
   minted its generation and failed from being resumed: `findRunningRotation`
   (`rotation-repository.ts:228-231`) takes the newest unfinished one every time, which is
   why `RotationCompletes` excepts what was begun before it. `spec.md:124` of `specs/002`
   calls each operation resumable.

Observed while modelling, without a run of their own. Of pages:

- A settled ambiguity holds back compaction for ever:
  `hasPageAmbiguityDependencyThrough` (`page-operation-repository.ts:996`) does not look at
  its state; `data-model.md:490` says that settling one allows a later compaction.
- After a restoration an absent device's branch may be refused: the archive keeps the
  retained updates from before a replay checkpoint but not the superseded
  checkpoint in front of them, where the comparison of branches starts
  (`page-operation-archive.ts:886`, `page-operation-service.ts:1176`);
  `database-restore-target.ts:80` promises the opposite.
- A batch may leave behind a row one of its updates depends on:
  `#recordDurableCommit` (`page-editing-session.ts:600`) adopts what another tab wrote
  without raising its own order number. `page-reconciler.ts:66` calls the batch a
  prefix in causal order. The server refuses it as `missing-dependency`.
- The cursor an answer carries may be behind that of the device.
  `page-reconciler.ts:946` refuses it; the comment at `page-operation-service.ts:739`
  expects such answers, from a tab that had not adopted yet.
- A transient failure sets aside rows the server has accepted, for ever. When the
  details of an ambiguity cannot be read, for whatever reason but a lost connection
  (`page-reconciler.ts:589-592` and `:803-812`), or the answer itself comes cut
  (`page-operations-api.ts:107-127`), the claimed rows become blocked, and nothing sends
  them again. `data-model.md:110` of `specs/018` keeps `blocked` for a permanent refusal,
  and FR-007 (`spec.md:322`) wants a lost answer replaced by the idempotent confirmation
  of the same update; `page-reconciler-rejection.spec.ts:115` expects the blocking.
  `SetAsideIsAccepted` says that no work is lost by it, `Settles` that the page still
  catches up.
- A 200 that does not come from the server at all (a portal, a proxy) has the same effect
  on rows the server has not accepted; the modelled network only delivers, cuts and
  loses what the server sends.
- Compaction waits only for authorized devices with a frontier row;
  `data-model.md:347` documents this.

Of the workspace: a row that `markBlocked` keeps in the queue (`outbox.ts:319`) is not counted
by `outbox.pending()`, the guard of the feed, so catching up erases its projection, and
nothing moves it back to pending. The comment at `reconcile.ts:473-476` promises that queued
work's projection is not erased, and the page of the feed follows the same guard (`:535`):
for blocked work that promise is false, and no run checks it;
`OnlyBlockedIsHidden` states what is left of it. A refusal is recorded in a
transaction after the one that refused (`execute-command.ts:941-958`). A late copy of an
edit that names no base may be accepted after a newer one of the same device.

Of keys: the completion of a wrapping-key rotation never passes `currentGeneration`,
and `rewrapRootKey` overwrites the row that `readsAllowedDuringWrappingRotation`
promises to keep; `fromGeneration` is read outside the transaction that starts a rotation;
of two commands on one operation, the loser may mark as failed what the other completed.

Of files: a database session lost while its process writes on can leave a blob that
neither a row nor the journal names. `UPLOAD_TTL_MS` (`upload-repository.ts:52`) is
described as time since the last byte, and counts from the creation (`:84`). A
canonical transaction of `specs/025` removes the intent where a serializable caller
does not see it (`protected-file-service.integration.spec.ts:80-89`), without harm.

Of backups: a prune interrupted between the deletion of the remote copy
(`service.ts:172`) and of the archive (`:177`) leaves an archive whose receipt says
`verified` for ever, which the comment at `:164` excludes. A crash between the link of
an archive and its receipt leaves an archive that retention never sees. When
`runBackup` throws, neither retention nor retries happen in that tick.

## 4. What is proved

`PageOperationLogProofs`, for every set of devices and updates, every set of
requests a device may send and every value of the limits. Assumptions:
`RequestsAssumption` (requests are well typed, and devices do not forge the
identities of the server's commands, which are fresh UUIDs) and
`LimitsAssumption` (the limits are positive).

- `TypeCorrect`, `Spec => []TypeOK`. One lemma per family of actions. The part that
  is not bookkeeping: the current checkpoint is always stored, within the log.
- `AlwaysCausal`. `ImportedCausally` shows that whatever order the repeated scan
  yields, an update follows its base and is new; `PrefixAppended` carries this
  to the log.
- `CompactionIsAtHead`. Inductive with `TypeOK`: closing a window attaches only a
  checkpoint at the head, and whatever adds a row reopens the window or detaches
  every checkpoint.
- `AlwaysReloadable`. `Reloadable` is not inductive: compaction would trim a row
  it did not look at were the checkpoint not at the head. The strengthening is
  `Rebuildable == TypeOK /\ CompactionAtHead /\ FloorsBounded /\ Reloadable`.
  `StillLoadable` is the common argument of the steps that add rows.
- `ReceiptsAreImmutable` (no run checks it) and
  `FrontiersAdvance`, action properties from `TypeOK`.
- `FrontiersAreProven`. A prefix is confirmed only if the vector of the request
  dominates it (`PlanFacts`), and a vector is replaced only by a larger one
  (`ConfirmedCases`).

- `AnswersAreComplete`, for `CatchUpComplete`. The heart is `PollIsAnswered`: whatever
  limit cuts the answer, its rows begin right after the prefix the request proves, so
  the confirmed cursor and the rows returned have no gap (`AnswersHaveNoGap`).
- `AbsentDevicesCatchUp`, for `CanCatchUp`. The strengthening is `HistoryWaits`: payloads
  are forgotten from the first row on; a device that has a recorded, not revoked
  frontier holds everything forgotten; whoever wrote has a recorded frontier; a
  newcomer is refused or holds all that was forgotten. It is kept by the steps of
  devices that are `Honest` (they never claim the server's own identities). The longest
  proved prefix and the furthest cursor exist by well-founded induction (`LeastOf`,
  `GreatestOf`).
- `OfflineWorkCompares` and `WholeRequestsCompare`, for `OfflineWorkComparable`. The
  invariant is `Trimmed`: what is forgotten is exactly the rows below the floor of the
  current checkpoint, which is itself a stored checkpoint; every retained row can be
  imported there; a checkpoint beyond the current one trims to itself, so promoting it
  keeps all this. A branch then rebuilds from that checkpoint (`BranchesRebuild`) if
  the log is `Whole`: no update was written on another without what that one was
  written on. Version vectors of a replica are whole, but `Requests` may be any set, so
  it is a hypothesis: of every state (`FrontiersWhole`) in the first theorem, of the
  requests alone (`RequestsWhole`) in the second. For the requests of the modelled
  devices it is proved, below. TLC checked `Trimmed` and `FrontiersWhole` on the instance of
  the run first.

These lemmas are about `LogStep`, a step of the log or a synchronization from any
request, so that `PageSyncProofs` can take them for the requests of its devices.

`PageOperationRestoreProofs`, for every set of devices, updates and requests. The archive
is a page of its own, for which the same invariant holds (`PageHolds`, a statement about
a record), so that restoring it re-establishes the invariant of the log. What an
archive lacks are the frontiers recorded after it was taken; revocation is final, so
nobody the archive did not wait for comes back.

- `RestoredPagesReload`, for `Reloadable`: a page restored at any moment, and compacted
  again, still loads.
- `RestoredDevicesCatchUp`, for `CanCatchUp`: so do devices absent over a restoration.

`PageSyncProofs`, for every set of devices, tabs and updates, every batch size and
every limit of the server. Assumption: `SyncAssumption` (a tab runs on one device; an
update is written by one device and is not the server's; every request comes
from a modelled device).

- `SyncInvariant` is the inductive invariant. For each device, `StoreHeld`: queued
  rows are durable and its own; what is durable and not in the log is queued; what
  it wrote is never in the log before it is in its store. `ExchangeHeld` and
  `LateHeld`: a request on its way, current or abandoned, tells only of what is in
  the store; an answer that waits to be committed, however old, is still true of
  the log (`AnswerHeld`, which `AnswerKept` carries over every step because the log
  only grows). Without these, `NothingLost` is not inductive: the commit of an
  answer that named an update the log lacks would drop its row.
- `SyncTypeCorrect`, for `SyncTypeOK`. A row is numbered after the greatest of its queue, so
  the invariant adds that a queue is finite (`FiniteIsBounded` gives the greatest number).
- `OnlyAcceptedIsSetAside`, for `SetAsideIsAccepted`, of the behaviours in which every device
  is active (`AllActive`; a device that is suspended is turned away, and its rows are
  set aside unseen). Nothing else is assumed: answers may be cut at any limit, lost,
  unreadable or refused their details, ambiguities settled, revisions restored. Two things
  are to prove. An answer is only given to a request whose updates are in the log by then,
  and the rows claimed for an exchange are those of its request (`ClaimsHeld`). And the
  server refuses no request for good (`NeverRefusedForGood`): for this `SoundInvariant`
  follows the `Work` that was done, the updates with their bases, on the log or queued,
  wherever they are. `WorkWhole`: an update is written once, and the stores, the tabs and
  the bases are closed under what it was written on, so the log stays `Whole` and the
  detection of ambiguities never refuses (`WorkIsWhole`). `RequestWhole` and `RowsOwned`:
  requests, current or late, tell of that work as it was written, so no identity is
  found reused. What remains is a refusal for missing dependencies, which releases the rows.
- `EditorsStrandNothing`, the same from a condition on the constants that the run
  `PageSyncSettles` meets: no device is `Managed`.
- `FittingAnswersAreTaken`: when the limits of an answer are not below the number of updates
  (`AnswersFit`), an answer the server gave passes every check of `#commitResponseOnce`
  from the moment it is given until it is committed, whatever the device writes in
  between (`UncutIsTaken`; `AnswersUncut`: its rows are distinct updates, so it reaches the
  end of the log). Then only unread details and cut bodies set rows aside. Without the
  condition an answer may be refused: the run `PageSyncPaging` shows it.
- `NothingIsLost`, `TabsStayCovered`, `CursorsStayCovered`, `ServerFrontiersHold` follow.
  The part that is about the server is `AnswerFacts`: what `sync` answers is true of
  the log it commits.
- `ServedPageReloads`: `Reloadable` in the composition. `ServedDevicesCatchUp`:
  `CanCatchUp`, since the requests of devices are honest (`RequestHeld`: a request names
  only what its device wrote, `SyncIsHonest`).
- `ImplementsSharedPage`, the refinement. The two steps that could fail are an edit
  (its update must be nowhere yet: `WrittenOnce`) and a late request (it may bring
  to the log only what its device still holds: `ServeLateKeeps`).

`DataKeyRotationProofs`, for every set of records, files, writers and commands, every
batch size, any number of generations, operations and failures. Assumptions:
`ObjectAssumption` (records and files are numbered apart: the cursor is over numbers)
and `BoundAssumption` (the limits are numbers).

- `RotationInvariant` is inductive: `RotationTypeOK` (with the unique index of the active
  operation and the monotone numbering of operations), `Readable`, `IndexFaithful` (an
  index row, where there is one, names the generation that seals), `OperationRetired`
  (the old generation of an operation that minted its target is retired: no write is
  pinned to it), `CommandReads` (what a command has read may be stale, but an
  operation only advances), `NothingBehindCursor`, `CommandSwept` (a command that lists
  nothing found nothing), `SweptWhenComplete`.
- `RotationTypes`, `StoredStaysReadable`, `SweepMissesNothing`, `CompletedIsSwept` follow. The
  step that matters is `Publish` beside a sweep: a write cannot put anything behind the
  cursor because `Pinned` looks at the generation again under its lock.

`ProtectedFilesProofs`, for every set of files, lengths and bytes, every number of
workers, copies and faults. Assumptions: `FilesAssumption`, `TransferAssumption`
(lengths are numbers, a chunk and a request hold something).

- `FilesInvariant` is inductive: `StoreInv` for the server (`UploadsOK`, `ContentsOK`, `TxOK`;
  `Accounted`: a blob is named by a row, by a transaction or by the journal;
  `RowsHeld`: a row a request works on is locked by it; `OwnApart`: a chunk belongs to one
  owner; `ReadersPinned`) and `DeviceInv` for the devices.
- `NothingIsLeaked` and `ReadersAreServed` follow.
- `IntactInvariant` adds what the chunks hold. `Laid`: a sequence of chunks holds the first n
  parts of a file, in order, all of them full but the last. `RowsLaid`: so do the rows of
  transfers, up to the offset they acknowledge, and the contents of the files, for every
  file that shares them. `WorkLaid`: a transaction is somewhere in between (`WrittenUpTo`):
  what it keeps of the row and what it has written hold n parts, what is left is the rest
  up to its target, n is a multiple of a chunk until the target is reached, and the
  contents it knows of hold the bytes of its own file. `RowsHeld` is what lets one
  transaction commit without moving the row another one is cutting. Without
  `n # Target => n = Upto(Len(...))` it is not inductive: a short chunk in the middle
  would shift every part behind it.
- `StoredStaysIntact` and `ForgottenOnlyIfVerified` follow, for every length of file, chunk and
  request. Reading chunks back is a recursion over their number (`FlattenSeq`). No
  induction principle is needed: the recursion is a function, `FlattenIs` shows that any
  function that satisfies its equation is that function, for otherwise there would be
  a least index where the two differ (`LeastNumber`, from the order of the naturals),
  and `LaidReads` gives one that does, slice by slice.

`FullRestoreProofs`, for every set of blobs and writers, any number of days, archives
and events. Assumption: `BackupAssumption`.

- `FullInvHolds`: `BackupInv` (types of the live store, the catalogue, the clock; `JobOK`, what
  a step of the job implies; `CaptureOK`, while files are held every blob of the
  snapshot is on disk; `OrderOK`, verification follows the order of identities, and a
  scheduled backup is under way only on a day without a verified one; `PruneOK`, what
  is being removed has a verified archive ahead of it; `NoRedundantBackup`) and
  `TargetOK` (the marker tells how far the target is).
- `RestoreTypeCorrect`, `SnapshotsAreCaptured`, `NoBackupTwice`, `RecoveryPointStays` (an action
  property), `ServedIsWhole`.

`WorkspaceSyncProofs`, for every set of devices, items, fields, edits, identities, batch
and page sizes, and any number of open transactions. Assumptions: `FeedAssumption`
and `SyncAssumption` (an edit is made by one device or by a client without a queue).

- `SyncInvHolds`. The heart is that an edit takes several identities and only one may
  be accepted. `SyncInv` says so of the server (only accepted identities have
  revisions) and of each device: `RowsOK`, an edit submitted again rests on revisions of the server, and
  cannot be founded once the edit is accepted; a row that could be merged stands alone
  for its edit, all its other identities refused; `ConflictsOK`, what a crashed
  resolution left behind is about revisions the item has left; `LateOK` and `PassOK`, the
  same for requests on their way, whose rows are still queued and whose results are
  the receipts; `KeptOK`, an edit begun is kept or accepted. TLC checked it on three
  instances first (section 3).
- `SyncTypeCorrect`; `EditsAreAcceptedOnce`, for `AcceptedOnce`; `NoEditIsDropped`, for
  `NothingDropped`. Both hold whatever the order in which transactions commit, unlike
  `NoChangeSkipped`.
- `NoChangeIsSkipped`: as long as transactions commit in the order of the numbers they
  drew (`CommitsInOrder`, a hypothesis of the theorem), no cursor passes a change its
  screen lacks. The code does not enforce that order, and without it the property
  fails (finding 3): the theorem says that order is all that is missing. The invariant, `FollowInv`,
  adds to `SyncInv` that the head of an item is its last change (`HeadIsLast`), that queued
  work without an answer is still ahead of the cursor (`AheadOK`: otherwise a page would
  skip it as the device's own), that rows in flight are those of the pass's batch
  (`SendingOK`), and that a page holds every change from the cursor on with items
  at least as recent (`PageOK`). TLC checked it on four instances first.
  `NothingSkippedOneAtATime` is the case of a server with one transaction open at a
  time (`MaxOpen = 1`), which implies the order.

`WorkspaceWorkProofs`, under the same assumptions, follows a row of the queue until it is
answered.

- `OnlyBlockedWorkIsHidden`, for `OnlyBlockedIsHidden`. The invariant, `WorkInv`, adds two things to
  `SyncInv`. `VisibleOK` is the property, by places of the queue. `FlightOK` is about the batch
  on its way: its rows are not blocked, a row keeps the name it was queued under, and
  whatever stands ahead of a row of the batch and is not blocked is ahead of it in the
  batch too, or is an edit that was merged and queued again meanwhile (`BatchAhead`). That is
  what the third case of the property rests on: when a row is answered and goes, what
  it covered comes back to light only if it is such a merge. `ResultSettles` puts the five
  ways of settling a result in one form (`Settles`): rows keep their order and their work,
  and only the one that is settled changes or goes.
- `ConflictsAreFounded`, for `ConflictsAreReal`. An item is `Undisturbed` for a device as long as
  only its own edits that name a base change it, and none of them was refused or is
  blocked. On such an item (`Chained`) the first queued edit builds on the head of the
  server, or is the head and waits for its acknowledgement; each other builds on the
  one queued before it and has not been handed over; the screen shows the last; and a
  page that is about to be applied over no work brings the head. So what reaches the
  server of an undisturbed item is founded (`HandedOnTop`), and an edit found in
  conflict is on an item that was disturbed before (`Grounded`). `SubmitChain` is where
  the batch is cut at an edit that builds on another of it, `AcknowledgeChain` where the
  acknowledgement of one renames the base of the next. TLC checked the invariant on
  ten instances first.

**Only model-checked.** Liveness and ENABLED are out of the prover's reach: `Settles`,
`Converges`, `RotationCompletes`, `Synchronizes`, `SpaceReturns`, `BackedUpDaily`, `EachIsCopied`.
Every other property of the passing runs is a theorem.

## 5. What is not modelled

*Pages.* Mode `empty` and the conversion of a legacy branch in `sync`; the content of
documents and of ambiguities; revision rows; digests and encryption (a verified
checkpoint reproduces the document); rate limits and request size limits that
refuse before anything is read; on the device, file requirements, updates too
large for a request, failed commits and undo, the installation of a checkpoint
later than the first; refusals for the protocol version or a quota, which set rows aside
unseen; the details of several ambiguities are fetched in one action with the commit, or
refused. Several pages and several workspaces are independent.

*Workspace.* The snapshot a device falls back to when its cursor is too old, and
`seedFromServer`; rollbacks of the server's transactions; what each command means (an edit
is one field of one item); the structured merge of page bodies.

*Keys.* One generation per file (its chunks are rewritten in one transaction); the guard of a
storage transition; a deletion between the listing of a batch and its rewriting is
atomic with either; the `state` a policy reports; wrapping keys, recovery kits, the
migration to encryption and its cut-over; the snapshot a serializable transaction
takes before it waits for an advisory lock.

*Files.* Legacy uploads and the migration of storage, quarantine, ranges, locks of
portable backups, limits of one cleanup, the cap on corrected offsets, the lease of a
transfer, the placement of files in pages, two files published at once on one
device.

*Backups.* Backups before an update, rehearsals, an installation without a remote
destination, historical keys, records of activity, leftovers of staging, competing
restorations over one directory, a server over a target nobody claimed; an archive does
not rot while retention reads it; hours are abstracted to the deadlines they cross.

`PROJECT.json` lists every other component with the reason it is absent.

## 6. Plan

1. *(done)* `PageOperationLog`, `PageOperationRestore`, `PageReplica`, `PageSync`, `SharedPage`
   and their proofs.
2. *(done)* `MutationFeed`, `WorkspaceSync`, `DataKeyRotation`, `ProtectedFiles`,
   `FileTransfer`, `FullBackup`, `FullRestore`, and their proofs.
3. What becomes of rows set aside while a device is suspended and then authorized again, and
   answers cut at their window that a device can commit.
4. `LegacyPage`: activation of a legacy page and the single conversion of its
   offline branch (`migration.ts`, mode `empty` of `sync`).
5. Wrapping keys, migration to encryption and cut-over; pure algorithms against
   reference definitions: position keys, hierarchy moves, the binary search of
   `#confirmedRequestPrefix`.
