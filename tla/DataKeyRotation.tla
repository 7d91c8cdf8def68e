--------------------------- MODULE DataKeyRotation ---------------------------
(***************************************************************************)
(* The rotation of a workspace's data key.                                 *)
(*                                                                         *)
(* Content is sealed under numbered generations of the data key.  A        *)
(* rotation mints the next generation, makes the old one readable only,    *)
(* and sweeps what the old one sealed to the new one in batches, with a    *)
(* checkpoint per batch; `--revoke-generation` then makes a swept          *)
(* generation unreadable for good.  The sweep runs for hours beside the    *)
(* writers of the application, may stop anywhere and be run again, and     *)
(* nothing prevents two administrators from running it at once.            *)
(*                                                                         *)
(* One action per transaction, or per read made outside of one: what a     *)
(* command has read before a transaction may be stale inside it.  A        *)
(* transaction holding the maintenance lock excludes the protected writes, *)
(* which share it; the one that mints a generation only shares it.         *)
(***************************************************************************)
EXTENDS Naturals, FiniteSets

CONSTANTS
  Record,         \* the rows of protected_envelopes, numbered in cursor order
  File,           \* the files and uploads whose chunks are sealed
  Writer,         \* concurrent protected writes
  Command,        \* concurrent runs of the administration command
  BatchSize,      \* envelopes rewritten by one transaction
  MaxGeneration,  \* bound on the generations minted
  MaxOperations,  \* bound on the rotation operations
  MaxFailures     \* bound on failed transactions, crashes and lost indexes

ASSUME ObjectAssumption ==
  /\ Record \subseteq Nat \ {0}
  /\ File \subseteq Nat \ {0}
  /\ Record \cap File = {}
ASSUME BoundAssumption ==
  /\ BatchSize \in Nat \ {0}
  /\ MaxGeneration \in Nat \ {0}
  /\ MaxOperations \in Nat \ {0}
  /\ MaxFailures \in Nat

VARIABLES
  generation,  \* generation number -> its state
  sealed,      \* object -> the generation that seals it, 0 when there is none
  index,       \* file -> the generation its chunk index names, 0 when it has no row
  operation,   \* rotation_operations, with the last checkpoint of each
  policy,      \* the data-key row of rotation_policies
  writer,      \* writer -> the generation it is sealing under, 0 when it is idle
  command,     \* command -> its step and what it has read
  failures     \* failures so far

vars == <<generation, sealed, index, operation, policy, writer, command, failures>>

Object == Record \cup File
Generation == 1..MaxGeneration
OperationId == 1..MaxOperations

Active == {"planned", "rewriting"}

None == [phase |-> "none", from |-> 0, to |-> 0, cursor |-> 0, sequence |-> 0]

\* A command at a step, with what it has read so far.
Reading(step, from, to) ==
  [step |-> step, op |-> 0, from |-> from, to |-> to,
   cursor |-> 0, sequence |-> 0, batch |-> {}, last |-> 0]
Stopped == Reading("stopped", 0, 0)

IsCurrent(g) == g \in Generation /\ generation[g] = "current"

\* The maintenance lock is exclusive: it waits for every protected write.
Maintenance == \A w \in Writer : writer[w] = 0

Init ==
  /\ generation = [g \in Generation |-> IF g = 1 THEN "current" ELSE "none"]
  /\ sealed = [x \in Object |-> 0]
  /\ index = [f \in File |-> 0]
  /\ operation = [o \in OperationId |-> None]
  /\ policy = [generation |-> 1, blocked |-> FALSE]
  /\ writer = [w \in Writer |-> 0]
  /\ command = [c \in Command |-> Stopped]
  /\ failures = 0

(***************************************************************************)
(* Protected writes.  The write pins the maintenance lock, reads the       *)
(* current key, and locks the generation's row again before it stores what *)
(* it sealed: the retirement updates that row, so it waits for the commit. *)
(***************************************************************************)
BeginWrite(w, g) ==
  /\ writer[w] = 0
  /\ ~policy.blocked
  /\ IsCurrent(g)
  /\ writer' = [writer EXCEPT ![w] = g]
  /\ UNCHANGED <<generation, sealed, index, operation, policy, command, failures>>

\* Mutant: the generation's row is not looked at again.
PinnedUnchecked(g) == TRUE

\* lockDataKeyGeneration with writable: the generation is still the current one.
Pinned(g) == IsCurrent(g)

Stored(x, g) ==
  /\ sealed' = [sealed EXCEPT ![x] = g]
  /\ index' = [f \in File |-> IF f = x THEN g ELSE index[f]]

Publish(w, x) ==
  /\ writer[w] # 0
  /\ Pinned(writer[w])
  /\ Stored(x, writer[w])
  /\ writer' = [writer EXCEPT ![w] = 0]
  /\ UNCHANGED <<generation, operation, policy, command, failures>>

RefuseWrite(w) ==
  /\ writer[w] # 0
  /\ ~Pinned(writer[w])
  /\ writer' = [writer EXCEPT ![w] = 0]
  /\ UNCHANGED <<generation, sealed, index, operation, policy, command, failures>>

EndWrite(w) == (\E x \in Object : Publish(w, x)) \/ RefuseWrite(w)

Delete(x) ==
  /\ sealed[x] # 0
  /\ Stored(x, 0)
  /\ UNCHANGED <<generation, operation, policy, writer, command, failures>>

(***************************************************************************)
(* The deadline: once it is past, protected writes are refused until a     *)
(* rotation completes.                                                     *)
(***************************************************************************)
ReachBlock ==
  /\ ~policy.blocked
  /\ policy' = [policy EXCEPT !.blocked = TRUE]
  /\ UNCHANGED <<generation, sealed, index, operation, writer, command, failures>>

(***************************************************************************)
(* What is stored under a generation.  The chunk index of a file can be    *)
(* lost; its manifest, sealed with the content, says what it held.         *)
(***************************************************************************)
RecordsUnder(g) == {r \in Record : sealed[r] = g}
ChunksUnder(g) == {f \in File : index[f] = g}
Unreferenced(g) == RecordsUnder(g) = {} /\ ChunksUnder(g) = {}

\* Mutant: an index without rows proves that nothing is left.
VerifiedByIndex(g) == TRUE

\* Every manifest agrees with its index, and none names the generation.
Verified(g) == \A f \in File : index[f] = sealed[f] /\ sealed[f] # g

\* Every row of the index of a file is lost, and is put back as it was.
LoseIndex(f) ==
  /\ failures < MaxFailures
  /\ index[f] # 0
  /\ index' = [index EXCEPT ![f] = 0]
  /\ failures' = failures + 1
  /\ UNCHANGED <<generation, sealed, operation, policy, writer, command>>

RepairIndex(f) ==
  /\ index[f] # sealed[f]
  /\ index' = [index EXCEPT ![f] = sealed[f]]
  /\ UNCHANGED <<generation, sealed, operation, policy, writer, command, failures>>

(***************************************************************************)
(* The operation a command resumes is the newest one that did not          *)
(* complete, failed ones included; an operation may be started beside a    *)
(* failed one.                                                             *)
(***************************************************************************)
\* Mutant: a failed operation is not resumed.
UnfinishedActive == {o \in OperationId : operation[o].phase \in Active}

Unfinished == {o \in OperationId : operation[o].phase \in Active \cup {"failed"}}
Newest(o) == o \in Unfinished /\ \A p \in Unfinished : p <= o

Startable(o) ==
  /\ operation[o].phase = "none"
  /\ \A p \in OperationId : p < o => operation[p].phase # "none"
  /\ \A p \in OperationId : operation[p].phase \notin Active

\* rotation_operations_active_unique: one active operation.
Alone(o) == \A p \in OperationId \ {o} : operation[p].phase \notin Active

\* The owner starts a rotation from the application: a row, and no generation.
OwnerStart(o) ==
  /\ Startable(o)
  /\ operation' = [operation EXCEPT ![o] =
       [None EXCEPT !.phase = "planned", !.from = policy.generation,
                    !.to = policy.generation + 1]]
  /\ UNCHANGED <<generation, sealed, index, policy, writer, command, failures>>

(***************************************************************************)
(* The command reads the current generation, then the operation to resume. *)
(***************************************************************************)
Launch(c, g) ==
  /\ command[c].step = "stopped"
  /\ IsCurrent(g)
  /\ command' = [command EXCEPT ![c] = Reading("find", g, g)]
  /\ UNCHANGED <<generation, sealed, index, operation, policy, writer, failures>>

FindNothing(c) ==
  /\ command[c].step = "find"
  /\ Unfinished = {}
  /\ command' = [command EXCEPT ![c].step = "start"]
  /\ UNCHANGED <<generation, sealed, index, operation, policy, writer, failures>>

FindRunning(c, o) ==
  /\ command[c].step = "find"
  /\ Newest(o)
  /\ command' = [command EXCEPT ![c].step = "resume", ![c].op = o,
                                ![c].from = operation[o].from]
  /\ UNCHANGED <<generation, sealed, index, operation, policy, writer, failures>>

\* A fresh start mints the generation after the one that is current by now,
\* and sweeps the one that was current when the command was launched.
Start(c, o, g) ==
  /\ command[c].step = "start"
  /\ Startable(o)
  /\ IsCurrent(g) /\ g < MaxGeneration
  /\ generation' = [generation EXCEPT ![g] = "decrypt-only", ![g + 1] = "current"]
  /\ operation' = [operation EXCEPT ![o] =
       [None EXCEPT !.phase = "planned", !.from = command[c].from, !.to = g + 1]]
  /\ command' = [command EXCEPT ![c].step = "checkpoint", ![c].op = o, ![c].to = g + 1]
  /\ UNCHANGED <<sealed, index, policy, writer, failures>>

StartRefused(c) ==
  /\ command[c].step = "start"
  /\ ~\E o \in OperationId : Startable(o)
  /\ command' = [command EXCEPT ![c] = Stopped]
  /\ UNCHANGED <<generation, sealed, index, operation, policy, writer, failures>>

\* The constraints of the table: the operation advances, and is alone.
Resumable(c) == command[c].to > command[c].from /\ Alone(command[c].op)

Resume(c) ==
  /\ command[c].step = "resume"
  /\ Maintenance
  /\ Resumable(c)
  /\ operation' = [operation EXCEPT ![command[c].op].phase = "rewriting",
                                    ![command[c].op].to = command[c].to]
  /\ command' = [command EXCEPT ![c].step = "checkpoint"]
  /\ UNCHANGED <<generation, sealed, index, policy, writer, failures>>

ResumeRefused(c) ==
  /\ command[c].step = "resume"
  /\ ~Resumable(c)
  /\ command' = [command EXCEPT ![c] = Stopped]
  /\ UNCHANGED <<generation, sealed, index, operation, policy, writer, failures>>

ReadCheckpoint(c) ==
  /\ command[c].step = "checkpoint"
  /\ command' = [command EXCEPT ![c].step = "list",
                                ![c].cursor = operation[command[c].op].cursor,
                                ![c].sequence = operation[command[c].op].sequence + 1]
  /\ UNCHANGED <<generation, sealed, index, operation, policy, writer, failures>>

(***************************************************************************)
(* The sweep.  A batch is listed outside the transaction that rewrites it. *)
(***************************************************************************)
AfterCursor(c) == {r \in RecordsUnder(command[c].from) : r > command[c].cursor}

List(c) ==
  /\ command[c].step = "list"
  /\ \E last \in AfterCursor(c) :
       LET batch == {r \in AfterCursor(c) : r <= last}
       IN  /\ Cardinality(batch) <= BatchSize
           /\ Cardinality(batch) = BatchSize \/ batch = AfterCursor(c)
           /\ command' = [command EXCEPT ![c].step = "rewrite", ![c].batch = batch,
                                         ![c].last = last]
  /\ UNCHANGED <<generation, sealed, index, operation, policy, writer, failures>>

ListNothing(c) ==
  /\ command[c].step = "list"
  /\ AfterCursor(c) = {}
  /\ command' = [command EXCEPT ![c].step = "files"]
  /\ UNCHANGED <<generation, sealed, index, operation, policy, writer, failures>>

\* recordRotationCheckpoint: the sequence is new, and the operation alone.
Checkpointable(c) ==
  /\ command[c].sequence > operation[command[c].op].sequence
  /\ Alone(command[c].op)

Checkpoint(c, cursor) ==
  operation' = [operation EXCEPT ![command[c].op].phase = "rewriting",
                                 ![command[c].op].cursor = cursor,
                                 ![command[c].op].sequence = command[c].sequence]

\* A record of the batch that was deleted since it was listed is passed over.
Rewrite(c, g) ==
  /\ command[c].step = "rewrite"
  /\ Maintenance
  /\ IsCurrent(g)
  /\ Checkpointable(c)
  /\ sealed' = [x \in Object |->
       IF x \in command[c].batch /\ sealed[x] # 0 THEN g ELSE sealed[x]]
  /\ Checkpoint(c, command[c].last)
  /\ command' = [command EXCEPT ![c].step = "list", ![c].batch = {}, ![c].last = 0,
                                ![c].cursor = command[c].last,
                                ![c].sequence = command[c].sequence + 1]
  /\ UNCHANGED <<generation, index, policy, writer, failures>>

RewriteFile(c, f) ==
  /\ command[c].step = "files"
  /\ Maintenance
  /\ Pinned(command[c].to)
  /\ f \in ChunksUnder(command[c].from)
  /\ Checkpointable(c)
  /\ Stored(f, command[c].to)
  /\ Checkpoint(c, command[c].cursor)
  /\ command' = [command EXCEPT ![c].sequence = command[c].sequence + 1]
  /\ UNCHANGED <<generation, policy, writer, failures>>

NoFileLeft(c) ==
  /\ command[c].step = "files"
  /\ Maintenance
  /\ Pinned(command[c].to)
  /\ ChunksUnder(command[c].from) = {}
  /\ command' = [command EXCEPT ![c].step = "verify"]
  /\ UNCHANGED <<generation, sealed, index, operation, policy, writer, failures>>

\* What makes a transaction of the sweep fail.
Fails(c) ==
  \/ command[c].step = "rewrite" /\ ~Checkpointable(c)
  \/ /\ command[c].step = "files"
     /\ ~Pinned(command[c].to) \/ (ChunksUnder(command[c].from) # {} /\ ~Checkpointable(c))
  \/ /\ command[c].step = "verify"
     /\ ~(Unreferenced(command[c].from) /\ Verified(command[c].from))

Fail(c) ==
  /\ Maintenance
  /\ Fails(c)
  /\ command' = [command EXCEPT ![c].step = "abandon"]
  /\ UNCHANGED <<generation, sealed, index, operation, policy, writer, failures>>

\* Mutant: completion trusts the sweep that found the chunk index empty.
CompleteUncounted(c) ==
  /\ command[c].step = "verify"
  /\ Maintenance
  /\ operation' = [operation EXCEPT ![command[c].op].phase = "complete"]
  /\ policy' = [generation |-> command[c].to, blocked |-> FALSE]
  /\ command' = [command EXCEPT ![c] = Stopped]
  /\ UNCHANGED <<generation, sealed, index, writer, failures>>

\* Completion counts again, in the transaction that completes.
Complete(c) ==
  /\ command[c].step = "verify"
  /\ Maintenance
  /\ Unreferenced(command[c].from) /\ Verified(command[c].from)
  /\ operation' = [operation EXCEPT ![command[c].op].phase = "complete"]
  /\ policy' = [generation |-> command[c].to, blocked |-> FALSE]
  /\ command' = [command EXCEPT ![c] = Stopped]
  /\ UNCHANGED <<generation, sealed, index, writer, failures>>

\* A failed batch: the deadline stays where it was.
AbandonRotation(c) ==
  /\ command[c].step = "abandon"
  /\ operation' = [operation EXCEPT ![command[c].op].phase = "failed"]
  /\ command' = [command EXCEPT ![c] = Stopped]
  /\ UNCHANGED <<generation, sealed, index, policy, writer, failures>>

(***************************************************************************)
(* Revocation: counted once to refuse early, and again under the locks.    *)
(***************************************************************************)
AskRevocation(c, g) ==
  /\ command[c].step = "stopped"
  /\ Unreferenced(g)
  /\ generation[g] \in {"current", "decrypt-only"}
  /\ command' = [command EXCEPT ![c] = Reading("revoke", g, 0)]
  /\ UNCHANGED <<generation, sealed, index, operation, policy, writer, failures>>

Revocable(g) == generation[g] = "decrypt-only" /\ Unreferenced(g) /\ Verified(g)

Revoke(c) ==
  /\ command[c].step = "revoke"
  /\ Maintenance
  /\ Revocable(command[c].from)
  /\ generation' = [generation EXCEPT ![command[c].from] = "revoked"]
  /\ command' = [command EXCEPT ![c] = Stopped]
  /\ UNCHANGED <<sealed, index, operation, policy, writer, failures>>

RevokeRefused(c) ==
  /\ command[c].step = "revoke"
  /\ Maintenance
  /\ ~Revocable(command[c].from)
  /\ command' = [command EXCEPT ![c] = Stopped]
  /\ UNCHANGED <<generation, sealed, index, operation, policy, writer, failures>>

Revocation(c) == Revoke(c) \/ RevokeRefused(c)

(***************************************************************************)
(* Failures: a transaction of the sweep loses a serialization race or an   *)
(* object cannot be read, and the command itself may stop at any point.    *)
(***************************************************************************)
LoseTransaction(c) ==
  /\ failures < MaxFailures
  /\ command[c].step \in {"rewrite", "files", "verify"}
  /\ command' = [command EXCEPT ![c].step = "abandon"]
  /\ failures' = failures + 1
  /\ UNCHANGED <<generation, sealed, index, operation, policy, writer>>

Crash(c) ==
  /\ failures < MaxFailures
  /\ command[c].step # "stopped"
  /\ command' = [command EXCEPT ![c] = Stopped]
  /\ failures' = failures + 1
  /\ UNCHANGED <<generation, sealed, index, operation, policy, writer>>

Sweep(c) ==
  \/ FindNothing(c)
  \/ \E o \in OperationId : FindRunning(c, o)
  \/ \E o \in OperationId, g \in Generation : Start(c, o, g)
  \/ StartRefused(c)
  \/ Resume(c)
  \/ ResumeRefused(c)
  \/ ReadCheckpoint(c)
  \/ List(c)
  \/ ListNothing(c)
  \/ \E g \in Generation : Rewrite(c, g)
  \/ \E f \in File : RewriteFile(c, f)
  \/ NoFileLeft(c)
  \/ Fail(c)
  \/ Complete(c)
  \/ AbandonRotation(c)

Next ==
  \/ \E w \in Writer : EndWrite(w) \/ \E g \in Generation : BeginWrite(w, g)
  \/ \E x \in Object : Delete(x)
  \/ \E f \in File : LoseIndex(f) \/ RepairIndex(f)
  \/ ReachBlock
  \/ \E o \in OperationId : OwnerStart(o)
  \/ \E c \in Command :
       \/ \E g \in Generation : Launch(c, g) \/ AskRevocation(c, g)
       \/ Sweep(c)
       \/ Revocation(c)
       \/ LoseTransaction(c)
       \/ Crash(c)

Spec == Init /\ [][Next]_vars

\* A write ends; a command gets the lock it waits for, so it runs to its end;
\* it is run again while an operation is unfinished; and a lost index is put
\* back in the end.
FairSpec ==
  /\ Spec
  /\ \A w \in Writer : WF_vars(EndWrite(w))
  /\ \A f \in File : WF_vars(RepairIndex(f))
  /\ \A c \in Command :
       /\ SF_vars(Sweep(c) \/ Revocation(c))
       /\ SF_vars(Unfinished # {} /\ \E g \in Generation : Launch(c, g))

(***************************************************************************)
(* Types.                                                                  *)
(***************************************************************************)
OperationRecord ==
  [phase: {"none", "planned", "rewriting", "complete", "failed"},
   from: 0..MaxGeneration, to: 0..(MaxGeneration + 1),
   cursor: Record \cup {0}, sequence: Nat]

CommandRecord ==
  [step: {"stopped", "find", "start", "resume", "checkpoint", "list", "rewrite",
          "files", "verify", "abandon", "revoke"},
   op: OperationId \cup {0}, from: 0..MaxGeneration, to: 0..MaxGeneration,
   cursor: Record \cup {0}, sequence: Nat, batch: SUBSET Record,
   last: Record \cup {0}]

\* What the tables hold and their constraints: one generation is current, one
\* operation is active, and an operation advances (schema/security/index.ts:
\* data_key_generations_current_unique, rotation_operations_active_unique,
\* rotation_operations_progression_check).
TablesConsistent ==
  /\ \E g \in Generation :
       /\ generation[g] = "current"
       /\ \A h \in Generation : h > g => generation[h] = "none"
       /\ \A h \in Generation : h < g => generation[h] \in {"decrypt-only", "revoked"}
  /\ \A o, p \in OperationId :
       operation[o].phase \in Active /\ operation[p].phase \in Active => o = p
  /\ \A o \in OperationId :
       operation[o].phase # "none" => operation[o].to > operation[o].from

\* Every variable holds values of the table or the local state it stands for,
\* and the tables keep their constraints.
RotationTypeOK ==
  /\ generation \in [Generation -> {"none", "current", "decrypt-only", "revoked"}]
  /\ sealed \in [Object -> 0..MaxGeneration]
  /\ index \in [File -> 0..MaxGeneration]
  /\ operation \in [OperationId -> OperationRecord]
  /\ policy \in [generation: Generation, blocked: BOOLEAN]
  /\ writer \in [Writer -> 0..MaxGeneration]
  /\ command \in [Command -> CommandRecord]
  /\ failures \in Nat
  /\ TablesConsistent

(***************************************************************************)
(* Safety.                                                                 *)
(***************************************************************************)

\* Everything that is stored can be read: its generation was minted and is not
\* revoked, whatever ran between the counts a revocation relied on, and
\* whatever the chunk index of a file has lost (rotation-data-key.ts,
\* key-repository.ts: revokeGeneration leaves the proof to its caller).
Readable ==
  \A x \in Object : sealed[x] # 0 => generation[sealed[x]] \in {"current", "decrypt-only"}

\* No record can appear behind the cursor after the sweep has passed it: a
\* resume continues from the stored position instead of reading again, and
\* two commands may sweep one operation (rotation-data-key.ts, the comment on
\* the stored position).
NothingBehindCursor ==
  \A o \in OperationId : \A r \in Record :
    r <= operation[o].cursor => sealed[r] # operation[o].from

\* Under a completed operation's old generation nothing is stored, then or
\* ever after: no late write, no resumed command and no repaired index brings
\* anything back under it.
SweptWhenComplete ==
  \A o \in OperationId : operation[o].phase = "complete" =>
    /\ \A x \in Object : sealed[x] # operation[o].from
    /\ \A f \in File : index[f] # operation[o].from

(***************************************************************************)
(* Liveness.                                                               *)
(***************************************************************************)
Begun(o) == operation[o].phase \in Active \cup {"failed"}
Minted(o) == operation[o].to \in Generation /\ generation[operation[o].to] # "none"

\* Started without the generation it names: no command can resume it.
Stranded(o) == Begun(o) /\ ~Minted(o)

\* An operation whose generation was minted completes however often its
\* command fails, and whatever is started beside it, unless a stranded one is
\* started after it: the command only ever looks at the newest.
RotationCompletes ==
  \A o \in OperationId :
    (Begun(o) /\ Minted(o)) ~>
      \/ operation[o].phase = "complete"
      \/ \E p \in OperationId : p > o /\ Stranded(p)

\* So does every operation, one the owner started from the application
\* included (specs/002-owner-security-foundation/spec.md, US5 scenario 6).
EveryRotationCompletes ==
  \A o \in OperationId : Begun(o) ~> operation[o].phase = "complete"
=============================================================================
