------------------------ MODULE DataKeyRotationProofs ------------------------
(***************************************************************************)
(* Proofs about DataKeyRotation, for any number of records, files, writers *)
(* and commands run at once, any size of the batches and any number of     *)
(* rotations and failures: what is stored stays readable, nothing appears  *)
(* behind the cursor of a sweep, and a completed sweep is complete.        *)
(***************************************************************************)
EXTENDS DataKeyRotation, TLAPS

(***************************************************************************)
(* The inductive invariant.                                                *)
(***************************************************************************)
\* A generation that no write seals under any more.
Retired(g) == g \in Generation /\ generation[g] \in {"decrypt-only", "revoked"}
Existing(g) == g \in Generation /\ generation[g] # "none"

\* The chunk index of a file agrees with its manifest, or is lost.
IndexFaithful == \A f \in File : index[f] \in {0, sealed[f]}

\* What has been swept, or counted as swept, was retired before.
OperationRetired ==
  \A o \in OperationId :
    /\ operation[o].phase # "none" => operation[o].from \in Generation
    /\ operation[o].phase = "none" => operation[o].cursor = 0
    /\ operation[o].cursor # 0 \/ operation[o].phase = "complete" => Retired(operation[o].from)

Sweeping == {"checkpoint", "list", "rewrite", "files", "verify", "abandon"}

\* What a command has read of the tables, that is still true.
CommandRead(c) ==
  /\ command[c].step \in {"find", "start", "resume"} => Existing(command[c].to)
  /\ command[c].step \in {"find", "start"} => command[c].from = command[c].to
  /\ command[c].step \in Sweeping \cup {"resume"} =>
       /\ command[c].op \in OperationId
       /\ operation[command[c].op].phase # "none"
       /\ operation[command[c].op].from = command[c].from
  /\ command[c].step \in Sweeping => Retired(command[c].from) /\ Existing(command[c].to)
  /\ command[c].step = "revoke" => command[c].from \in Generation
  /\ command[c].step = "rewrite" => command[c].last \in Record

CommandReads == \A c \in Command : CommandRead(c)

\* What a command has passed over holds nothing of the old generation, and its
\* batch is all there is up to the last record of it.
Swept(c) ==
  \A r \in Record :
    /\ command[c].step \in {"list", "rewrite", "files", "verify"} /\ r <= command[c].cursor
         => sealed[r] # command[c].from
    /\ command[c].step = "rewrite" /\ r <= command[c].last /\ r \notin command[c].batch
         => sealed[r] # command[c].from

CommandSwept == \A c \in Command : Swept(c)

RotationInv ==
  /\ RotationTypeOK
  /\ Readable
  /\ IndexFaithful
  /\ OperationRetired
  /\ CommandReads
  /\ NothingBehindCursor
  /\ CommandSwept
  /\ SweptWhenComplete

-----------------------------------------------------------------------------
(* The steps that change the tables, and those that change what is stored.  *)

\* Any other step leaves the generations and the operations as they are.
LEMMA TableSteps ==
  ASSUME Next
  PROVE  \/ UNCHANGED <<generation, operation>>
         \/ \E o \in OperationId : OwnerStart(o)
         \/ \E c \in Command :
              \/ \E o \in OperationId, g \in Generation : Start(c, o, g)
              \/ \E g \in Generation : Rewrite(c, g)
              \/ \E f \in File : RewriteFile(c, f)
              \/ Resume(c) \/ Complete(c) \/ AbandonRotation(c) \/ Revoke(c)
<1>1. ASSUME NEW w \in Writer, EndWrite(w) \/ \E g \in Generation : BeginWrite(w, g)
      PROVE  UNCHANGED <<generation, operation>>
  BY <1>1 DEF EndWrite, Publish, RefuseWrite, BeginWrite
<1>2. ASSUME \/ ReachBlock
             \/ \E x \in Object : Delete(x)
             \/ \E f \in File : LoseIndex(f) \/ RepairIndex(f)
      PROVE  UNCHANGED <<generation, operation>>
  BY <1>2 DEF ReachBlock, Delete, LoseIndex, RepairIndex
<1>3. ASSUME NEW c \in Command,
             \/ \E g \in Generation : Launch(c, g) \/ AskRevocation(c, g)
             \/ FindNothing(c) \/ \E o \in OperationId : FindRunning(c, o)
             \/ StartRefused(c) \/ ResumeRefused(c) \/ ReadCheckpoint(c)
             \/ List(c) \/ ListNothing(c) \/ NoFileLeft(c) \/ Fail(c)
             \/ RevokeRefused(c) \/ LoseTransaction(c) \/ Crash(c)
      PROVE  UNCHANGED <<generation, operation>>
  BY <1>3 DEF Launch, AskRevocation, FindNothing, FindRunning, StartRefused, ResumeRefused,
              ReadCheckpoint, List, ListNothing, NoFileLeft, Fail, RevokeRefused,
              LoseTransaction, Crash
<1> QED
  BY <1>1, <1>2, <1>3, Zenon DEF Next, Sweep, Revocation

\* Any other step leaves the objects as they are.
LEMMA ObjectSteps ==
  ASSUME Next
  PROVE  \/ UNCHANGED <<sealed, index>>
         \/ /\ UNCHANGED generation
            /\ \/ \E w \in Writer, x \in Object : Publish(w, x)
               \/ \E x \in Object : Delete(x)
               \/ \E f \in File : LoseIndex(f) \/ RepairIndex(f)
               \/ \E c \in Command, g \in Generation : Rewrite(c, g)
               \/ \E c \in Command, f \in File : RewriteFile(c, f)
<1>1. ASSUME NEW w \in Writer, RefuseWrite(w) \/ \E g \in Generation : BeginWrite(w, g)
      PROVE  UNCHANGED <<sealed, index>>
  BY <1>1 DEF RefuseWrite, BeginWrite
<1>2. ASSUME ReachBlock \/ \E o \in OperationId : OwnerStart(o)
      PROVE  UNCHANGED <<sealed, index>>
  BY <1>2 DEF ReachBlock, OwnerStart
<1>3. ASSUME NEW c \in Command,
             \/ \E g \in Generation : Launch(c, g) \/ AskRevocation(c, g)
             \/ FindNothing(c) \/ \E o \in OperationId : FindRunning(c, o)
             \/ \E o \in OperationId, g \in Generation : Start(c, o, g)
             \/ StartRefused(c) \/ Resume(c) \/ ResumeRefused(c) \/ ReadCheckpoint(c)
             \/ List(c) \/ ListNothing(c) \/ NoFileLeft(c) \/ Fail(c)
             \/ Complete(c) \/ AbandonRotation(c)
             \/ Revoke(c) \/ RevokeRefused(c) \/ LoseTransaction(c) \/ Crash(c)
      PROVE  UNCHANGED <<sealed, index>>
  BY <1>3 DEF Launch, AskRevocation, FindNothing, FindRunning, Start, StartRefused, Resume,
              ResumeRefused, ReadCheckpoint, List, ListNothing, NoFileLeft, Fail, Complete,
              AbandonRotation, Revoke, RevokeRefused, LoseTransaction, Crash
<1>4. ASSUME \/ \E w \in Writer, x \in Object : Publish(w, x)
             \/ \E x \in Object : Delete(x)
             \/ \E f \in File : LoseIndex(f) \/ RepairIndex(f)
             \/ \E c \in Command, g \in Generation : Rewrite(c, g)
             \/ \E c \in Command, f \in File : RewriteFile(c, f)
      PROVE  UNCHANGED generation
  BY <1>4 DEF Publish, Delete, LoseIndex, RepairIndex, Rewrite, RewriteFile
<1> QED
  BY <1>1, <1>2, <1>3, <1>4, Zenon DEF Next, Sweep, Revocation, EndWrite

\* A step of a command is one of its own; any other leaves it as it is.
LEMMA CommandSteps ==
  ASSUME Next
  PROVE  \/ command' = command
         \/ \E c \in Command :
              \/ command' = [command EXCEPT ![c] = Stopped]
              \/ \E s \in {"start", "checkpoint", "files", "verify", "abandon"} :
                   command' = [command EXCEPT ![c].step = s]
              \/ \E g \in Generation : Launch(c, g) \/ AskRevocation(c, g)
              \/ \E o \in OperationId : FindRunning(c, o)
              \/ \E o \in OperationId, g \in Generation : Start(c, o, g)
              \/ ReadCheckpoint(c) \/ List(c)
              \/ \E g \in Generation : Rewrite(c, g)
              \/ \E f \in File : RewriteFile(c, f)
<1>1. ASSUME NEW w \in Writer, EndWrite(w) \/ \E g \in Generation : BeginWrite(w, g)
      PROVE  command' = command
  BY <1>1 DEF EndWrite, Publish, RefuseWrite, BeginWrite
<1>2. ASSUME \/ ReachBlock \/ \E o \in OperationId : OwnerStart(o)
             \/ \E x \in Object : Delete(x)
             \/ \E f \in File : LoseIndex(f) \/ RepairIndex(f)
      PROVE  command' = command
  BY <1>2 DEF ReachBlock, OwnerStart, Delete, LoseIndex, RepairIndex
<1>3. ASSUME NEW c \in Command,
             \/ StartRefused(c) \/ ResumeRefused(c) \/ Complete(c) \/ AbandonRotation(c)
             \/ Revoke(c) \/ RevokeRefused(c) \/ Crash(c)
      PROVE  command' = [command EXCEPT ![c] = Stopped]
  BY <1>3 DEF StartRefused, ResumeRefused, Complete, AbandonRotation, Revoke,
              RevokeRefused, Crash
<1>4. ASSUME NEW c \in Command,
             \/ FindNothing(c) \/ Resume(c) \/ ListNothing(c) \/ NoFileLeft(c)
             \/ Fail(c) \/ LoseTransaction(c)
      PROVE  \E s \in {"start", "checkpoint", "files", "verify", "abandon"} :
               command' = [command EXCEPT ![c].step = s]
  BY <1>4 DEF FindNothing, Resume, ListNothing, NoFileLeft, Fail, LoseTransaction
<1> QED
  BY <1>1, <1>2, <1>3, <1>4, Zenon DEF Next, Sweep, Revocation

\* The policy moves when the deadline passes and when a rotation completes.
LEMMA PolicySteps ==
  ASSUME Next
  PROVE  UNCHANGED policy \/ ReachBlock \/ \E c \in Command : Complete(c)
<1>1. ASSUME NEW w \in Writer, EndWrite(w) \/ \E g \in Generation : BeginWrite(w, g)
      PROVE  UNCHANGED policy
  BY <1>1 DEF EndWrite, Publish, RefuseWrite, BeginWrite
<1>2. ASSUME \/ \E o \in OperationId : OwnerStart(o)
             \/ \E x \in Object : Delete(x)
             \/ \E f \in File : LoseIndex(f) \/ RepairIndex(f)
      PROVE  UNCHANGED policy
  BY <1>2 DEF OwnerStart, Delete, LoseIndex, RepairIndex
<1>3. ASSUME NEW c \in Command,
             \/ \E g \in Generation : Launch(c, g) \/ AskRevocation(c, g) \/ Rewrite(c, g)
             \/ FindNothing(c) \/ \E o \in OperationId : FindRunning(c, o)
             \/ \E o \in OperationId, g \in Generation : Start(c, o, g)
             \/ StartRefused(c) \/ Resume(c) \/ ResumeRefused(c) \/ ReadCheckpoint(c)
             \/ List(c) \/ ListNothing(c) \/ \E f \in File : RewriteFile(c, f)
             \/ NoFileLeft(c) \/ Fail(c) \/ AbandonRotation(c)
             \/ Revoke(c) \/ RevokeRefused(c) \/ LoseTransaction(c) \/ Crash(c)
      PROVE  UNCHANGED policy
  BY <1>3 DEF Launch, AskRevocation, Rewrite, FindNothing, FindRunning, Start, StartRefused,
              Resume, ResumeRefused, ReadCheckpoint, List, ListNothing, RewriteFile,
              NoFileLeft, Fail, AbandonRotation, Revoke, RevokeRefused, LoseTransaction, Crash
<1> QED
  BY <1>1, <1>2, <1>3, Zenon DEF Next, Sweep, Revocation

\* The writers move by their own steps, and a step counts one failure at most.
LEMMA CounterSteps ==
  ASSUME Next
  PROVE  \/ UNCHANGED writer /\ failures' \in {failures, failures + 1}
         \/ \E w \in Writer : EndWrite(w) \/ \E g \in Generation : BeginWrite(w, g)
<1>1. ASSUME \/ ReachBlock \/ \E o \in OperationId : OwnerStart(o)
             \/ \E x \in Object : Delete(x)
             \/ \E f \in File : LoseIndex(f) \/ RepairIndex(f)
      PROVE  UNCHANGED writer /\ failures' \in {failures, failures + 1}
  BY <1>1 DEF ReachBlock, OwnerStart, Delete, LoseIndex, RepairIndex
<1>2. ASSUME NEW c \in Command,
             \/ \E g \in Generation : Launch(c, g) \/ AskRevocation(c, g) \/ Rewrite(c, g)
             \/ FindNothing(c) \/ \E o \in OperationId : FindRunning(c, o)
             \/ \E o \in OperationId, g \in Generation : Start(c, o, g)
             \/ StartRefused(c) \/ Resume(c) \/ ResumeRefused(c) \/ ReadCheckpoint(c)
             \/ List(c) \/ ListNothing(c) \/ \E f \in File : RewriteFile(c, f)
             \/ NoFileLeft(c) \/ Fail(c) \/ Complete(c) \/ AbandonRotation(c)
             \/ Revoke(c) \/ RevokeRefused(c) \/ LoseTransaction(c) \/ Crash(c)
      PROVE  UNCHANGED writer /\ failures' \in {failures, failures + 1}
  BY <1>2 DEF Launch, AskRevocation, Rewrite, FindNothing, FindRunning, Start, StartRefused,
              Resume, ResumeRefused, ReadCheckpoint, List, ListNothing, RewriteFile, Complete,
              NoFileLeft, Fail, AbandonRotation, Revoke, RevokeRefused, LoseTransaction, Crash
<1> QED
  BY <1>1, <1>2, Zenon DEF Next, Sweep, Revocation

-----------------------------------------------------------------------------
(* Types.                                                                   *)

\* What is stored, and its index, stay what they are or become a generation.
LEMMA ObjectTypes ==
  ASSUME RotationTypeOK, CommandReads, Next
  PROVE  sealed' \in [Object -> 0..MaxGeneration] /\ index' \in [File -> 0..MaxGeneration]
<1> USE BoundAssumption DEF RotationTypeOK, Object
<1>1. ASSUME NEW x \in Object, NEW g \in 0..MaxGeneration, Stored(x, g)
      PROVE  /\ sealed' \in [Object -> 0..MaxGeneration]
             /\ index' \in [File -> 0..MaxGeneration]
  BY <1>1 DEF Stored
<1>2. CASE UNCHANGED <<sealed, index>>
  BY <1>2
<1>3. ASSUME NEW w \in Writer, NEW x \in Object, Publish(w, x)
      PROVE  Stored(x, writer[w]) /\ writer[w] \in 0..MaxGeneration
  BY <1>3 DEF Publish
<1>4. ASSUME NEW x \in Object, Delete(x)
      PROVE  Stored(x, 0) /\ 0 \in 0..MaxGeneration
  BY <1>4 DEF Delete
<1>5. ASSUME NEW f \in File, LoseIndex(f) \/ RepairIndex(f)
      PROVE  /\ sealed' \in [Object -> 0..MaxGeneration]
             /\ index' \in [File -> 0..MaxGeneration]
  BY <1>5 DEF LoseIndex, RepairIndex
<1>6. ASSUME NEW c \in Command, NEW g \in Generation, Rewrite(c, g)
      PROVE  /\ sealed' \in [Object -> 0..MaxGeneration]
             /\ index' \in [File -> 0..MaxGeneration]
  BY <1>6 DEF Rewrite, Generation
<1>7. ASSUME NEW c \in Command, NEW f \in File, RewriteFile(c, f)
      PROVE  Stored(f, command[c].to) /\ command[c].to \in 0..MaxGeneration
  BY <1>7 DEF RewriteFile, CommandRecord
<1> QED
  BY <1>1, <1>2, <1>3, <1>4, <1>5, <1>6, <1>7, ObjectSteps

\* A record of an operation, as it is made and as it moves.
LEMMA OperationMade ==
  ASSUME NEW f \in 0..MaxGeneration, NEW t \in 0..(MaxGeneration + 1)
  PROVE  [None EXCEPT !.phase = "planned", !.from = f, !.to = t] \in OperationRecord
  BY BoundAssumption DEF OperationRecord, None

\* The tables of the rotation.
LEMMA OperationTypes ==
  ASSUME RotationTypeOK, CommandReads, Next
  PROVE  /\ generation' \in [Generation -> {"none", "current", "decrypt-only", "revoked"}]
         /\ operation' \in [OperationId -> OperationRecord]
<1>1. ASSUME NEW o \in OperationId, OwnerStart(o)
      PROVE  generation' = generation /\ operation' \in [OperationId -> OperationRecord]
  <2>1. /\ policy.generation \in 0..MaxGeneration
        /\ policy.generation + 1 \in 0..(MaxGeneration + 1)
    BY BoundAssumption DEF RotationTypeOK, Generation
  <2> QED
    BY <1>1, <2>1, OperationMade DEF OwnerStart, RotationTypeOK
<1>2. ASSUME NEW c \in Command, NEW o \in OperationId, NEW g \in Generation, Start(c, o, g)
      PROVE  /\ generation' \in [Generation -> {"none", "current", "decrypt-only", "revoked"}]
             /\ operation' \in [OperationId -> OperationRecord]
  <2>1. command[c].from \in 0..MaxGeneration /\ g + 1 \in 0..(MaxGeneration + 1)
    BY BoundAssumption DEF RotationTypeOK, CommandRecord, Generation
  <2>2. operation' \in [OperationId -> OperationRecord]
    BY <1>2, <2>1, OperationMade DEF Start, RotationTypeOK
  <2> QED
    BY <1>2, <2>2 DEF Start, RotationTypeOK
<1>3. ASSUME NEW c \in Command, command[c].step \in Sweeping \cup {"resume"}
      PROVE  command[c].op \in OperationId
  BY <1>3 DEF CommandReads, CommandRead
<1>4. ASSUME NEW c \in Command, NEW cursor \in Record \cup {0}, Checkpoint(c, cursor),
             command[c].op \in OperationId
      PROVE  operation' \in [OperationId -> OperationRecord]
  BY <1>4 DEF Checkpoint, RotationTypeOK, OperationRecord, CommandRecord
<1>5. ASSUME NEW c \in Command, NEW g \in Generation, Rewrite(c, g)
      PROVE  generation' = generation /\ operation' \in [OperationId -> OperationRecord]
  BY <1>3, <1>4, <1>5 DEF Rewrite, Sweeping, RotationTypeOK, CommandRecord
<1>6. ASSUME NEW c \in Command, NEW f \in File, RewriteFile(c, f)
      PROVE  generation' = generation /\ operation' \in [OperationId -> OperationRecord]
  BY <1>3, <1>4, <1>6 DEF RewriteFile, Sweeping, RotationTypeOK, CommandRecord
<1>7. ASSUME NEW c \in Command, Resume(c)
      PROVE  generation' = generation /\ operation' \in [OperationId -> OperationRecord]
  <2>1. command[c].to \in 0..(MaxGeneration + 1) /\ command[c].op \in OperationId
    BY <1>3, <1>7, BoundAssumption DEF Resume, RotationTypeOK, CommandRecord
  <2> QED
    BY <1>7, <2>1 DEF Resume, RotationTypeOK, OperationRecord
<1>8. ASSUME NEW c \in Command, Complete(c) \/ AbandonRotation(c)
      PROVE  generation' = generation /\ operation' \in [OperationId -> OperationRecord]
  <2>1. command[c].op \in OperationId
    BY <1>3, <1>8 DEF Complete, AbandonRotation, Sweeping
  <2> QED
    BY <1>8, <2>1 DEF Complete, AbandonRotation, RotationTypeOK, OperationRecord
<1>9. ASSUME NEW c \in Command, Revoke(c)
      PROVE  /\ generation' \in [Generation -> {"none", "current", "decrypt-only", "revoked"}]
             /\ operation' = operation
  BY <1>9 DEF Revoke, RotationTypeOK
<1> QED
  BY <1>1, <1>2, <1>5, <1>6, <1>7, <1>8, <1>9, TableSteps DEF RotationTypeOK

\* The commands, and what an assignment to one field of one of them leaves.
Commands == [Command -> CommandRecord]
Steps == Sweeping \cup {"stopped", "find", "start", "resume", "revoke"}

LEMMA FieldUpdates ==
  \A F \in Commands, c \in Command :
    /\ \A s \in Steps : [F EXCEPT ![c].step = s] \in Commands
    /\ \A o \in OperationId \cup {0} : [F EXCEPT ![c].op = o] \in Commands
    /\ \A g \in 0..MaxGeneration : [F EXCEPT ![c].from = g] \in Commands
    /\ \A g \in 0..MaxGeneration : [F EXCEPT ![c].to = g] \in Commands
    /\ \A r \in Record \cup {0} : [F EXCEPT ![c].cursor = r] \in Commands
    /\ \A n \in Nat : [F EXCEPT ![c].sequence = n] \in Commands
    /\ \A S \in SUBSET Record : [F EXCEPT ![c].batch = S] \in Commands
    /\ \A r \in Record \cup {0} : [F EXCEPT ![c].last = r] \in Commands
<1> TAKE F \in Commands, c \in Command
<1>1. \A s \in Steps : [F EXCEPT ![c].step = s] \in Commands
  BY DEF CommandRecord, Commands, Steps, Sweeping
<1>2. \A o \in OperationId \cup {0} : [F EXCEPT ![c].op = o] \in Commands
  BY DEF CommandRecord, Commands
<1>3. \A g \in 0..MaxGeneration : [F EXCEPT ![c].from = g] \in Commands
  BY DEF CommandRecord, Commands
<1>4. \A g \in 0..MaxGeneration : [F EXCEPT ![c].to = g] \in Commands
  BY DEF CommandRecord, Commands
<1>5. \A r \in Record \cup {0} : [F EXCEPT ![c].cursor = r] \in Commands
  BY DEF CommandRecord, Commands
<1>6. \A n \in Nat : [F EXCEPT ![c].sequence = n] \in Commands
  BY DEF CommandRecord, Commands
<1>7. \A S \in SUBSET Record : [F EXCEPT ![c].batch = S] \in Commands
  BY DEF CommandRecord, Commands
<1>8. \A r \in Record \cup {0} : [F EXCEPT ![c].last = r] \in Commands
  BY DEF CommandRecord, Commands
<1> QED
  BY <1>1, <1>2, <1>3, <1>4, <1>5, <1>6, <1>7, <1>8

LEMMA CommandTypes ==
  ASSUME RotationTypeOK, CommandReads, Next
  PROVE  command' \in Commands
<1>0. command \in Commands
  BY DEF RotationTypeOK, Commands
<1>1. ASSUME NEW c \in Command, NEW r \in CommandRecord, command' = [command EXCEPT ![c] = r]
      PROVE  command' \in Commands
  BY <1>0, <1>1 DEF Commands
<1>2. /\ Stopped \in CommandRecord
      /\ \A g \in Generation :
           Reading("find", g, g) \in CommandRecord /\ Reading("revoke", g, 0) \in CommandRecord
  BY BoundAssumption DEF Stopped, Reading, CommandRecord, Generation
<1>3. ASSUME NEW c \in Command,
             NEW s \in {"start", "checkpoint", "files", "verify", "abandon"},
             command' = [command EXCEPT ![c].step = s]
      PROVE  command' \in Commands
  BY <1>0, <1>3, FieldUpdates DEF Steps, Sweeping
<1>4. ASSUME NEW c \in Command, NEW g \in Generation, Launch(c, g) \/ AskRevocation(c, g)
      PROVE  command' \in Commands
  BY <1>1, <1>2, <1>4 DEF Launch, AskRevocation
<1>5. ASSUME NEW c \in Command, NEW o \in OperationId, FindRunning(c, o)
      PROVE  command' \in Commands
  <2>1. operation[o].from \in 0..MaxGeneration
    BY DEF RotationTypeOK, OperationRecord
  <2> QED
    BY <1>0, <1>5, <2>1, FieldUpdates DEF FindRunning, Steps
<1>6. ASSUME NEW c \in Command, NEW o \in OperationId, NEW g \in Generation, Start(c, o, g)
      PROVE  command' \in Commands
  <2>1. g + 1 \in 0..MaxGeneration
    BY <1>6, BoundAssumption DEF Start, Generation
  <2> QED
    BY <1>0, <1>6, <2>1, FieldUpdates DEF Start, Steps, Sweeping
<1>7. ASSUME NEW c \in Command, ReadCheckpoint(c)
      PROVE  command' \in Commands
  <2>1. command[c].op \in OperationId
    BY <1>7 DEF ReadCheckpoint, CommandReads, CommandRead, Sweeping
  <2>2. /\ operation[command[c].op].cursor \in Record \cup {0}
        /\ operation[command[c].op].sequence + 1 \in Nat
    BY <2>1 DEF RotationTypeOK, OperationRecord
  <2> QED
    BY <1>0, <1>7, <2>2, FieldUpdates DEF ReadCheckpoint, Steps, Sweeping
<1>8. ASSUME NEW c \in Command, List(c)
      PROVE  command' \in Commands
  <2>1. PICK last \in AfterCursor(c), batch \in SUBSET Record :
          command' = [command EXCEPT ![c].step = "rewrite", ![c].batch = batch,
                                     ![c].last = last]
    BY <1>8 DEF List, AfterCursor, RecordsUnder
  <2>2. last \in Record \cup {0}
    BY DEF AfterCursor, RecordsUnder
  <2> QED
    BY <1>0, <2>1, <2>2, FieldUpdates DEF Steps, Sweeping
<1>9. ASSUME NEW c \in Command, NEW g \in Generation, Rewrite(c, g)
      PROVE  command' \in Commands
  <2>1. /\ command[c].last \in Record \cup {0} /\ 0 \in Record \cup {0}
        /\ {} \in SUBSET Record /\ command[c].sequence + 1 \in Nat
    BY DEF RotationTypeOK, CommandRecord
  <2>2. [command EXCEPT ![c].step = "list"] \in Commands
    BY <1>0, FieldUpdates DEF Steps, Sweeping
  <2>3. [command EXCEPT ![c].step = "list", ![c].batch = {}] \in Commands
    BY <2>1, <2>2, FieldUpdates
  <2>4. [command EXCEPT ![c].step = "list", ![c].batch = {}, ![c].last = 0] \in Commands
    BY <2>1, <2>3, FieldUpdates
  <2>5. [command EXCEPT ![c].step = "list", ![c].batch = {}, ![c].last = 0,
                        ![c].cursor = command[c].last] \in Commands
    BY <2>1, <2>4, FieldUpdates
  <2> QED
    BY <1>9, <2>1, <2>5, FieldUpdates DEF Rewrite
<1>10. ASSUME NEW c \in Command, NEW f \in File, RewriteFile(c, f)
       PROVE  command' \in Commands
  <2>1. command[c].sequence + 1 \in Nat
    BY DEF RotationTypeOK, CommandRecord
  <2> QED
    BY <1>0, <1>10, <2>1, FieldUpdates DEF RewriteFile
<1> QED
  BY <1>0, <1>1, <1>2, <1>3, <1>4, <1>5, <1>6, <1>7, <1>8, <1>9, <1>10, CommandSteps

\* The policy.
LEMMA PolicyTypes ==
  ASSUME RotationTypeOK, CommandReads, Next
  PROVE  policy' \in [generation: Generation, blocked: BOOLEAN]
<1>1. CASE ReachBlock
  BY <1>1 DEF ReachBlock, RotationTypeOK
<1>2. ASSUME NEW c \in Command, Complete(c)
      PROVE  policy' \in [generation: Generation, blocked: BOOLEAN]
  BY <1>2 DEF Complete, CommandReads, CommandRead, Existing, Sweeping
<1>3. CASE UNCHANGED policy
  BY <1>3 DEF RotationTypeOK
<1> QED
  BY <1>1, <1>2, <1>3, PolicySteps, Zenon

\* The writers and the count of the failures.
LEMMA CounterTypes ==
  ASSUME RotationTypeOK, CommandReads, Next
  PROVE  writer' \in [Writer -> 0..MaxGeneration] /\ failures' \in Nat
<1>1. ASSUME NEW w \in Writer, NEW g \in Generation, BeginWrite(w, g)
      PROVE  writer' \in [Writer -> 0..MaxGeneration] /\ failures' = failures
  BY <1>1, BoundAssumption DEF BeginWrite, RotationTypeOK, Generation
<1>2. ASSUME NEW w \in Writer, EndWrite(w)
      PROVE  writer' \in [Writer -> 0..MaxGeneration] /\ failures' = failures
  BY <1>2, BoundAssumption DEF EndWrite, Publish, RefuseWrite, RotationTypeOK
<1>3. CASE UNCHANGED writer /\ failures' \in {failures, failures + 1}
  BY <1>3 DEF RotationTypeOK
<1> HIDE DEF RotationTypeOK
<1>4. failures \in Nat
  BY DEF RotationTypeOK
<1> QED
  BY <1>1, <1>2, <1>3, <1>4, CounterSteps, Zenon

-----------------------------------------------------------------------------
(* What the steps leave true.                                               *)

\* The current generation is the last one, and the others before it are retired.
LEMMA CurrentIsLast ==
  ASSUME RotationTypeOK, NEW g \in Generation, generation[g] = "current"
  PROVE  /\ \A h \in Generation : h > g => generation[h] = "none"
         /\ \A h \in Generation : h < g => Retired(h)
         /\ g < MaxGeneration => g + 1 \in Generation /\ generation[g + 1] = "none"
<1>1. PICK m \in Generation :
        /\ generation[m] = "current"
        /\ \A h \in Generation : h > m => generation[h] = "none"
        /\ \A h \in Generation : h < m => generation[h] \in {"decrypt-only", "revoked"}
  BY DEF RotationTypeOK, TablesConsistent
<1>2. m = g
  BY <1>1 DEF Generation
<1>3. g < MaxGeneration => g + 1 \in Generation /\ g + 1 > g
  BY BoundAssumption DEF Generation
<1> QED
  BY <1>1, <1>2, <1>3 DEF Retired

\* A generation that is there stays, and one that is retired stays retired.
LEMMA GenerationsStay ==
  ASSUME RotationTypeOK, Next
  PROVE  /\ \A g : Existing(g) => Existing(g)'
         /\ \A g : Retired(g) => Retired(g)'
<1>1. CASE UNCHANGED generation
  BY <1>1 DEF Existing, Retired
<1>2. ASSUME NEW c \in Command, NEW o \in OperationId, NEW g \in Generation, Start(c, o, g)
      PROVE  /\ \A h : Existing(h) => Existing(h)'
             /\ \A h : Retired(h) => Retired(h)'
  <2>1. g + 1 \in Generation /\ generation[g + 1] = "none"
    BY <1>2, CurrentIsLast DEF Start, IsCurrent
  <2> QED
    BY <1>2, <2>1 DEF Start, IsCurrent, Existing, Retired, RotationTypeOK
<1>3. ASSUME NEW c \in Command, Revoke(c)
      PROVE  /\ \A g : Existing(g) => Existing(g)'
             /\ \A g : Retired(g) => Retired(g)'
  BY <1>3 DEF Revoke, Revocable, Existing, Retired, RotationTypeOK
<1> QED
  BY <1>1, <1>2, <1>3, TableSteps DEF OwnerStart, Rewrite, RewriteFile, Resume, Complete,
                                      AbandonRotation

\* The old generation of an operation stays what it was when it began.
LEMMA OperationsStay ==
  ASSUME RotationTypeOK, CommandReads, Next,
         NEW o \in OperationId, operation[o].phase # "none"
  PROVE  operation'[o].phase # "none" /\ operation'[o].from = operation[o].from
<1>1. ASSUME NEW p \in OperationId, OwnerStart(p)
      PROVE  operation'[o] = operation[o]
  BY <1>1 DEF OwnerStart, Startable, RotationTypeOK
<1>2. ASSUME NEW c \in Command, NEW p \in OperationId, NEW g \in Generation, Start(c, p, g)
      PROVE  operation'[o] = operation[o]
  BY <1>2 DEF Start, Startable, RotationTypeOK
<1>3. ASSUME NEW c \in Command, NEW cursor, Checkpoint(c, cursor)
      PROVE  operation'[o].phase # "none" /\ operation'[o].from = operation[o].from
  BY <1>3 DEF Checkpoint, RotationTypeOK, OperationRecord
<1>4. ASSUME NEW c \in Command, Resume(c) \/ Complete(c) \/ AbandonRotation(c)
      PROVE  operation'[o].phase # "none" /\ operation'[o].from = operation[o].from
  BY <1>4 DEF Resume, Complete, AbandonRotation, RotationTypeOK, OperationRecord
<1> QED
  BY <1>1, <1>2, <1>3, <1>4, TableSteps DEF Rewrite, RewriteFile, Revoke

\* What is stored moves to the current generation, or goes.
Moved ==
  /\ \A x \in Object : sealed'[x] \in {0, sealed[x]} \/ IsCurrent(sealed'[x])
  /\ \A f \in File : index'[f] \in {0, index[f], sealed[f]} \/ IsCurrent(index'[f])

LEMMA ObjectsMove ==
  ASSUME RotationTypeOK, Next
  PROVE  Moved
<1>1. CASE UNCHANGED <<sealed, index>>
  BY <1>1 DEF Moved
<1>2. ASSUME NEW x \in Object, NEW g, Stored(x, g), g = 0 \/ IsCurrent(g)
      PROVE  Moved
  BY <1>2 DEF Moved, Stored, RotationTypeOK
<1>3. ASSUME NEW f \in File, LoseIndex(f) \/ RepairIndex(f)
      PROVE  Moved
  BY <1>3 DEF Moved, LoseIndex, RepairIndex, RotationTypeOK
<1>4. ASSUME NEW c \in Command, NEW g \in Generation, Rewrite(c, g)
      PROVE  Moved
  BY <1>4 DEF Moved, Rewrite, RotationTypeOK
<1>5. ASSUME NEW c \in Command, NEW f \in File, RewriteFile(c, f)
      PROVE  Moved
  <2>1. Stored(f, command[c].to) /\ IsCurrent(command[c].to) /\ f \in Object
    BY <1>5 DEF RewriteFile, Pinned, Object
  <2> QED
    BY <1>2, <2>1
<1>6. ASSUME NEW w \in Writer, NEW x \in Object, Publish(w, x)
      PROVE  Moved
  BY <1>2, <1>6 DEF Publish, Pinned
<1>7. ASSUME NEW x \in Object, Delete(x)
      PROVE  Moved
  BY <1>2, <1>7 DEF Delete
<1> QED
  BY <1>1, <1>3, <1>4, <1>5, <1>6, <1>7, ObjectSteps, Zenon

\* Nothing comes back under a retired generation.
LEMMA NothingBack ==
  ASSUME RotationTypeOK, Next, NEW g, Retired(g)
  PROVE  /\ \A x \in Object : sealed[x] # g => sealed'[x] # g
         /\ \A f \in File : index[f] # g /\ sealed[f] # g => index'[f] # g
<1>1. ~IsCurrent(g) /\ g # 0
  BY DEF Retired, IsCurrent, Generation
<1> QED
  BY <1>1, ObjectsMove DEF Moved

-----------------------------------------------------------------------------
(* The constraints of the tables.                                           *)

\* A command that moves leaves the others as they are.
OwnStep(c) ==
  \/ \E g \in Generation : Launch(c, g) \/ AskRevocation(c, g)
  \/ Sweep(c) \/ Revocation(c) \/ LoseTransaction(c) \/ Crash(c)

LEMMA CommandMoves ==
  ASSUME RotationTypeOK, Next, NEW c \in Command
  PROVE  command'[c] = command[c] \/ OwnStep(c)
<1>1. ASSUME NEW w \in Writer, EndWrite(w) \/ \E g \in Generation : BeginWrite(w, g)
      PROVE  command'[c] = command[c]
  BY <1>1 DEF EndWrite, Publish, RefuseWrite, BeginWrite
<1>2. ASSUME \/ ReachBlock \/ \E o \in OperationId : OwnerStart(o)
             \/ \E x \in Object : Delete(x)
             \/ \E f \in File : LoseIndex(f) \/ RepairIndex(f)
      PROVE  command'[c] = command[c]
  BY <1>2 DEF ReachBlock, OwnerStart, Delete, LoseIndex, RepairIndex
<1>3. ASSUME NEW d \in Command, d # c, OwnStep(d)
      PROVE  command'[c] = command[c]
  BY <1>3 DEF OwnStep, Sweep, Revocation, RotationTypeOK, Launch, AskRevocation, FindNothing,
              FindRunning, Start, StartRefused, Resume, ResumeRefused, ReadCheckpoint, List,
              ListNothing, Rewrite, RewriteFile, NoFileLeft, Fail, Complete, AbandonRotation,
              Revoke, RevokeRefused, LoseTransaction, Crash
<1> QED
  BY <1>1, <1>2, <1>3, Zenon DEF Next, OwnStep

\* One generation is current.
LEMMA OneCurrent ==
  ASSUME RotationTypeOK, Next
  PROVE  \E g \in Generation :
           /\ generation'[g] = "current"
           /\ \A h \in Generation : h > g => generation'[h] = "none"
           /\ \A h \in Generation : h < g => generation'[h] \in {"decrypt-only", "revoked"}
<1>1. PICK g \in Generation :
        /\ generation[g] = "current"
        /\ \A h \in Generation : h > g => generation[h] = "none"
        /\ \A h \in Generation : h < g => generation[h] \in {"decrypt-only", "revoked"}
  BY DEF RotationTypeOK, TablesConsistent
<1>2. CASE UNCHANGED generation
  BY <1>1, <1>2
<1>3. ASSUME NEW c \in Command, NEW o \in OperationId, NEW h \in Generation, Start(c, o, h)
      PROVE  /\ g + 1 \in Generation
             /\ generation'[g + 1] = "current"
             /\ \A i \in Generation : i > g + 1 => generation'[i] = "none"
             /\ \A i \in Generation : i < g + 1 => generation'[i] \in {"decrypt-only", "revoked"}
  <2>1. h = g /\ g < MaxGeneration
    BY <1>1, <1>3 DEF Start, IsCurrent, Generation
  <2>2. g + 1 \in Generation
    BY <2>1, CurrentIsLast, <1>1
  <2>3. generation' = [generation EXCEPT ![g] = "decrypt-only", ![g + 1] = "current"]
    BY <1>3, <2>1 DEF Start
  <2>4. /\ generation'[g + 1] = "current" /\ generation'[g] = "decrypt-only"
        /\ \A i \in Generation : i # g /\ i # g + 1 => generation'[i] = generation[i]
    BY <2>2, <2>3 DEF RotationTypeOK, Generation
  <2> QED
    BY <1>1, <2>2, <2>4 DEF Generation
<1>4. ASSUME NEW c \in Command, Revoke(c)
      PROVE  /\ generation'[g] = "current"
             /\ \A h \in Generation : h > g => generation'[h] = "none"
             /\ \A h \in Generation : h < g => generation'[h] \in {"decrypt-only", "revoked"}
  BY <1>1, <1>4 DEF Revoke, Revocable, RotationTypeOK
<1> QED
  BY <1>2, <1>3, <1>4, <1>1, TableSteps DEF OwnerStart, Rewrite, RewriteFile, Resume, Complete,
                                      AbandonRotation

\* One operation is active.
LEMMA OneActive ==
  ASSUME RotationTypeOK, CommandReads, Next
  PROVE  \A o, p \in OperationId :
           operation'[o].phase \in Active /\ operation'[p].phase \in Active => o = p
<1> DEFINE OneOf(op) == \A o, p \in OperationId :
                          op[o].phase \in Active /\ op[p].phase \in Active => o = p
<1>1. OneOf(operation)
  BY DEF RotationTypeOK, TablesConsistent
<1>2. ASSUME NEW o \in OperationId, Alone(o),
             \A p \in OperationId \ {o} : operation'[p].phase = operation[p].phase
      PROVE  OneOf(operation')
  BY <1>2 DEF Alone
<1>3. ASSUME NEW o \in OperationId, operation'[o].phase \notin Active,
             \A p \in OperationId \ {o} : operation'[p].phase = operation[p].phase
      PROVE  OneOf(operation')
  BY <1>1, <1>3
<1>4. ASSUME NEW o \in OperationId, Startable(o)
      PROVE  Alone(o)
  BY <1>4 DEF Startable, Alone
<1>5. ASSUME NEW o \in OperationId, OwnerStart(o)
      PROVE  OneOf(operation')
  BY <1>2, <1>4, <1>5 DEF OwnerStart, RotationTypeOK
<1>6. ASSUME NEW c \in Command, NEW o \in OperationId, NEW g \in Generation, Start(c, o, g)
      PROVE  OneOf(operation')
  BY <1>2, <1>4, <1>6 DEF Start, RotationTypeOK
<1>7. ASSUME NEW c \in Command, command[c].step \in Sweeping \cup {"resume"}
      PROVE  command[c].op \in OperationId
  BY <1>7 DEF CommandReads, CommandRead
<1>8. ASSUME NEW c \in Command, NEW cursor, command[c].op \in OperationId,
             Alone(command[c].op), Checkpoint(c, cursor)
      PROVE  OneOf(operation')
  <2>1. \A p \in OperationId \ {command[c].op} : operation'[p].phase = operation[p].phase
    BY <1>8 DEF Checkpoint, RotationTypeOK
  <2> QED
    BY <1>2, <1>8, <2>1
<1>9. ASSUME NEW c \in Command, NEW g \in Generation, Rewrite(c, g)
      PROVE  OneOf(operation')
  BY <1>7, <1>8, <1>9 DEF Rewrite, Checkpointable, Sweeping
<1>10. ASSUME NEW c \in Command, NEW f \in File, RewriteFile(c, f)
       PROVE  OneOf(operation')
  BY <1>7, <1>8, <1>10 DEF RewriteFile, Checkpointable, Sweeping
<1>11. ASSUME NEW c \in Command, Resume(c)
       PROVE  OneOf(operation')
  <2>1. \A p \in OperationId \ {command[c].op} : operation'[p].phase = operation[p].phase
    BY <1>11 DEF Resume, RotationTypeOK
  <2> QED
    BY <1>2, <1>7, <1>11, <2>1 DEF Resume, Resumable
<1>12. ASSUME NEW c \in Command, Complete(c) \/ AbandonRotation(c)
       PROVE  OneOf(operation')
  <2>1. command[c].op \in OperationId
    BY <1>7, <1>12 DEF Complete, AbandonRotation, Sweeping
  <2>2. /\ operation'[command[c].op].phase \notin Active
        /\ \A p \in OperationId \ {command[c].op} : operation'[p].phase = operation[p].phase
    BY <1>12, <2>1 DEF Complete, AbandonRotation, RotationTypeOK, OperationRecord, Active
  <2> QED
    BY <1>3, <2>1, <2>2
<1>13. ASSUME UNCHANGED operation
       PROVE  OneOf(operation')
  BY <1>1, <1>13
<1>14. OneOf(operation')
  <2> HIDE DEF OneOf
  <2> QED
    BY <1>5, <1>6, <1>9, <1>10, <1>11, <1>12, <1>13, TableSteps DEF Revoke
<1> QED
  BY <1>14

\* An operation goes from a generation to a later one.
LEMMA OperationsAdvance ==
  ASSUME RotationTypeOK, CommandReads, Next, NEW o \in OperationId,
         operation'[o].phase # "none"
  PROVE  operation'[o].to > operation'[o].from
<1>1. operation[o].phase # "none" => operation[o].to > operation[o].from
  BY DEF RotationTypeOK, TablesConsistent
<1>2. ASSUME NEW p \in OperationId, OwnerStart(p)
      PROVE  operation'[o].to > operation'[o].from
  <2>1. operation'[p].to > operation'[p].from
    BY <1>2 DEF OwnerStart, None, RotationTypeOK, Generation
  <2>2. p # o => operation'[o] = operation[o]
    BY <1>2 DEF OwnerStart, RotationTypeOK
  <2> QED
    BY <1>1, <2>1, <2>2
<1>3. ASSUME NEW c \in Command, NEW p \in OperationId, NEW g \in Generation, Start(c, p, g)
      PROVE  operation'[o].to > operation'[o].from
  <2>1. command[c].from \in Generation /\ command[c].from <= g
    <3>1. command[c].from \in Generation /\ generation[command[c].from] # "none"
      BY <1>3 DEF Start, CommandReads, CommandRead, Existing
    <3> QED
      BY <1>3, <3>1, CurrentIsLast DEF Start, IsCurrent, Generation
  <2>2. operation'[p].to = g + 1 /\ operation'[p].from = command[c].from
    BY <1>3 DEF Start, None, RotationTypeOK
  <2>3. operation'[p].to > operation'[p].from
    BY <2>1, <2>2 DEF Generation
  <2>4. p # o => operation'[o] = operation[o]
    BY <1>3 DEF Start, RotationTypeOK
  <2> QED
    BY <1>1, <2>3, <2>4
<1>4. ASSUME NEW c \in Command, Resume(c)
      PROVE  operation'[o].to > operation'[o].from
  <2>1. /\ operation[command[c].op].from = command[c].from
        /\ command[c].to > command[c].from
    BY <1>4 DEF Resume, Resumable, CommandReads, CommandRead
  <2>2. CASE o = command[c].op
    BY <1>4, <2>1, <2>2 DEF Resume, RotationTypeOK, OperationRecord
  <2>3. CASE o # command[c].op
    BY <1>1, <1>4, <2>3 DEF Resume, RotationTypeOK
  <2> QED
    BY <2>2, <2>3
<1>5. ASSUME operation'[o].to = operation[o].to, operation'[o].from = operation[o].from,
             operation[o].phase # "none"
      PROVE  operation'[o].to > operation'[o].from
  BY <1>1, <1>5
<1>6. ASSUME NEW c \in Command, NEW cursor, Checkpoint(c, cursor)
      PROVE  operation'[o].to = operation[o].to /\ operation'[o].from = operation[o].from
  BY <1>6 DEF Checkpoint, RotationTypeOK, OperationRecord
<1>7. ASSUME NEW c \in Command, Complete(c) \/ AbandonRotation(c)
      PROVE  operation'[o].to = operation[o].to /\ operation'[o].from = operation[o].from
  BY <1>7 DEF Complete, AbandonRotation, RotationTypeOK, OperationRecord
<1>8. ASSUME NEW c \in Command,
             \/ \E g \in Generation : Rewrite(c, g)
             \/ \E f \in File : RewriteFile(c, f)
             \/ Complete(c) \/ AbandonRotation(c)
      PROVE  operation[o].phase # "none"
  <2>1. command[c].op \in OperationId /\ operation[command[c].op].phase # "none"
    BY <1>8 DEF Rewrite, RewriteFile, Complete, AbandonRotation, Sweeping, CommandReads,
                CommandRead
  <2>2. CASE o # command[c].op
    BY <1>8, <2>2 DEF Rewrite, RewriteFile, Checkpoint, Complete, AbandonRotation,
                      RotationTypeOK
  <2> QED
    BY <2>1, <2>2
<1>9. CASE UNCHANGED operation
  BY <1>1, <1>9
<1>10. ASSUME NEW c \in Command,
              \/ \E g \in Generation : Rewrite(c, g)
              \/ \E f \in File : RewriteFile(c, f)
              \/ Complete(c) \/ AbandonRotation(c)
       PROVE  operation'[o].to > operation'[o].from
  BY <1>5, <1>6, <1>7, <1>8, <1>10 DEF Rewrite, RewriteFile
<1> QED
  BY <1>2, <1>3, <1>4, <1>9, <1>10, TableSteps DEF Revoke

LEMMA TypeStays ==
  ASSUME RotationTypeOK, CommandReads, Next
  PROVE  RotationTypeOK'
<1>1. TablesConsistent'
  BY OneCurrent, OneActive, OperationsAdvance DEF TablesConsistent
<1> QED
  BY <1>1, ObjectTypes, OperationTypes, CommandTypes, PolicyTypes, CounterTypes
     DEF RotationTypeOK, Commands

-----------------------------------------------------------------------------
(* What is stored.                                                          *)

\* Only a revocation makes a generation unreadable, and it has counted.
LEMMA ReadableStays ==
  ASSUME RotationTypeOK, Readable, Next
  PROVE  Readable'
<1> SUFFICES ASSUME NEW x \in Object, sealed'[x] # 0
             PROVE  generation'[sealed'[x]] \in {"current", "decrypt-only"}
  BY DEF Readable
<1>1. /\ sealed[x] \in 0..MaxGeneration
      /\ sealed[x] # 0 => /\ generation[sealed[x]] \in {"current", "decrypt-only"}
                          /\ sealed[x] \in Generation
  BY BoundAssumption DEF Readable, RotationTypeOK, Generation
<1>2. CASE UNCHANGED generation
  BY <1>1, <1>2, ObjectsMove DEF Moved, IsCurrent
<1>3. ASSUME NEW c \in Command, NEW o \in OperationId, NEW g \in Generation, Start(c, o, g)
      PROVE  generation'[sealed'[x]] \in {"current", "decrypt-only"}
  <2>1. sealed'[x] = sealed[x]
    BY <1>3 DEF Start
  <2>2. g + 1 \in Generation
    BY <1>3, CurrentIsLast DEF Start, IsCurrent
  <2> QED
    BY <1>1, <1>3, <2>1, <2>2 DEF Start, RotationTypeOK
<1>4. ASSUME NEW c \in Command, Revoke(c)
      PROVE  generation'[sealed'[x]] \in {"current", "decrypt-only"}
  <2>1. sealed'[x] = sealed[x] /\ Unreferenced(command[c].from) /\ Verified(command[c].from)
    BY <1>4 DEF Revoke, Revocable
  <2>2. sealed[x] # command[c].from
    BY <2>1 DEF Unreferenced, RecordsUnder, Verified, Object
  <2> QED
    BY <1>1, <1>4, <2>1, <2>2 DEF Revoke, RotationTypeOK
<1> QED
  BY <1>2, <1>3, <1>4, TableSteps DEF OwnerStart, Rewrite, RewriteFile, Resume, Complete,
                                      AbandonRotation

LEMMA IndexStays ==
  ASSUME RotationTypeOK, IndexFaithful, Next
  PROVE  IndexFaithful'
<1>1. CASE UNCHANGED <<sealed, index>>
  BY <1>1 DEF IndexFaithful
<1>2. ASSUME NEW x \in Object, NEW g, Stored(x, g)
      PROVE  IndexFaithful'
  BY <1>2 DEF Stored, IndexFaithful, RotationTypeOK, Object
<1>3. ASSUME NEW f \in File, LoseIndex(f) \/ RepairIndex(f)
      PROVE  IndexFaithful'
  BY <1>3 DEF LoseIndex, RepairIndex, IndexFaithful, RotationTypeOK
<1>4. ASSUME NEW c \in Command, NEW g \in Generation, Rewrite(c, g)
      PROVE  IndexFaithful'
  <2>1. \A f \in File : f \in Object /\ f \notin command[c].batch
    BY ObjectAssumption DEF RotationTypeOK, CommandRecord, Object
  <2>2. \A f \in File : sealed'[f] = sealed[f] /\ index'[f] = index[f]
    BY <1>4, <2>1 DEF Rewrite
  <2> QED
    BY <2>2 DEF IndexFaithful
<1>5. ASSUME NEW c \in Command, NEW f \in File, RewriteFile(c, f)
      PROVE  IndexFaithful'
  <2>1. Stored(f, command[c].to) /\ f \in Object
    BY <1>5 DEF RewriteFile, Object
  <2> QED
    BY <1>2, <2>1
<1>6. ASSUME NEW w \in Writer, NEW x \in Object, Publish(w, x)
      PROVE  IndexFaithful'
  BY <1>2, <1>6 DEF Publish
<1>7. ASSUME NEW x \in Object, Delete(x)
      PROVE  IndexFaithful'
  BY <1>2, <1>7 DEF Delete
<1> QED
  BY <1>1, <1>3, <1>4, <1>5, <1>6, <1>7, ObjectSteps, Zenon

-----------------------------------------------------------------------------
(* What a command has read, and what it has swept.                          *)

\* What holds of a command that does not move.
LEMMA ReadStays ==
  ASSUME RotationTypeOK, CommandReads, Next, NEW c \in Command, command'[c] = command[c]
  PROVE  CommandRead(c)'
<1>1. CommandRead(c)
  BY DEF CommandReads
<1>2. ASSUME command[c].op \in OperationId, operation[command[c].op].phase # "none"
      PROVE  /\ operation'[command[c].op].phase # "none"
             /\ operation'[command[c].op].from = operation[command[c].op].from
  BY <1>2, OperationsStay
<1>3. (Existing(command[c].to) => generation'[command[c].to] # "none")
  BY GenerationsStay DEF Existing
<1>4. Retired(command[c].from) => generation'[command[c].from] \in {"decrypt-only", "revoked"}
  BY GenerationsStay DEF Retired
<1> QED
  BY <1>1, <1>2, <1>3, <1>4 DEF CommandRead, Existing, Retired

\* What holds of a command that moves on with what it knew.
LEMMA StepChanges ==
  ASSUME RotationTypeOK, NEW c \in Command, NEW s, command' = [command EXCEPT ![c].step = s]
  PROVE  /\ command'[c].step = s
         /\ command'[c].op = command[c].op
         /\ command'[c].from = command[c].from
         /\ command'[c].to = command[c].to
         /\ command'[c].cursor = command[c].cursor
         /\ command'[c].batch = command[c].batch
         /\ command'[c].last = command[c].last
  BY DEF RotationTypeOK, CommandRecord

LEMMA StopStays ==
  ASSUME RotationTypeOK, NEW c \in Command, command' = [command EXCEPT ![c] = Stopped]
  PROVE  CommandRead(c)' /\ Swept(c)'
<1>1. command'[c].step = "stopped"
  BY DEF RotationTypeOK, Stopped, Reading
<1> QED
  BY <1>1 DEF CommandRead, Swept, Sweeping

LEMMA OwnReadStays ==
  ASSUME RotationTypeOK, CommandReads, OperationRetired, Next, NEW c \in Command, OwnStep(c)
  PROVE  CommandRead(c)'
<1>1. /\ CommandRead(c)
      /\ command[c] \in CommandRecord
  BY DEF CommandReads, RotationTypeOK
<1>2. ASSUME command[c].op \in OperationId, operation[command[c].op].phase # "none"
      PROVE  /\ operation'[command[c].op].phase # "none"
             /\ operation'[command[c].op].from = operation[command[c].op].from
  BY <1>2, OperationsStay
<1>3. ASSUME NEW g \in Generation, Launch(c, g) \/ AskRevocation(c, g)
      PROVE  CommandRead(c)'
  <2>1. CASE Launch(c, g)
    <3>1. /\ command'[c].step = "find" /\ command'[c].from = g /\ command'[c].to = g
          /\ generation'[g] = "current"
      BY <2>1 DEF Launch, Reading, RotationTypeOK, IsCurrent
    <3> QED
      BY <3>1 DEF CommandRead, Existing, Sweeping
  <2>2. CASE AskRevocation(c, g)
    <3>1. command'[c].step = "revoke" /\ command'[c].from = g
      BY <2>2 DEF AskRevocation, Reading, RotationTypeOK
    <3> QED
      BY <3>1 DEF CommandRead, Sweeping
  <2> QED
    BY <1>3, <2>1, <2>2
<1>4. CASE FindNothing(c)
  <2>1. /\ command'[c].step = "start" /\ command'[c].from = command[c].from
        /\ command'[c].to = command[c].to /\ command[c].step = "find"
        /\ UNCHANGED generation
    BY <1>4, StepChanges DEF FindNothing
  <2> QED
    BY <1>1, <2>1 DEF CommandRead, Existing, Sweeping
<1>5. ASSUME NEW o \in OperationId, FindRunning(c, o)
      PROVE  CommandRead(c)'
  <2>1. /\ command'[c].step = "resume" /\ command'[c].op = o
        /\ command'[c].from = operation[o].from /\ command'[c].to = command[c].to
        /\ command[c].step = "find" /\ UNCHANGED <<generation, operation>>
    BY <1>1, <1>5 DEF FindRunning, RotationTypeOK, CommandRecord
  <2>2. operation[o].phase # "none"
    BY <1>5 DEF FindRunning, Newest, Unfinished, Active
  <2> QED
    BY <1>1, <2>1, <2>2 DEF CommandRead, Existing, Sweeping
<1>6. ASSUME NEW o \in OperationId, NEW g \in Generation, Start(c, o, g)
      PROVE  CommandRead(c)'
  <2>1. /\ command'[c].step = "checkpoint" /\ command'[c].op = o
        /\ command'[c].from = command[c].from /\ command'[c].to = g + 1
    BY <1>1, <1>6 DEF Start, RotationTypeOK, CommandRecord
  <2>2. operation'[o].phase = "planned" /\ operation'[o].from = command[c].from
    BY <1>6 DEF Start, RotationTypeOK, None
  <2>3. g + 1 \in Generation /\ generation[g] = "current"
    BY <1>6, CurrentIsLast DEF Start, IsCurrent
  <2>4. command[c].from \in Generation /\ generation[command[c].from] # "none"
    BY <1>1, <1>6 DEF Start, CommandRead, Existing
  <2>5. command[c].from = g \/ Retired(command[c].from)
    BY <2>3, <2>4, CurrentIsLast DEF Generation
  <2>6. generation'[g] = "decrypt-only" /\ generation'[g + 1] = "current"
    BY <1>6, <2>3 DEF Start, RotationTypeOK, Generation
  <2>7. Retired(command[c].from)'
    <3>1. CASE command[c].from = g
      BY <2>1, <2>4, <2>6, <3>1 DEF Retired, Start
    <3>2. CASE Retired(command[c].from)
      <4>1. generation'[command[c].from] \in {"decrypt-only", "revoked"}
        BY <3>2, GenerationsStay DEF Retired
      <4> QED
        BY <2>1, <2>4, <4>1 DEF Retired
    <3> QED
      BY <2>5, <3>1, <3>2
  <2> QED
    BY <2>1, <2>2, <2>3, <2>6, <2>7 DEF CommandRead, Existing, Sweeping, Retired
<1>7. CASE Resume(c)
  <2>1. /\ command'[c].step = "checkpoint" /\ command'[c].op = command[c].op
        /\ command'[c].from = command[c].from /\ command'[c].to = command[c].to
        /\ command[c].step = "resume" /\ UNCHANGED generation
        /\ command[c].to > command[c].from
    BY <1>7, StepChanges DEF Resume, Resumable
  <2>2. /\ command[c].op \in OperationId /\ operation[command[c].op].phase # "none"
        /\ operation[command[c].op].from = command[c].from /\ Existing(command[c].to)
    BY <1>1, <2>1 DEF CommandRead
  <2>3. command[c].from \in Generation
    BY <2>2 DEF OperationRetired
  <2>4. PICK g \in Generation : generation[g] = "current"
    BY DEF RotationTypeOK, TablesConsistent
  <2>5. command[c].from < g
    BY <2>1, <2>2, <2>3, <2>4, CurrentIsLast DEF Existing, Generation
  <2>6. Retired(command[c].from)
    BY <2>3, <2>4, <2>5, CurrentIsLast
  <2> QED
    BY <1>2, <2>1, <2>2, <2>6 DEF CommandRead, Existing, Retired
<1>8. ASSUME command[c].step \in Sweeping, command'[c].step \in Sweeping,
             command'[c].step = "rewrite" => command'[c].last \in Record,
             command'[c].op = command[c].op, command'[c].from = command[c].from,
             command'[c].to = command[c].to, UNCHANGED generation
      PROVE  CommandRead(c)'
  <2>1. command'[c].step \notin {"find", "start", "resume", "revoke"}
    BY <1>8 DEF Sweeping
  <2> QED
    BY <1>1, <1>2, <1>8, <2>1 DEF CommandRead, Existing, Retired
<1>9. CASE ReadCheckpoint(c)
  <2>1. /\ command'[c].step = "list" /\ command[c].step = "checkpoint"
        /\ command'[c].op = command[c].op /\ command'[c].from = command[c].from
        /\ command'[c].to = command[c].to /\ UNCHANGED generation
    BY <1>1, <1>9 DEF ReadCheckpoint, RotationTypeOK, CommandRecord
  <2> QED
    BY <1>8, <2>1 DEF Sweeping
<1>10. CASE List(c)
  <2>1. PICK last \in AfterCursor(c), batch \in SUBSET Record :
          command' = [command EXCEPT ![c].step = "rewrite", ![c].batch = batch,
                                     ![c].last = last]
    BY <1>10 DEF List, AfterCursor, RecordsUnder
  <2>2. last \in Record
    BY DEF AfterCursor, RecordsUnder
  <2>3. /\ command'[c].step = "rewrite" /\ command'[c].last = last
        /\ command'[c].op = command[c].op /\ command'[c].from = command[c].from
        /\ command'[c].to = command[c].to
    BY <1>1, <2>1 DEF RotationTypeOK, CommandRecord
  <2>4. command[c].step = "list" /\ UNCHANGED generation
    BY <1>10 DEF List
  <2> QED
    BY <1>8, <2>2, <2>3, <2>4 DEF Sweeping
<1>11. ASSUME NEW g \in Generation, Rewrite(c, g)
       PROVE  CommandRead(c)'
  <2>1. /\ command'[c].step = "list" /\ command[c].step = "rewrite"
        /\ command'[c].op = command[c].op /\ command'[c].from = command[c].from
        /\ command'[c].to = command[c].to /\ UNCHANGED generation
    BY <1>1, <1>11 DEF Rewrite, RotationTypeOK, CommandRecord
  <2> QED
    BY <1>8, <2>1 DEF Sweeping
<1>12. ASSUME NEW f \in File, RewriteFile(c, f)
       PROVE  CommandRead(c)'
  <2>1. /\ command'[c].step = "files" /\ command[c].step = "files"
        /\ command'[c].op = command[c].op /\ command'[c].from = command[c].from
        /\ command'[c].to = command[c].to /\ UNCHANGED generation
    BY <1>1, <1>12 DEF RewriteFile, RotationTypeOK, CommandRecord
  <2> QED
    BY <1>8, <2>1 DEF Sweeping
<1>13. ASSUME NEW s \in {"files", "verify", "abandon"}, command[c].step \in Sweeping,
              command' = [command EXCEPT ![c].step = s], UNCHANGED generation
       PROVE  CommandRead(c)'
  <2>1. /\ command'[c].step = s /\ command'[c].op = command[c].op
        /\ command'[c].from = command[c].from /\ command'[c].to = command[c].to
    BY <1>13, StepChanges
  <2> QED
    BY <1>8, <1>13, <2>1 DEF Sweeping
<1>14. CASE ListNothing(c) \/ NoFileLeft(c) \/ Fail(c) \/ LoseTransaction(c)
  BY <1>13, <1>14 DEF ListNothing, NoFileLeft, Fail, Fails, LoseTransaction, Sweeping
<1>15. CASE \/ StartRefused(c) \/ ResumeRefused(c) \/ Complete(c) \/ AbandonRotation(c)
            \/ Revocation(c) \/ Crash(c)
  BY <1>15, StopStays DEF StartRefused, ResumeRefused, Complete, AbandonRotation, Revocation,
                          Revoke, RevokeRefused, Crash
<1> QED
  BY <1>3, <1>4, <1>5, <1>6, <1>7, <1>9, <1>10, <1>11, <1>12, <1>14, <1>15, Zenon
     DEF OwnStep, Sweep

LEMMA ReadsStay ==
  ASSUME RotationTypeOK, CommandReads, OperationRetired, Next
  PROVE  CommandReads'
  BY CommandMoves, ReadStays, OwnReadStays DEF CommandReads

-----------------------------------------------------------------------------
(* The operations: what each step makes of the cursor and of the phase.     *)

\* The operations as a step leaves them: begun anew; with the cursor of the
\* batch or of the command that rewrote; complete after the counts; or with
\* the cursor they had.
OperationMoves(o) ==
  \/ /\ operation[o].phase = "none"
     /\ operation'[o].cursor = 0 /\ operation'[o].phase = "planned"
     /\ operation'[o].from \in Generation
  \/ /\ operation'[o].phase # "complete"
     /\ \E c \in Command :
          /\ command[c].step \in Sweeping /\ command[c].op = o
          /\ \/ \E g \in Generation : Rewrite(c, g) /\ operation'[o].cursor = command[c].last
             \/ /\ command[c].step = "files"
                /\ operation'[o].cursor = command[c].cursor
                /\ \A r \in Record : sealed'[r] = sealed[r]
  \/ /\ operation'[o].cursor = operation[o].cursor
     /\ \E c \in Command : Complete(c) /\ command[c].op = o
  \/ /\ operation'[o].cursor = operation[o].cursor
     /\ operation'[o].phase # "complete"
     /\ operation[o].phase = "none" => operation'[o].phase = "none"
  \/ operation'[o] = operation[o]

LEMMA OperationsMove ==
  ASSUME RotationTypeOK, CommandReads, OperationRetired, Next, NEW o \in OperationId
  PROVE  OperationMoves(o)
<1>1. ASSUME NEW p \in OperationId, OwnerStart(p)
      PROVE  OperationMoves(o)
  <2>1. CASE p = o
    BY <1>1, <2>1 DEF OwnerStart, Startable, None, RotationTypeOK, OperationMoves
  <2>2. CASE p # o
    BY <1>1, <2>2 DEF OwnerStart, RotationTypeOK, OperationMoves
  <2> QED
    BY <2>1, <2>2
<1>2. ASSUME NEW c \in Command, NEW p \in OperationId, NEW g \in Generation, Start(c, p, g)
      PROVE  OperationMoves(o)
  <2>1. command[c].from \in Generation
    BY <1>2 DEF Start, CommandReads, CommandRead, Existing
  <2>2. CASE p = o
    BY <1>2, <2>1, <2>2 DEF Start, Startable, None, RotationTypeOK, OperationMoves
  <2>3. CASE p # o
    BY <1>2, <2>3 DEF Start, RotationTypeOK, OperationMoves
  <2> QED
    BY <2>2, <2>3
<1>3. ASSUME NEW c \in Command, NEW g \in Generation, Rewrite(c, g)
      PROVE  OperationMoves(o)
  <2>1. CASE command[c].op = o
    <3>1. operation'[o].cursor = command[c].last /\ operation'[o].phase = "rewriting"
      BY <1>3, <2>1 DEF Rewrite, Checkpoint, RotationTypeOK, OperationRecord
    <3>2. command[c].step \in Sweeping
      BY <1>3 DEF Rewrite, Sweeping
    <3> QED
      BY <1>3, <2>1, <3>1, <3>2 DEF OperationMoves
  <2>2. CASE command[c].op # o
    BY <1>3, <2>2 DEF Rewrite, Checkpoint, RotationTypeOK, OperationMoves
  <2> QED
    BY <2>1, <2>2
<1>4. ASSUME NEW c \in Command, NEW f \in File, RewriteFile(c, f)
      PROVE  OperationMoves(o)
  <2>1. CASE command[c].op = o
    <3>1. operation'[o].cursor = command[c].cursor /\ operation'[o].phase = "rewriting"
      BY <1>4, <2>1 DEF RewriteFile, Checkpoint, RotationTypeOK, OperationRecord
    <3>2. command[c].step = "files" /\ command[c].step \in Sweeping
      BY <1>4 DEF RewriteFile, Sweeping
    <3>3. \A r \in Record : sealed'[r] = sealed[r]
      BY <1>4, ObjectAssumption DEF RewriteFile, Stored, RotationTypeOK, Object
    <3> QED
      BY <2>1, <3>1, <3>2, <3>3 DEF OperationMoves
  <2>2. CASE command[c].op # o
    BY <1>4, <2>2 DEF RewriteFile, Checkpoint, RotationTypeOK, OperationMoves
  <2> QED
    BY <2>1, <2>2
<1>5. ASSUME NEW c \in Command, Resume(c) \/ AbandonRotation(c)
      PROVE  OperationMoves(o)
  <2>1. operation[command[c].op].phase # "none"
    BY <1>5 DEF Resume, AbandonRotation, CommandReads, CommandRead, Sweeping
  <2>2. CASE command[c].op = o
    BY <1>5, <2>1, <2>2 DEF Resume, AbandonRotation, RotationTypeOK, OperationRecord,
                            OperationMoves
  <2>3. CASE command[c].op # o
    BY <1>5, <2>3 DEF Resume, AbandonRotation, RotationTypeOK, OperationMoves
  <2> QED
    BY <2>2, <2>3
<1>6. ASSUME NEW c \in Command, Complete(c)
      PROVE  OperationMoves(o)
  <2>1. CASE command[c].op = o
    BY <1>6, <2>1 DEF Complete, RotationTypeOK, OperationRecord, OperationMoves
  <2>2. CASE command[c].op # o
    BY <1>6, <2>2 DEF Complete, RotationTypeOK, OperationMoves
  <2> QED
    BY <2>1, <2>2
<1>7. CASE UNCHANGED operation
  BY <1>7 DEF OperationMoves
<1> QED
  BY <1>1, <1>2, <1>3, <1>4, <1>5, <1>6, <1>7, TableSteps DEF Revoke

\* What the sweep of an operation is behind is retired.
LEMMA RetiredStays ==
  ASSUME RotationTypeOK, CommandReads, OperationRetired, Next
  PROVE  OperationRetired'
<1> SUFFICES ASSUME NEW o \in OperationId
             PROVE  /\ operation'[o].phase # "none" => operation'[o].from \in Generation
                    /\ operation'[o].phase = "none" => operation'[o].cursor = 0
                    /\ operation'[o].cursor # 0 \/ operation'[o].phase = "complete"
                         => Retired(operation[o].from)'
  BY DEF OperationRetired
<1>1. /\ operation[o].phase # "none" => operation[o].from \in Generation
      /\ operation[o].phase = "none" => operation[o].cursor = 0
      /\ operation[o].cursor # 0 \/ operation[o].phase = "complete" => Retired(operation[o].from)
  BY DEF OperationRetired
<1>2. operation[o].phase # "none" =>
        operation'[o].phase # "none" /\ operation'[o].from = operation[o].from
  BY OperationsStay
<1>3. Retired(operation[o].from) => generation'[operation[o].from] \in {"decrypt-only", "revoked"}
  BY GenerationsStay DEF Retired
<1>4. ASSUME NEW c \in Command, command[c].step \in Sweeping, command[c].op = o
      PROVE  operation[o].phase # "none" /\ Retired(operation[o].from)
  BY <1>4 DEF CommandReads, CommandRead
<1>5. ASSUME operation[o].phase # "none"
      PROVE  operation[o].cursor = operation'[o].cursor \/ Retired(operation[o].from)
  BY <1>4, <1>5, OperationsMove DEF OperationMoves
<1>6. ASSUME operation[o].phase # "none", operation'[o].phase = "complete"
      PROVE  Retired(operation[o].from)
  <2>1. ASSUME NEW c \in Command, Complete(c), command[c].op = o
        PROVE  Retired(operation[o].from)
    BY <1>4, <2>1 DEF Complete, Sweeping
  <2> QED
    BY <1>1, <1>6, <2>1, OperationsMove DEF OperationMoves
<1>7. CASE operation[o].phase # "none"
  BY <1>1, <1>2, <1>3, <1>5, <1>6, <1>7 DEF Retired
<1>8. CASE operation[o].phase = "none"
  <2>1. ASSUME NEW c \in Command, command[c].op = o
        PROVE  ~Complete(c) /\ command[c].step \notin Sweeping
    BY <1>4, <1>8, <2>1 DEF Complete, Sweeping
  <2>2. \/ /\ operation'[o].cursor = 0 /\ operation'[o].phase = "planned"
           /\ operation'[o].from \in Generation
        \/ operation'[o].cursor = operation[o].cursor /\ operation'[o].phase = "none"
    BY <1>8, <2>1, OperationsMove, Zenon DEF OperationMoves
  <2> QED
    BY <1>1, <1>8, <2>2
<1> QED
  BY <1>7, <1>8

\* A sweep leaves nothing of the old generation up to its cursor.
LEMMA NothingBehindStays ==
  ASSUME RotationTypeOK, CommandReads, OperationRetired, NothingBehindCursor, CommandSwept, Next
  PROVE  NothingBehindCursor'
<1> SUFFICES ASSUME NEW o \in OperationId, NEW r \in Record, r <= operation'[o].cursor
             PROVE  sealed'[r] # operation'[o].from
  BY DEF NothingBehindCursor
<1>1. r > 0 /\ r \in Object /\ r \in Nat
  BY ObjectAssumption DEF Object
<1>2. ASSUME r <= operation[o].cursor
      PROVE  sealed'[r] # operation'[o].from
  <2>1. operation[o].cursor # 0
    BY <1>1, <1>2
  <2>2. Retired(operation[o].from) /\ operation[o].phase # "none"
    BY <2>1 DEF OperationRetired
  <2>3. sealed[r] # operation[o].from
    BY <1>2 DEF NothingBehindCursor
  <2> QED
    BY <1>1, <2>2, <2>3, NothingBack, OperationsStay
<1>3. ASSUME NEW c \in Command, command[c].op = o, command[c].step \in Sweeping
      PROVE  /\ operation'[o].from = command[c].from
             /\ Retired(command[c].from)
  <2>1. /\ operation[o].phase # "none" /\ operation[o].from = command[c].from
        /\ Retired(command[c].from)
    BY <1>3 DEF CommandReads, CommandRead
  <2> QED
    BY <2>1, OperationsStay
<1>4. ASSUME NEW c \in Command, command[c].op = o, command[c].step \in Sweeping,
             NEW g \in Generation, Rewrite(c, g), operation'[o].cursor = command[c].last
      PROVE  sealed'[r] # operation'[o].from
  <2>1. /\ command[c].step = "rewrite" /\ IsCurrent(g)
        /\ sealed'[r] = IF r \in command[c].batch /\ sealed[r] # 0 THEN g ELSE sealed[r]
    BY <1>1, <1>4 DEF Rewrite
  <2>2. r \notin command[c].batch => sealed[r] # command[c].from
    BY <1>4, <2>1 DEF CommandSwept, Swept
  <2>3. command[c].from # 0 /\ command[c].from # g
    BY <1>3, <1>4, <2>1 DEF Retired, IsCurrent, Generation
  <2> QED
    BY <1>3, <1>4, <2>1, <2>2, <2>3
<1>5. ASSUME NEW c \in Command, command[c].op = o, command[c].step = "files",
             operation'[o].cursor = command[c].cursor, sealed'[r] = sealed[r]
      PROVE  sealed'[r] # operation'[o].from
  <2>1. sealed[r] # command[c].from
    BY <1>5 DEF CommandSwept, Swept
  <2> QED
    BY <1>3, <1>5, <2>1 DEF Sweeping
<1>6. ASSUME operation'[o].cursor = 0
      PROVE  FALSE
  BY <1>1, <1>6
<1> QED
  BY <1>2, <1>4, <1>5, <1>6, OperationsMove DEF OperationMoves

\* What a command that has begun to sweep is behind.
LEMMA SweptStays ==
  ASSUME RotationTypeOK, CommandReads, OperationRetired, NothingBehindCursor, CommandSwept, Next
  PROVE  CommandSwept'
<1> SUFFICES ASSUME NEW c \in Command
             PROVE  Swept(c)'
  BY DEF CommandSwept
<1>1. Swept(c) /\ CommandRead(c) /\ command[c] \in CommandRecord
  BY DEF CommandSwept, CommandReads, RotationTypeOK
<1>2. ASSUME NEW r \in Record
      PROVE  r \in Object /\ r \in Nat /\ r > 0
  BY ObjectAssumption DEF Object
<1>3. ASSUME command[c].step \in Sweeping, NEW r \in Record, sealed[r] # command[c].from
      PROVE  sealed'[r] # command[c].from
  BY <1>1, <1>2, <1>3, NothingBack DEF CommandRead
<1>4. CASE command'[c] = command[c]
  <2>1. CASE command[c].step \in Sweeping
    BY <1>1, <1>3, <1>4, <2>1 DEF Swept
  <2>2. CASE command[c].step \notin Sweeping
    BY <1>4, <2>2 DEF Swept, Sweeping
  <2> QED
    BY <2>1, <2>2
<1>5. ASSUME command'[c].step \notin {"list", "rewrite", "files", "verify"}
      PROVE  Swept(c)'
  BY <1>5 DEF Swept
<1>6. CASE \/ \E g \in Generation : Launch(c, g) \/ AskRevocation(c, g)
           \/ FindNothing(c) \/ \E o \in OperationId : FindRunning(c, o)
           \/ \E o \in OperationId, g \in Generation : Start(c, o, g)
           \/ Resume(c) \/ Fail(c) \/ LoseTransaction(c)
  <2>1. command'[c].step \in {"find", "revoke", "start", "resume", "checkpoint", "abandon"}
    <3>1. ASSUME NEW g \in Generation, Launch(c, g) \/ AskRevocation(c, g)
          PROVE  command'[c].step \in {"find", "revoke"}
      BY <3>1 DEF Launch, AskRevocation, Reading, RotationTypeOK
    <3>2. ASSUME FindNothing(c) \/ Resume(c) \/ Fail(c) \/ LoseTransaction(c)
          PROVE  command'[c].step \in {"start", "checkpoint", "abandon"}
      BY <3>2, StepChanges DEF FindNothing, Resume, Fail, LoseTransaction
    <3>3. ASSUME NEW o \in OperationId, FindRunning(c, o)
          PROVE  command'[c].step = "resume"
      BY <1>1, <3>3 DEF FindRunning, RotationTypeOK, CommandRecord
    <3>4. ASSUME NEW o \in OperationId, NEW g \in Generation, Start(c, o, g)
          PROVE  command'[c].step = "checkpoint"
      BY <1>1, <3>4 DEF Start, RotationTypeOK, CommandRecord
    <3> QED
      BY <1>6, <3>1, <3>2, <3>3, <3>4
  <2> QED
    BY <1>5, <2>1
<1>7. CASE ReadCheckpoint(c)
  <2>1. /\ command'[c].step = "list" /\ command'[c].from = command[c].from
        /\ command'[c].cursor = operation[command[c].op].cursor
        /\ command[c].step = "checkpoint"
    BY <1>1, <1>7 DEF ReadCheckpoint, RotationTypeOK, CommandRecord
  <2>2. /\ command[c].op \in OperationId
        /\ operation[command[c].op].from = command[c].from
    BY <1>1, <2>1 DEF CommandRead, Sweeping
  <2>3. ASSUME NEW r \in Record, r <= command'[c].cursor
        PROVE  sealed'[r] # command'[c].from
    BY <1>3, <2>1, <2>2, <2>3 DEF NothingBehindCursor, Sweeping
  <2> QED
    BY <2>1, <2>3 DEF Swept
<1>8. CASE List(c)
  <2>1. PICK last \in AfterCursor(c) :
          command' = [command EXCEPT ![c].step = "rewrite",
                                     ![c].batch = {r \in AfterCursor(c) : r <= last},
                                     ![c].last = last]
    BY <1>8 DEF List
  <2> DEFINE batch == {r \in AfterCursor(c) : r <= last}
  <2>2. command' = [command EXCEPT ![c].step = "rewrite", ![c].batch = batch, ![c].last = last]
    BY <2>1
  <2>3. \A r \in Record : /\ r <= last /\ r \notin batch /\ ~(r <= command[c].cursor)
                          => sealed[r] # command[c].from
    <3>1. \A r \in Record : r \in Nat
      BY <1>2
    <3>2. command[c].cursor \in Nat
      BY <1>1, <3>1 DEF CommandRecord
    <3> QED
      BY <3>1, <3>2 DEF AfterCursor, RecordsUnder
  <2> HIDE DEF batch
  <2>4. /\ command'[c].step = "rewrite" /\ command'[c].from = command[c].from
        /\ command'[c].cursor = command[c].cursor
        /\ command'[c].batch = batch /\ command'[c].last = last
    BY <1>1, <2>2 DEF RotationTypeOK, CommandRecord
  <2>5. command[c].step = "list"
    BY <1>8 DEF List
  <2>6. \A r \in Record : r <= command[c].cursor => sealed[r] # command[c].from
    BY <1>1, <2>5 DEF Swept
  <2>7. ASSUME NEW r \in Record,
               r <= command[c].cursor \/ (r <= last /\ r \notin batch)
        PROVE  sealed'[r] # command[c].from
    BY <1>3, <2>3, <2>5, <2>6, <2>7 DEF Sweeping
  <2> QED
    BY <2>4, <2>7 DEF Swept
<1>9. CASE ListNothing(c) \/ NoFileLeft(c)
  <2>1. /\ command'[c].step \in {"files", "verify"} /\ command'[c].from = command[c].from
        /\ command'[c].cursor = command[c].cursor
        /\ command[c].step \in {"list", "files"}
    BY <1>9, StepChanges DEF ListNothing, NoFileLeft
  <2> QED
    BY <1>1, <1>3, <2>1 DEF Swept, Sweeping
<1>10. ASSUME NEW f \in File, RewriteFile(c, f)
       PROVE  Swept(c)'
  <2>1. /\ command'[c].step = "files" /\ command'[c].from = command[c].from
        /\ command'[c].cursor = command[c].cursor /\ command[c].step = "files"
    BY <1>1, <1>10 DEF RewriteFile, RotationTypeOK, CommandRecord
  <2> QED
    BY <1>1, <1>3, <2>1 DEF Swept, Sweeping
<1>11. ASSUME NEW g \in Generation, Rewrite(c, g)
       PROVE  Swept(c)'
  <2>1. /\ command'[c].step = "list" /\ command'[c].from = command[c].from
        /\ command'[c].cursor = command[c].last
        /\ command[c].step = "rewrite" /\ IsCurrent(g)
    BY <1>1, <1>11 DEF Rewrite, RotationTypeOK, CommandRecord
  <2>2. command[c].from # 0 /\ command[c].from # g
    BY <1>1, <2>1 DEF CommandRead, Sweeping, Retired, IsCurrent, Generation
  <2>3. ASSUME NEW r \in Record, r <= command[c].last
        PROVE  sealed'[r] # command[c].from
    <3>1. sealed'[r] = IF r \in command[c].batch /\ sealed[r] # 0 THEN g ELSE sealed[r]
      BY <1>2, <1>11 DEF Rewrite
    <3>2. r \notin command[c].batch => sealed[r] # command[c].from
      BY <1>1, <2>1, <2>3 DEF Swept
    <3> QED
      BY <2>2, <3>1, <3>2
  <2> QED
    BY <2>1, <2>3 DEF Swept
<1>12. CASE \/ StartRefused(c) \/ ResumeRefused(c) \/ Complete(c) \/ AbandonRotation(c)
            \/ Revocation(c) \/ Crash(c)
  BY <1>12, StopStays DEF StartRefused, ResumeRefused, Complete, AbandonRotation, Revocation,
                          Revoke, RevokeRefused, Crash
<1> QED
  BY <1>4, <1>6, <1>7, <1>8, <1>9, <1>10, <1>11, <1>12, CommandMoves, Zenon DEF OwnStep, Sweep

\* A completed sweep has counted, and nothing comes back.
LEMMA CompletionStays ==
  ASSUME RotationTypeOK, CommandReads, OperationRetired, SweptWhenComplete, Next
  PROVE  SweptWhenComplete'
<1> SUFFICES ASSUME NEW o \in OperationId, operation'[o].phase = "complete"
             PROVE  /\ \A x \in Object : sealed'[x] # operation'[o].from
                    /\ \A f \in File : index'[f] # operation'[o].from
  BY DEF SweptWhenComplete
<1>1. CASE operation[o].phase = "complete"
  <2>1. /\ Retired(operation[o].from)
        /\ \A x \in Object : sealed[x] # operation[o].from
        /\ \A f \in File : index[f] # operation[o].from /\ f \in Object
    BY <1>1 DEF OperationRetired, SweptWhenComplete, Object
  <2>2. operation'[o].from = operation[o].from
    BY <1>1, OperationsStay
  <2> QED
    BY <2>1, <2>2, NothingBack
<1>2. ASSUME NEW c \in Command, Complete(c), command[c].op = o
      PROVE  /\ \A x \in Object : sealed'[x] # operation'[o].from
             /\ \A f \in File : index'[f] # operation'[o].from
  <2>1. /\ operation[o].phase # "none" /\ operation[o].from = command[c].from
        /\ command[c].from # 0
    BY <1>2 DEF Complete, CommandReads, CommandRead, Sweeping, Retired, Generation
  <2>2. operation'[o].from = command[c].from
    BY <2>1, OperationsStay
  <2>3. /\ UNCHANGED <<sealed, index>>
        /\ Unreferenced(command[c].from) /\ Verified(command[c].from)
    BY <1>2 DEF Complete
  <2> QED
    BY <2>2, <2>3 DEF Unreferenced, RecordsUnder, ChunksUnder, Verified, Object
<1>3. operation[o].phase = "complete" \/ \E c \in Command : Complete(c) /\ command[c].op = o
  BY OperationsMove DEF OperationMoves
<1> QED
  BY <1>1, <1>2, <1>3

-----------------------------------------------------------------------------
(* The theorems.                                                            *)

LEMMA InitInv ==
  ASSUME Init
  PROVE  RotationInv
<1> USE BoundAssumption
<1>1. TablesConsistent
  <2>1. 1 \in Generation /\ generation[1] = "current"
    BY DEF Init, Generation
  <2>2. \A h \in Generation : h # 1 => h > 1 /\ generation[h] = "none"
    BY DEF Init, Generation
  <2>3. \A o \in OperationId : operation[o].phase = "none"
    BY DEF Init, None
  <2> QED
    BY <2>1, <2>2, <2>3 DEF TablesConsistent, Active, Generation
<1>2. None \in OperationRecord /\ Stopped \in CommandRecord
  BY DEF None, OperationRecord, Stopped, Reading, CommandRecord
<1>3. RotationTypeOK
  BY <1>1, <1>2 DEF Init, RotationTypeOK, Generation
<1>4. Readable /\ IndexFaithful
  BY DEF Init, Readable, IndexFaithful
<1>5. OperationRetired /\ SweptWhenComplete /\ NothingBehindCursor
  <2>1. \A o \in OperationId : operation[o].phase = "none" /\ operation[o].cursor = 0
    BY DEF Init, None
  <2>2. \A r \in Record : ~(r <= 0)
    BY ObjectAssumption
  <2> QED
    BY <2>1, <2>2 DEF OperationRetired, SweptWhenComplete, NothingBehindCursor
<1>6. CommandReads /\ CommandSwept
  <2>1. \A c \in Command : command[c].step = "stopped"
    BY DEF Init, Stopped, Reading
  <2> QED
    BY <2>1 DEF CommandReads, CommandRead, CommandSwept, Swept, Sweeping
<1> QED
  BY <1>3, <1>4, <1>5, <1>6 DEF RotationInv

LEMMA StepInv ==
  ASSUME RotationInv, [Next]_vars
  PROVE  RotationInv'
<1> USE DEF RotationInv
<1>1. CASE Next
  BY <1>1, TypeStays, ReadableStays, IndexStays, RetiredStays, ReadsStay, NothingBehindStays,
     SweptStays, CompletionStays
<1>2. CASE UNCHANGED vars
  BY <1>2 DEF vars, RotationTypeOK, TablesConsistent, Readable, IndexFaithful, OperationRetired,
              CommandReads, CommandRead, NothingBehindCursor, CommandSwept, Swept,
              SweptWhenComplete, Retired, Existing
<1> QED
  BY <1>1, <1>2

\* The invariant holds in every state, whatever runs beside the sweep and
\* wherever it stops.
THEOREM RotationInvariant == Spec => []RotationInv
<1> QED
  BY InitInv, StepInv, PTL DEF Spec

\* Every variable holds values of its table, and the tables keep their
\* constraints (schema/security/index.ts).
THEOREM RotationTypes == Spec => []RotationTypeOK
<1>1. RotationInv => RotationTypeOK
  BY DEF RotationInv
<1> QED
  BY <1>1, RotationInvariant, PTL

\* Whatever is stored can be read: no revocation, however late and however it
\* races with writes and other commands, takes the key of anything stored
\* (rotation-data-key.ts, revokeCommand).
THEOREM StoredStaysReadable == Spec => []Readable
<1>1. RotationInv => Readable
  BY DEF RotationInv
<1> QED
  BY <1>1, RotationInvariant, PTL

\* A sweep that goes on from a stored position misses nothing: no record of the
\* old generation is behind it (rotation-data-key.ts, readResumableCheckpoint).
THEOREM SweepMissesNothing == Spec => []NothingBehindCursor
<1>1. RotationInv => NothingBehindCursor
  BY DEF RotationInv
<1> QED
  BY <1>1, RotationInvariant, PTL

\* Under the old generation of a completed rotation nothing is stored, then or
\* ever after.
THEOREM CompletedIsSwept == Spec => []SweptWhenComplete
<1>1. RotationInv => SweptWhenComplete
  BY DEF RotationInv
<1> QED
  BY <1>1, RotationInvariant, PTL
=============================================================================
