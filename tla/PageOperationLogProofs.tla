------------------------ MODULE PageOperationLogProofs ------------------------
(***************************************************************************)
(* Proofs about PageOperationLog, for every value of its constants.        *)
(***************************************************************************)
EXTENDS PageOperationLog, FiniteSetTheorems, WellFoundedInduction, TLAPS

-----------------------------------------------------------------------------
(* Types of the values a step writes.                                      *)

\* A new row of the log, as AppendBatch makes it from a submitted update.
BatchRow(r, i) ==
    [id |-> r.updates[i].id, device |-> r.device,
     base |-> r.updates[i].base, compacted |-> FALSE]

LEMMA BatchRowFields ==
    ASSUME NEW r, NEW i
    PROVE  /\ BatchRow(r, i).id = r.updates[i].id
           /\ BatchRow(r, i).base = r.updates[i].base
           /\ BatchRow(r, i).compacted = FALSE
BY DEF BatchRow

\* An import order is a sequence of distinct places of the batch.
LEMMA OrderType ==
    ASSUME NEW r \in Request, NEW order \in ImportOrders(r)
    PROVE  /\ order \in Seq(1 .. Len(r.updates))
           /\ \A k \in 1 .. Len(order) : order[k] \in NewIndexes(r)
           /\ IsImportOrder(r, order)
<1>1. PICK k \in 0 .. Len(r.updates) : order \in [1 .. k -> NewIndexes(r)]
  BY DEF ImportOrders
<1>2. r.updates \in Seq(Candidate)
  BY DEF Request
<1>3. NewIndexes(r) \subseteq 1 .. Len(r.updates)
  BY <1>2 DEF NewIndexes
<1>4. order \in [1 .. k -> 1 .. Len(r.updates)]
  BY <1>1, <1>3
<1>5. k \in Nat
  BY <1>1, <1>2
<1>6. order \in Seq(1 .. Len(r.updates)) /\ Len(order) = k
  BY <1>4, <1>5
<1> QED
  BY <1>1, <1>6 DEF ImportOrders

\* Appending a batch keeps the log and adds one row per imported update.
LEMMA AppendBatchType ==
    ASSUME rows \in Seq(Row), NEW r \in Request, NEW order \in ImportOrders(r)
    PROVE  /\ AppendBatch(r, order) \in Seq(Row)
           /\ Len(AppendBatch(r, order)) = Len(rows) + Len(order)
           /\ Len(rows) \in Nat /\ Len(order) \in Nat
           /\ \A n \in 1 .. Len(rows) : AppendBatch(r, order)[n] = rows[n]
           /\ \A k \in 1 .. Len(order) :
                 AppendBatch(r, order)[Len(rows) + k] = BatchRow(r, order[k])
<1> DEFINE new == [k \in DOMAIN order |-> BatchRow(r, order[k])]
<1>1. order \in Seq(1 .. Len(r.updates))
  BY OrderType
<1>2. r.updates \in Seq(Candidate) /\ r.device \in Device
  BY DEF Request
<1>3. \A i \in 1 .. Len(r.updates) : BatchRow(r, i) \in Row
  <2> TAKE i \in 1 .. Len(r.updates)
  <2>1. r.updates[i] \in Candidate
    BY <1>2
  <2>2. r.updates[i].id \in Update /\ r.updates[i].base \in Frontier
    BY <2>1 DEF Candidate
  <2> QED
    BY <1>2, <2>2 DEF BatchRow, Row
<1>4. new \in Seq(Row) /\ Len(new) = Len(order) /\ \A k \in 1 .. Len(order) : new[k] = BatchRow(r, order[k])
  <2>1. Len(order) \in Nat /\ DOMAIN order = 1 .. Len(order)
    BY <1>1
  <2>2. \A k \in 1 .. Len(order) : order[k] \in 1 .. Len(r.updates)
    BY <1>1
  <2>3. new \in [1 .. Len(order) -> Row]
    BY <1>3, <2>1, <2>2
  <2>4. new \in Seq(Row) /\ Len(new) = Len(order)
    BY <2>1, <2>3
  <2> QED
    BY <2>1, <2>4
<1>5. AppendBatch(r, order) = rows \o new
  BY DEF AppendBatch, BatchRow
<1> HIDE DEF new
<1>6. rows \o new \in Seq(Row) /\ Len(rows \o new) = Len(rows) + Len(new)
  BY <1>4
<1>7. \A n \in 1 .. Len(rows) : (rows \o new)[n] = rows[n]
  BY <1>4
<1>8. \A k \in 1 .. Len(new) : (rows \o new)[Len(rows) + k] = new[k]
  BY <1>4
<1> QED
  BY <1>1, <1>4, <1>5, <1>6, <1>7, <1>8

\* What a plan decided, in the form the steps of the proofs use it.
LEMMA PlanFacts ==
    ASSUME rows \in Seq(Row), NEW r \in Request, NEW p \in Plans(r)
    PROVE  /\ Loadable /\ IdentitiesHold(r)
           /\ p.order \in ImportOrders(r)
           /\ p.confirmed \in Nat
           /\ p.confirmed <= Len(AppendBatch(r, p.order))
           /\ Prefix(AppendBatch(r, p.order), p.confirmed) \subseteq r.persisted
           /\ r.persisted \subseteq
                 Prefix(AppendBatch(r, p.order), Len(AppendBatch(r, p.order)))
<1>1. Loadable /\ IdentitiesHold(r)
  BY DEF Plans
<1>2. PICK order \in ImportOrders(r) : p \in PlansFor(r, order)
  BY <1>1 DEF Plans
<1> DEFINE log == AppendBatch(r, order)
<1>3. /\ p.order = order
      /\ p.confirmed \in 0 .. Len(log)
      /\ IsConfirmedPrefix(log, r.persisted, p.confirmed)
      /\ r.persisted \subseteq Prefix(log, Len(log))
  BY <1>2 DEF PlansFor
<1>4. Len(log) \in Nat
  BY AppendBatchType
<1> HIDE DEF log
<1>5. p.confirmed \in Nat /\ p.confirmed <= Len(log)
  BY <1>3, <1>4
<1> QED
  BY <1>1, <1>3, <1>5 DEF IsConfirmedPrefix, log

\* The checkpoints of a log that has reached head.
CheckpointsOK(cps, head) ==
    /\ DOMAIN cps \subseteq 0 .. head
    /\ \A c \in DOMAIN cps : cps[c] \in Checkpoint

LEMMA ConsolidatedType ==
    ASSUME NEW head \in Nat, NEW top, NEW cps, CheckpointsOK(cps, head)
    PROVE  /\ CheckpointsOK(Consolidated(cps, top), head)
           /\ DOMAIN Consolidated(cps, top) = DOMAIN cps
<1>1. \A c \in DOMAIN cps :
         [cps[c] EXCEPT !.revision = IF c = top THEN "current" ELSE "stale"] \in Checkpoint
  BY DEF CheckpointsOK, Checkpoint
<1> QED
  BY <1>1 DEF Consolidated, CheckpointsOK

LEMMA PromotedType ==
    ASSUME NEW head \in Nat, NEW old, NEW new, NEW cps, CheckpointsOK(cps, head)
    PROVE  /\ CheckpointsOK(Promoted(cps, old, new), head)
           /\ DOMAIN Promoted(cps, old, new) = DOMAIN cps
<1>1. \A c \in DOMAIN cps : [cps[c] EXCEPT !.state = "superseded"] \in Checkpoint
  BY DEF CheckpointsOK, Checkpoint
<1> QED
  BY <1>1 DEF Promoted, CheckpointsOK

\* A rolled checkpoint is stored at the head, next to those there were.
LEMMA RolledType ==
    ASSUME TypeOK, NEW window, NEW cps, CheckpointsOK(cps, Len(rows)),
           DOMAIN cps = DOMAIN checkpoints
    PROVE  /\ CheckpointsOK(Rolled(cps, window), Len(rows))
           /\ DOMAIN Rolled(cps, window) = DOMAIN checkpoints \cup {Len(rows)}
<1> DEFINE fresh == [state |-> "verified", floor |-> cps[current].floor,
                     revision |-> IF window THEN "stale" ELSE "current",
                     covered |-> FALSE]
           grown == [c \in DOMAIN cps \cup {Len(rows)} |->
                        IF c \in DOMAIN cps THEN cps[c] ELSE fresh]
<1>1. Len(rows) \in Nat /\ current \in DOMAIN cps
  BY DEF TypeOK
<1>2. fresh \in Checkpoint
  BY <1>1 DEF CheckpointsOK, Checkpoint
<1>3. CheckpointsOK(grown, Len(rows)) /\ DOMAIN grown = DOMAIN cps \cup {Len(rows)}
  BY <1>1, <1>2 DEF CheckpointsOK
<1>4. Rolled(cps, window) = Promoted(grown, current, Len(rows))
  BY DEF Rolled
<1> HIDE DEF grown
<1> QED
  BY <1>1, <1>3, <1>4, PromotedType

\* A prefix of the log holds identities of updates.
LEMMA PrefixType ==
    ASSUME NEW log \in Seq(Row), NEW n \in Nat, n <= Len(log)
    PROVE  Prefix(log, n) \subseteq Update
<1>1. \A m \in 1 .. n : log[m] \in Row
  OBVIOUS
<1> QED
  BY <1>1 DEF Prefix, Row

LEMMA DetectionsType ==
    ASSUME rows \in Seq(Row), NEW r \in Request, NEW p \in Plans(r),
           NEW found \in Detections(r, p)
    PROVE  found \subseteq Ambiguity
<1> DEFINE log == AppendBatch(r, p.order)
           pairs == {{log[n].id, log[m].id} : n, m \in Tips(log)}
<1>1. log \in Seq(Row)
  BY PlanFacts, AppendBatchType
<1>2. \A n \in Tips(log) : log[n].id \in Update
  <2>1. Tips(log) \subseteq 1 .. Len(log)
    BY DEF Tips, Retained
  <2> HIDE DEF log
  <2>2. \A n \in 1 .. Len(log) : log[n] \in Row
    BY <1>1
  <2> QED
    BY <2>1, <2>2 DEF Row
<1>3. \A q \in pairs : [sources |-> q, open |-> TRUE] \in Ambiguity
  BY <1>2 DEF Ambiguity, Frontier
<1>4. found \in {{}} \cup {{[sources |-> pair, open |-> TRUE]} :
                              pair \in {q \in pairs : Cardinality(q) = 2}}
  BY DEF Detections
<1> HIDE DEF pairs
<1> QED
  BY <1>3, <1>4

LEMMA ConfirmedType ==
    ASSUME TypeOK, NEW r \in Request, NEW confirmed \in Nat
    PROVE  /\ DOMAIN Confirmed(r, confirmed) \subseteq Device
           /\ \A d \in DOMAIN Confirmed(r, confirmed) :
                 Confirmed(r, confirmed)[d] \in DeviceFrontier
<1> DEFINE known == r.device \in DOMAIN frontiers
           reached == IF known /\ frontiers[r.device].confirmed > confirmed
                      THEN frontiers[r.device].confirmed ELSE confirmed
           fresh == [persisted |-> r.persisted, confirmed |-> reached,
                     state |-> "authorized"]
           moved == [d \in DOMAIN frontiers \cup {r.device} |->
                       IF d = r.device THEN fresh ELSE frontiers[d]]
<1>1. r.device \in Device /\ r.persisted \in Frontier
  BY DEF Request
<1>2. /\ DOMAIN frontiers \subseteq Device
      /\ \A d \in DOMAIN frontiers : frontiers[d] \in DeviceFrontier
  BY DEF TypeOK
<1>3. reached \in Nat
  BY <1>2 DEF DeviceFrontier
<1> HIDE DEF reached
<1>4. fresh \in DeviceFrontier
  BY <1>1, <1>3 DEF DeviceFrontier
<1> HIDE DEF fresh
<1>5. /\ DOMAIN moved \subseteq Device
      /\ \A d \in DOMAIN moved : moved[d] \in DeviceFrontier
  BY <1>1, <1>2, <1>4
<1>6. Confirmed(r, confirmed) = moved \/ Confirmed(r, confirmed) = frontiers
  BY DEF Confirmed, fresh, reached
<1> HIDE DEF moved
<1> QED
  BY <1>2, <1>5, <1>6

-----------------------------------------------------------------------------
(* Type correctness.                                                       *)

LEMMA TypeInit == Init => TypeOK
<1> SUFFICES ASSUME Init PROVE TypeOK
  OBVIOUS
<1>1. rows \in Seq(Row) /\ Len(rows) = 0
  BY DEF Init
<1>2. /\ DOMAIN checkpoints \subseteq 0 .. Len(rows)
      /\ \A c \in DOMAIN checkpoints : checkpoints[c] \in Checkpoint
      /\ current \in DOMAIN checkpoints
  BY <1>1 DEF Init, Checkpoint
<1> QED
  BY <1>1, <1>2 DEF Init, TypeOK, Authorization

\* A synchronization, as one choice of everything it decides.
LEMMA SyncPlanned ==
    ASSUME NEW r \in Request, Sync(r)
    PROVE  /\ authorization' = authorization
           /\ \E p \in Plans(r) : \E found \in Detections(r, p) :
                 \E before, after \in BOOLEAN : SyncWrites(r, p, found, before, after)
BY DEF Sync, SyncBy

LEMMA SyncType ==
    ASSUME TypeOK, NEW r \in Request, Sync(r)
    PROVE  TypeOK'
<1>1. r \in Request
  OBVIOUS
<1>2. PICK p \in Plans(r) : \E found \in Detections(r, p) :
              \E before, after \in BOOLEAN : SyncWrites(r, p, found, before, after)
  BY SyncPlanned
<1>3. PICK found \in Detections(r, p), before \in BOOLEAN, after \in BOOLEAN :
              SyncWrites(r, p, found, before, after)
  BY <1>2
<1> DEFINE log == AppendBatch(r, p.order)
           waiting == windowOpen /\ ~before
           settled == IF before THEN Consolidated(checkpoints, Len(rows)) ELSE checkpoints
           rolled == IF RollDue(r) THEN Rolled(settled, waiting) ELSE settled
<1>4. /\ log \in Seq(Row) /\ Len(log) \in Nat /\ Len(rows) \in Nat
      /\ Len(rows) <= Len(log)
  BY <1>1, PlanFacts, AppendBatchType DEF TypeOK
<1>5. CheckpointsOK(settled, Len(rows)) /\ DOMAIN settled = DOMAIN checkpoints
  <2>1. CheckpointsOK(checkpoints, Len(rows))
    BY DEF TypeOK, CheckpointsOK
  <2> QED
    BY <1>4, <2>1, ConsolidatedType
<1> HIDE DEF log, settled
<1>6. /\ CheckpointsOK(rolled, Len(rows))
      /\ DOMAIN rolled = IF RollDue(r) THEN DOMAIN checkpoints \cup {Len(rows)}
                         ELSE DOMAIN checkpoints
  BY <1>5, RolledType
<1> HIDE DEF rolled
<1>7. CheckpointsOK(rolled, Len(log))
  BY <1>4, <1>6 DEF CheckpointsOK
<1>8. /\ rows' = log
      /\ current' = IF RollDue(r) THEN Len(rows) ELSE current
      /\ checkpoints' = IF after THEN Consolidated(rolled, Len(log)) ELSE rolled
      /\ frontiers' = Confirmed(r, p.confirmed)
      /\ ambiguities' = WithDetected(found)
      /\ authorization' = authorization
      /\ windowOpen' \in BOOLEAN
  BY <1>3, SyncPlanned DEF SyncWrites, log, settled, rolled
<1>9. CheckpointsOK(checkpoints', Len(log)) /\ DOMAIN checkpoints' = DOMAIN rolled
  BY <1>4, <1>7, <1>8, ConsolidatedType
<1>10. current' \in DOMAIN checkpoints'
  BY <1>6, <1>8, <1>9 DEF TypeOK
<1>11. /\ DOMAIN frontiers' \subseteq Device
       /\ \A d \in DOMAIN frontiers' : frontiers'[d] \in DeviceFrontier
  BY <1>1, <1>8, PlanFacts, ConfirmedType DEF TypeOK
<1>12. ambiguities' \subseteq Ambiguity
  BY <1>1, <1>8, DetectionsType DEF TypeOK, WithDetected
<1> QED
  BY <1>4, <1>8, <1>9, <1>10, <1>11, <1>12 DEF TypeOK, CheckpointsOK

LEMMA ServerCommandType ==
    ASSUME TypeOK, NEW u \in ServerUpdate, NEW d \in Device, ApplyServerCommands(u, d),
           ambiguities' \subseteq Ambiguity
    PROVE  TypeOK'
<1> DEFINE row == [id |-> u, device |-> d, base |-> Document, compacted |-> FALSE]
<1>1. rows \in Seq(Row) /\ Len(rows) \in Nat
  BY DEF TypeOK
<1>2. row \in Row
  <2>1. Prefix(rows, Len(rows)) \subseteq Update
    BY <1>1, PrefixType
  <2> QED
    BY <2>1, RequestsAssumption DEF Row, Frontier, Document
<1>3. rows' \in Seq(Row) /\ Len(rows') = Len(rows) + 1
  <2> HIDE DEF row
  <2>1. rows' = Append(rows, row)
    BY DEF ApplyServerCommands, row
  <2> QED
    BY <1>1, <1>2, <2>1
<1>4. /\ DOMAIN checkpoints' = DOMAIN checkpoints
      /\ \A c \in DOMAIN checkpoints' : checkpoints'[c] \in Checkpoint
  <2>1. \A c \in DOMAIN checkpoints : checkpoints[c] \in Checkpoint
    BY DEF TypeOK
  <2>2. \A c \in DOMAIN checkpoints : [checkpoints[c] EXCEPT !.revision = "stale"] \in Checkpoint
    BY <2>1 DEF Checkpoint
  <2> QED
    BY <2>2 DEF ApplyServerCommands
<1>5. /\ windowOpen' = FALSE /\ current' = current /\ frontiers' = frontiers
      /\ authorization' = authorization
  BY DEF ApplyServerCommands
<1> HIDE DEF row
<1>6. DOMAIN checkpoints' \subseteq 0 .. Len(rows')
  BY <1>1, <1>3, <1>4 DEF TypeOK
<1>7. /\ current' \in DOMAIN checkpoints' /\ windowOpen' \in BOOLEAN
      /\ DOMAIN frontiers' \subseteq Device
      /\ \A e \in DOMAIN frontiers' : frontiers'[e] \in DeviceFrontier
      /\ authorization' \in [Device -> Authorization]
  BY <1>4, <1>5 DEF TypeOK
<1> QED
  BY <1>3, <1>4, <1>6, <1>7 DEF TypeOK

\* The actions on checkpoints keep the log as long as it was.
LEMMA CheckpointStepType ==
    ASSUME TypeOK,
           ConsolidateDue \/ CreateCandidate \/ VerifiedBackup
               \/ \E c \in DOMAIN checkpoints : VerifyCandidate(c)
    PROVE  TypeOK'
<1>1. /\ rows' = rows /\ current' = current /\ frontiers' = frontiers
      /\ authorization' = authorization /\ ambiguities' = ambiguities
      /\ windowOpen' \in BOOLEAN
  BY DEF TypeOK, ConsolidateDue, CreateCandidate, VerifiedBackup, VerifyCandidate
<1>2. CheckpointsOK(checkpoints, Len(rows)) /\ Len(rows) \in Nat
  BY DEF TypeOK, CheckpointsOK
<1>3. CheckpointsOK(checkpoints', Len(rows)) /\ DOMAIN checkpoints \subseteq DOMAIN checkpoints'
  <2>1. CASE ConsolidateDue
    BY <1>2, <2>1, ConsolidatedType DEF ConsolidateDue
  <2>2. CASE CreateCandidate
    <3> DEFINE fresh == [state |-> "candidate", floor |-> Len(rows),
                         revision |-> "current", covered |-> FALSE]
    <3>1. fresh \in Checkpoint
      BY <1>2 DEF Checkpoint
    <3>2. checkpoints' = [c \in DOMAIN checkpoints \cup {Len(rows)} |->
                            IF c \in DOMAIN checkpoints THEN checkpoints[c] ELSE fresh]
      BY <2>2 DEF CreateCandidate
    <3> HIDE DEF fresh
    <3> QED
      BY <1>2, <3>1, <3>2 DEF CheckpointsOK
  <2>3. CASE VerifiedBackup
    <3>1. \A c \in DOMAIN checkpoints : [checkpoints[c] EXCEPT !.covered = TRUE] \in Checkpoint
      BY <1>2 DEF CheckpointsOK, Checkpoint
    <3> QED
      BY <1>2, <2>3, <3>1 DEF CheckpointsOK, VerifiedBackup
  <2>4. ASSUME NEW c \in DOMAIN checkpoints, VerifyCandidate(c)
        PROVE  CheckpointsOK(checkpoints', Len(rows)) /\ DOMAIN checkpoints' = DOMAIN checkpoints
    <3>1. [checkpoints[c] EXCEPT !.state = "verified"] \in Checkpoint
      BY <1>2 DEF CheckpointsOK, Checkpoint
    <3>2. checkpoints' = [checkpoints EXCEPT ![c] = [checkpoints[c] EXCEPT !.state = "verified"]]
      BY <2>4 DEF VerifyCandidate
    <3> QED
      BY <1>2, <3>1, <3>2 DEF CheckpointsOK
  <2> QED
    BY <2>1, <2>2, <2>3, <2>4
<1> QED
  BY <1>1, <1>3 DEF TypeOK, CheckpointsOK

\* Compaction marks rows and frontiers and promotes a checkpoint it has.
LEMMA CompactionType ==
    ASSUME TypeOK, NEW c \in DOMAIN checkpoints, Compact(c) \/ CompactionBlocked(c)
    PROVE  TypeOK'
<1>1. /\ windowOpen' = windowOpen /\ authorization' = authorization
      /\ ambiguities' = ambiguities /\ MarkRevoked
  BY DEF Compact, CompactionBlocked
<1>2. /\ DOMAIN frontiers' = DOMAIN frontiers
      /\ \A d \in DOMAIN frontiers' : frontiers'[d] \in DeviceFrontier
  <2>1. \A d \in DOMAIN frontiers : [frontiers[d] EXCEPT !.state = "revoked"] \in DeviceFrontier
    BY DEF TypeOK, DeviceFrontier
  <2> QED
    BY <1>1, <2>1 DEF MarkRevoked, TypeOK
<1>3. CheckpointsOK(checkpoints, Len(rows)) /\ Len(rows) \in Nat /\ rows \in Seq(Row)
  BY DEF TypeOK, CheckpointsOK
<1>4. CASE CompactionBlocked(c)
  BY <1>1, <1>2, <1>4 DEF CompactionBlocked, TypeOK
<1>5. CASE Compact(c)
  <2>1. rows' \in Seq(Row) /\ Len(rows') = Len(rows)
    <3>1. \A n \in DOMAIN rows : rows[n] \in Row
      BY <1>3
    <3>2. \A n \in DOMAIN rows : [rows[n] EXCEPT !.compacted = TRUE] \in Row
      BY <3>1 DEF Row
    <3>3. rows' = [n \in DOMAIN rows |->
                     IF n <= c THEN [rows[n] EXCEPT !.compacted = TRUE] ELSE rows[n]]
      BY <1>5 DEF Compact
    <3>4. rows' \in [1 .. Len(rows) -> Row]
      BY <1>3, <3>1, <3>2, <3>3
    <3> QED
      BY <1>3, <3>4
  <2>2. CheckpointsOK(checkpoints', Len(rows)) /\ DOMAIN checkpoints' = DOMAIN checkpoints
    BY <1>3, <1>5, PromotedType DEF Compact
  <2>3. current' = c
    BY <1>5 DEF Compact
  <2> QED
    BY <1>1, <1>2, <2>1, <2>2, <2>3 DEF TypeOK, CheckpointsOK
<1> QED
  BY <1>4, <1>5

LEMMA AuthorizationType ==
    ASSUME TypeOK, NEW d \in Device,
           RequireDeviceReauthorization(d) \/ Reauthorize(d) \/ RevokeDevice(d)
    PROVE  TypeOK'
<1>1. PICK to \in Authorization : authorization' = [authorization EXCEPT ![d] = to]
  BY DEF RequireDeviceReauthorization, Reauthorize, RevokeDevice, Authorize, Authorization
<1>2. UNCHANGED <<rows, checkpoints, current, windowOpen, frontiers, ambiguities>>
  BY DEF RequireDeviceReauthorization, Reauthorize, RevokeDevice, Authorize
<1> QED
  BY <1>1, <1>2 DEF TypeOK

\* A step of the log: its own, or a synchronization from any request.  The
\* modules that compose the log with its devices take the second.
LogStep == [Next]_vars \/ \E r \in Request : Sync(r)

LEMMA TypeStep == TypeOK /\ LogStep => TypeOK'
<1> SUFFICES ASSUME TypeOK, LogStep PROVE TypeOK'
  OBVIOUS
<1>1. ASSUME NEW r \in Request, Sync(r)
      PROVE  TypeOK'
  BY <1>1, SyncType
<1>2. ASSUME NEW u \in ServerUpdate, NEW d \in Device, RestoreRevision(u, d)
      PROVE  TypeOK'
  BY <1>2, ServerCommandType DEF RestoreRevision, TypeOK
<1>3. ASSUME NEW u \in ServerUpdate, NEW d \in Device, NEW a \in ambiguities,
             ResolveAmbiguity(u, d, a)
      PROVE  TypeOK'
  <2>1. [a EXCEPT !.open = FALSE] \in Ambiguity
    BY DEF TypeOK, Ambiguity
  <2> QED
    BY <1>3, <2>1, ServerCommandType DEF ResolveAmbiguity, TypeOK
<1>4. CASE ConsolidateDue \/ CreateCandidate \/ VerifiedBackup
  BY <1>4, CheckpointStepType
<1>5. ASSUME NEW c \in DOMAIN checkpoints,
             VerifyCandidate(c) \/ Compact(c) \/ CompactionBlocked(c)
      PROVE  TypeOK'
  BY <1>5, CheckpointStepType, CompactionType
<1>6. ASSUME NEW d \in Managed,
             RequireDeviceReauthorization(d) \/ Reauthorize(d) \/ RevokeDevice(d)
      PROVE  TypeOK'
  BY <1>6, AuthorizationType, RequestsAssumption
<1>7. CASE UNCHANGED vars
  BY <1>7 DEF vars, TypeOK
<1> QED
  BY <1>1, <1>2, <1>3, <1>4, <1>5, <1>6, <1>7, RequestsAssumption
  DEF LogStep, Next

\* Every reachable state of the page is well formed: the rolled, promoted and
\* compacted checkpoints always include the current one, within the log.
THEOREM TypeCorrect == Spec => []TypeOK
<1>1. Init => TypeOK
  BY TypeInit
<1>2. TypeOK /\ [Next]_vars => TypeOK'
  BY TypeStep DEF LogStep
<1> QED
  BY <1>1, <1>2, PTL DEF Spec

-----------------------------------------------------------------------------
(* The causal order of the log.                                            *)

\* A step that keeps the identities of the rows up to n keeps their prefix.
LEMMA PrefixKept ==
    ASSUME NEW log, NEW log2, NEW n \in Nat, \A m \in 1 .. n : log2[m].id = log[m].id
    PROVE  \A k \in 0 .. n : Prefix(log2, k) = Prefix(log, k)
BY DEF Prefix

LEMMA PrefixGrows ==
    ASSUME NEW log, NEW n \in Nat
    PROVE  /\ Prefix(log, n + 1) = Prefix(log, n) \cup {log[n + 1].id}
           /\ \A k \in 0 .. n : Prefix(log, k) \subseteq Prefix(log, n)
BY DEF Prefix

\* The prefixes of the log after a batch.
LEMMA PrefixAppended ==
    ASSUME rows \in Seq(Row), NEW r \in Request, NEW order \in ImportOrders(r)
    PROVE  /\ \A n \in 0 .. Len(rows) : Prefix(AppendBatch(r, order), n) = Prefix(rows, n)
           /\ \A k \in 0 .. Len(order) :
                 Prefix(AppendBatch(r, order), Len(rows) + k)
                     = Document \cup {r.updates[order[m]].id : m \in 1 .. k}
<1> DEFINE log == AppendBatch(r, order)
<1>1. /\ Len(rows) \in Nat /\ Len(order) \in Nat
      /\ \A n \in 1 .. Len(rows) : log[n] = rows[n]
      /\ \A k \in 1 .. Len(order) : log[Len(rows) + k] = BatchRow(r, order[k])
  BY AppendBatchType
<1> HIDE DEF log
<1>2. \A n \in 0 .. Len(rows) : Prefix(log, n) = Prefix(rows, n)
  BY <1>1, PrefixKept
<1>3. ASSUME NEW k \in 0 .. Len(order)
      PROVE  Prefix(log, Len(rows) + k)
                 = Document \cup {r.updates[order[m]].id : m \in 1 .. k}
  <2>1. \A m \in 1 .. k : log[Len(rows) + m].id = r.updates[order[m]].id
    <3> TAKE m \in 1 .. k
    <3>1. m \in 1 .. Len(order)
      BY <1>1, <1>3
    <3>2. log[Len(rows) + m] = BatchRow(r, order[m])
      BY <1>1, <3>1
    <3>3. BatchRow(r, order[m]).id = r.updates[order[m]].id
      BY BatchRowFields
    <3> QED
      BY <3>2, <3>3, Zenon
  <2>2. \A m \in 1 .. Len(rows) + k : m \in 1 .. Len(rows) \/ m - Len(rows) \in 1 .. k
    BY <1>1, <1>3
  <2>3. \A m \in 1 .. Len(rows) : log[m].id = rows[m].id
    BY <1>1
  <2>4. ASSUME NEW x \in Prefix(log, Len(rows) + k)
        PROVE  x \in Document \cup {r.updates[order[m]].id : m \in 1 .. k}
    <3>1. PICK m \in 1 .. Len(rows) + k : x = log[m].id
      BY DEF Prefix
    <3>2. CASE m \in 1 .. Len(rows)
      BY <2>3, <3>1, <3>2 DEF Document, Prefix
    <3>3. CASE m - Len(rows) \in 1 .. k
      <4>1. log[Len(rows) + (m - Len(rows))].id = r.updates[order[m - Len(rows)]].id
        BY <2>1, <3>3
      <4>2. Len(rows) + (m - Len(rows)) = m
        BY <1>1, <3>1
      <4> QED
        BY <3>1, <3>3, <4>1, <4>2
    <3> QED
      BY <2>2, <3>2, <3>3
  <2>5. Document \subseteq Prefix(log, Len(rows) + k)
    <3>1. \A m \in 1 .. Len(rows) : m \in 1 .. Len(rows) + k
      BY <1>1, <1>3
    <3> QED
      BY <2>3, <3>1 DEF Document, Prefix
  <2>6. ASSUME NEW m \in 1 .. k
        PROVE  r.updates[order[m]].id \in Prefix(log, Len(rows) + k)
    <3>1. Len(rows) + m \in 1 .. Len(rows) + k
      BY <1>1, <1>3
    <3> QED
      BY <2>1, <3>1 DEF Prefix
  <2> QED
    BY <2>4, <2>5, <2>6
<1> QED
  BY <1>2, <1>3 DEF log

\* Every update of an import order is new and follows what it is based on.
LEMMA ImportedCausally ==
    ASSUME rows \in Seq(Row), NEW r \in Request, IdentitiesHold(r),
           NEW order \in ImportOrders(r), NEW k \in 1 .. Len(order)
    PROVE  LET imported == Document \cup {r.updates[order[m]].id : m \in 1 .. k - 1}
           IN  /\ r.updates[order[k]].base \subseteq imported
               /\ r.updates[order[k]].id \notin imported
               /\ Importable(r.updates[order[k]].base)
<1> DEFINE imported == Document \cup {r.updates[order[m]].id : m \in 1 .. k - 1}
<1>1. /\ order \in Seq(1 .. Len(r.updates))
      /\ IsImportOrder(r, order)
      /\ \A i \in 1 .. Len(order) : order[i] \in NewIndexes(r)
  BY OrderType
<1>2. DOMAIN order = 1 .. Len(order) /\ Len(order) \in Nat
  BY <1>1
<1>3. /\ order[k] \in {i \in NewIndexes(r) \ {order[m] : m \in 1 .. k - 1} :
                          r.updates[i].base \subseteq imported}
      /\ Importable(r.updates[order[k]].base)
  BY <1>1, <1>2 DEF IsImportOrder
<1>4. r.updates[order[k]].id \notin Document /\ order[k] \in DOMAIN r.updates
  BY <1>3 DEF NewIndexes
<1>5. ASSUME NEW m \in 1 .. k - 1
      PROVE  r.updates[order[m]].id # r.updates[order[k]].id
  <2>1. order[m] # order[k]
    BY <1>3
  <2>2. m \in 1 .. Len(order)
    BY <1>2
  <2>3. order[m] \in DOMAIN r.updates
    BY <1>1, <2>2 DEF NewIndexes
  <2> QED
    BY <1>4, <2>1, <2>3 DEF IdentitiesHold
<1> QED
  BY <1>3, <1>4, <1>5

\* The rows a batch adds: payloads kept, importable, after what they follow.
LEMMA AppendedRows ==
    ASSUME rows \in Seq(Row), NEW r \in Request, IdentitiesHold(r),
           NEW order \in ImportOrders(r)
    PROVE  LET log == AppendBatch(r, order)
           IN  \A n \in Len(rows) + 1 .. Len(log) :
                  /\ log[n].base \subseteq Prefix(log, n - 1)
                  /\ log[n].id \notin Prefix(log, n - 1)
                  /\ log[n].compacted = FALSE
                  /\ Importable(log[n].base)
<1> DEFINE log == AppendBatch(r, order)
<1>1. /\ Len(rows) \in Nat /\ Len(order) \in Nat
      /\ Len(log) = Len(rows) + Len(order)
      /\ \A k \in 1 .. Len(order) : log[Len(rows) + k] = BatchRow(r, order[k])
  BY AppendBatchType
<1>2. \A k \in 0 .. Len(order) :
         Prefix(log, Len(rows) + k) = Document \cup {r.updates[order[m]].id : m \in 1 .. k}
  BY PrefixAppended
<1> HIDE DEF log
<1>3. ASSUME NEW n \in Len(rows) + 1 .. Len(log)
      PROVE  /\ log[n].base \subseteq Prefix(log, n - 1)
             /\ log[n].id \notin Prefix(log, n - 1)
             /\ log[n].compacted = FALSE
             /\ Importable(log[n].base)
  <2> DEFINE k == n - Len(rows)
             before == Document \cup {r.updates[order[m]].id : m \in 1 .. k - 1}
  <2>1. k \in 1 .. Len(order) /\ k - 1 \in 0 .. Len(order)
    BY <1>1, <1>3
  <2>2. Len(rows) + k = n /\ Len(rows) + (k - 1) = n - 1
    BY <1>1, <1>3
  <2>3. Prefix(log, n - 1) = before
    BY <1>2, <2>1, <2>2
  <2>4. /\ r.updates[order[k]].base \subseteq before
        /\ r.updates[order[k]].id \notin before
        /\ Importable(r.updates[order[k]].base)
    BY <2>1, ImportedCausally
  <2>5. log[n] = BatchRow(r, order[k])
    BY <1>1, <2>1, <2>2
  <2> HIDE DEF k, before
  <2>6. /\ log[n].id = r.updates[order[k]].id
        /\ log[n].base = r.updates[order[k]].base
        /\ log[n].compacted = FALSE
    <3>1. /\ BatchRow(r, order[k]).id = r.updates[order[k]].id
          /\ BatchRow(r, order[k]).base = r.updates[order[k]].base
          /\ BatchRow(r, order[k]).compacted = FALSE
      BY BatchRowFields
    <3> QED
      BY <2>5, <3>1, Zenon
  <2> QED
    BY <2>3, <2>4, <2>6, Zenon
<1> QED
  BY <1>3 DEF log

\* A row a step keeps, whatever happens to its payload.
SameRow(row, row2) == row2.id = row.id /\ row2.base = row.base

LEMMA CausalKept ==
    ASSUME CausalLog, rows \in Seq(Row), NEW log,
           \A n \in 1 .. Len(rows) : SameRow(rows[n], log[n])
    PROVE  \A n \in 1 .. Len(rows) :
              /\ log[n].base \subseteq Prefix(log, n - 1)
              /\ log[n].id \notin Prefix(log, n - 1)
<1>1. Len(rows) \in Nat /\ DOMAIN rows = 1 .. Len(rows)
  OBVIOUS
<1>2. \A k \in 0 .. Len(rows) : Prefix(log, k) = Prefix(rows, k)
  BY <1>1, PrefixKept DEF SameRow
<1> TAKE n \in 1 .. Len(rows)
<1>3. n - 1 \in 0 .. Len(rows)
  BY <1>1
<1>4. Prefix(log, n - 1) = Prefix(rows, n - 1)
  BY <1>2, <1>3
<1>5. /\ rows[n].base \subseteq Prefix(rows, n - 1)
      /\ rows[n].id \notin Prefix(rows, n - 1)
  BY <1>1 DEF CausalLog
<1> QED
  BY <1>4, <1>5 DEF SameRow

LEMMA CausalStep == TypeOK /\ CausalLog /\ LogStep => CausalLog'
<1> SUFFICES ASSUME TypeOK, CausalLog, LogStep PROVE CausalLog'
  OBVIOUS
<1>0. rows \in Seq(Row) /\ Len(rows) \in Nat /\ DOMAIN rows = 1 .. Len(rows)
  BY DEF TypeOK
<1>1. ASSUME NEW r \in Request, Sync(r)
      PROVE  CausalLog'
  <2>1. r \in Request
    OBVIOUS
  <2>2. PICK p \in Plans(r) : rows' = AppendBatch(r, p.order)
    BY <1>1, SyncPlanned DEF SyncWrites
  <2>3. p.order \in ImportOrders(r) /\ IdentitiesHold(r)
    BY <1>0, <2>1, PlanFacts
  <2>4. /\ rows' \in Seq(Row)
        /\ Len(rows') \in Nat /\ Len(rows) <= Len(rows')
        /\ \A n \in 1 .. Len(rows) : rows'[n] = rows[n]
    BY <1>0, <2>1, <2>2, <2>3, AppendBatchType
  <2>5. \A n \in Len(rows) + 1 .. Len(rows') :
           /\ rows'[n].base \subseteq Prefix(rows', n - 1)
           /\ rows'[n].id \notin Prefix(rows', n - 1)
    BY <1>0, <2>1, <2>2, <2>3, AppendedRows
  <2>6. \A n \in 1 .. Len(rows) :
           /\ rows'[n].base \subseteq Prefix(rows', n - 1)
           /\ rows'[n].id \notin Prefix(rows', n - 1)
    BY <1>0, <2>4, CausalKept DEF SameRow
  <2>7. \A n \in DOMAIN rows' : n \in 1 .. Len(rows) \/ n \in Len(rows) + 1 .. Len(rows')
    BY <1>0, <2>4
  <2> QED
    BY <2>5, <2>6, <2>7 DEF CausalLog
<1>2. ASSUME NEW u \in ServerUpdate, NEW d \in Device, ApplyServerCommands(u, d)
      PROVE  CausalLog'
  <2> DEFINE row == [id |-> u, device |-> d, base |-> Document, compacted |-> FALSE]
  <2>1. rows' = Append(rows, row) /\ u \notin Document
    BY <1>2 DEF ApplyServerCommands
  <2>2. row.base = Document /\ row.id = u
    OBVIOUS
  <2> HIDE DEF row
  <2>3. /\ Len(rows') = Len(rows) + 1
        /\ DOMAIN rows' = 1 .. Len(rows) + 1
        /\ rows'[Len(rows) + 1] = row
        /\ \A n \in 1 .. Len(rows) : rows'[n] = rows[n]
    BY <1>0, <2>1
  <2>4. Prefix(rows', Len(rows)) = Document
    <3>1. \A k \in 0 .. Len(rows) : Prefix(rows', k) = Prefix(rows, k)
      <4>1. \A m \in 1 .. Len(rows) : rows'[m].id = rows[m].id
        BY <2>3
      <4> QED
        BY <1>0, <4>1, PrefixKept
    <3>2. Len(rows) \in 0 .. Len(rows)
      BY <1>0
    <3> QED
      BY <3>1, <3>2 DEF Document
  <2>5. /\ rows'[Len(rows) + 1].base \subseteq Prefix(rows', Len(rows))
        /\ rows'[Len(rows) + 1].id \notin Prefix(rows', Len(rows))
    BY <2>1, <2>2, <2>3, <2>4
  <2>6. \A n \in 1 .. Len(rows) :
           /\ rows'[n].base \subseteq Prefix(rows', n - 1)
           /\ rows'[n].id \notin Prefix(rows', n - 1)
    BY <1>0, <2>3, CausalKept DEF SameRow
  <2>7. \A n \in DOMAIN rows' : n \in 1 .. Len(rows) \/ (n = Len(rows) + 1 /\ n - 1 = Len(rows))
    BY <1>0, <2>3
  <2> QED
    BY <2>5, <2>6, <2>7 DEF CausalLog
<1>3. ASSUME NEW c \in DOMAIN checkpoints, Compact(c)
      PROVE  CausalLog'
  <2>1. rows' = [n \in DOMAIN rows |->
                   IF n <= c THEN [rows[n] EXCEPT !.compacted = TRUE] ELSE rows[n]]
    BY <1>3 DEF Compact
  <2>2. \A n \in 1 .. Len(rows) : SameRow(rows[n], rows'[n])
    <3>1. \A n \in 1 .. Len(rows) : rows[n] \in Row
      BY <1>0
    <3> QED
      BY <1>0, <2>1, <3>1 DEF SameRow, Row
  <2>3. DOMAIN rows' = 1 .. Len(rows)
    BY <1>0, <2>1
  <2> QED
    BY <1>0, <2>2, <2>3, CausalKept DEF CausalLog
<1>4. CASE UNCHANGED rows
  BY <1>4 DEF CausalLog, Prefix
<1> QED
  BY <1>1, <1>2, <1>3, <1>4, RequestsAssumption
  DEF LogStep, Next, vars, RestoreRevision, ResolveAmbiguity, ConsolidateDue, CreateCandidate,
      VerifiedBackup, VerifyCandidate, CompactionBlocked, RequireDeviceReauthorization,
      Reauthorize, RevokeDevice, Authorize

-----------------------------------------------------------------------------
(* Compaction happens at the head of the log.                              *)

LEMMA ConsolidatedFields ==
    ASSUME NEW cps, NEW top, \A c \in DOMAIN cps : cps[c] \in Checkpoint
    PROVE  /\ DOMAIN Consolidated(cps, top) = DOMAIN cps
           /\ \A c \in DOMAIN cps :
                 /\ Consolidated(cps, top)[c].state = cps[c].state
                 /\ Consolidated(cps, top)[c].floor = cps[c].floor
                 /\ Consolidated(cps, top)[c].revision = "current" => c = top
<1> DEFINE stamped(c) ==
              [cps[c] EXCEPT !.revision = IF c = top THEN "current" ELSE "stale"]
<1>1. \A c \in DOMAIN cps :
         /\ stamped(c).state = cps[c].state
         /\ stamped(c).floor = cps[c].floor
         /\ stamped(c).revision = IF c = top THEN "current" ELSE "stale"
  BY DEF Checkpoint
<1>2. Consolidated(cps, top) = [c \in DOMAIN cps |-> stamped(c)]
  BY DEF Consolidated
<1> HIDE DEF stamped
<1>3. /\ DOMAIN Consolidated(cps, top) = DOMAIN cps
      /\ \A c \in DOMAIN cps : Consolidated(cps, top)[c] = stamped(c)
  BY <1>2
<1>4. \A c \in DOMAIN cps : stamped(c).revision = "current" => c = top
  BY <1>1
<1> QED
  BY <1>1, <1>3, <1>4

LEMMA PromotedFields ==
    ASSUME NEW cps, NEW old, NEW new, \A c \in DOMAIN cps : cps[c] \in Checkpoint
    PROVE  /\ DOMAIN Promoted(cps, old, new) = DOMAIN cps
           /\ \A c \in DOMAIN cps :
                 /\ c = new => Promoted(cps, old, new)[c].state = cps[c].state
                 /\ Promoted(cps, old, new)[c].floor = cps[c].floor
                 /\ Promoted(cps, old, new)[c].revision = cps[c].revision
<1>1. \A c \in DOMAIN cps :
         /\ [cps[c] EXCEPT !.state = "superseded"].floor = cps[c].floor
         /\ [cps[c] EXCEPT !.state = "superseded"].revision = cps[c].revision
  BY DEF Checkpoint
<1> QED
  BY <1>1 DEF Promoted

LEMMA RolledFields ==
    ASSUME TypeOK, NEW window, NEW cps, DOMAIN cps = DOMAIN checkpoints,
           \A c \in DOMAIN cps : cps[c] \in Checkpoint,
           Len(rows) \notin DOMAIN checkpoints
    PROVE  /\ Rolled(cps, window)[Len(rows)].state = "verified"
           /\ Rolled(cps, window)[Len(rows)].floor = cps[current].floor
           /\ \A c \in DOMAIN cps : Rolled(cps, window)[c].floor = cps[c].floor
<1> DEFINE fresh == [state |-> "verified", floor |-> cps[current].floor,
                     revision |-> IF window THEN "stale" ELSE "current",
                     covered |-> FALSE]
           grown == [c \in DOMAIN cps \cup {Len(rows)} |->
                        IF c \in DOMAIN cps THEN cps[c] ELSE fresh]
<1>1. Len(rows) \in Nat /\ current \in DOMAIN cps
  BY DEF TypeOK
<1>2. fresh \in Checkpoint
  BY <1>1 DEF Checkpoint
<1>3. /\ DOMAIN grown = DOMAIN cps \cup {Len(rows)}
      /\ grown[Len(rows)] = fresh
      /\ \A c \in DOMAIN cps : grown[c] = cps[c]
      /\ \A c \in DOMAIN grown : grown[c] \in Checkpoint
  BY <1>2
<1>4. Rolled(cps, window) = Promoted(grown, current, Len(rows))
  BY DEF Rolled
<1>5. fresh.state = "verified" /\ fresh.floor = cps[current].floor
  OBVIOUS
<1> HIDE DEF grown, fresh
<1> QED
  BY <1>1, <1>3, <1>4, <1>5, PromotedFields

\* A request with something new to import adds a row.
LEMMA NewWorkIsAccepted ==
    ASSUME rows \in Seq(Row), NEW r \in Request, NEW order \in ImportOrders(r),
           NewIndexes(r) # {}
    PROVE  Len(AppendBatch(r, order)) > Len(rows)
<1>1. IsImportOrder(r, order) /\ order \in Seq(1 .. Len(r.updates))
  BY OrderType
<1>2. \E k \in DOMAIN order : TRUE
  BY <1>1 DEF IsImportOrder
<1>3. Len(order) > 0
  BY <1>1, <1>2
<1> QED
  BY <1>3, AppendBatchType

LEMMA HeadInit == Init => CompactionAtHead
<1> SUFFICES ASSUME Init PROVE CompactionAtHead
  OBVIOUS
<1>1. DOMAIN checkpoints = {0} /\ Len(rows) = 0
  BY DEF Init
<1> QED
  BY <1>1 DEF CompactionAtHead

LEMMA HeadSync ==
    ASSUME TypeOK, CompactionAtHead,
           NEW r \in Request, Sync(r)
    PROVE  CompactionAtHead'
<1>1. r \in Request
  OBVIOUS
<1>2. PICK p \in Plans(r), before \in BOOLEAN, after \in BOOLEAN :
              \E found \in Detections(r, p) : SyncWrites(r, p, found, before, after)
  BY SyncPlanned
<1> DEFINE log == AppendBatch(r, p.order)
           waiting == windowOpen /\ ~before
           settled == IF before THEN Consolidated(checkpoints, Len(rows)) ELSE checkpoints
           rolled == IF RollDue(r) THEN Rolled(settled, waiting) ELSE settled
<1>3. /\ rows' = log
      /\ checkpoints' = IF after THEN Consolidated(rolled, Len(log)) ELSE rolled
      /\ windowOpen' = ((waiting \/ Len(log) > Len(rows)) /\ ~after)
  BY <1>2 DEF SyncWrites
<1>4. Len(log) \in Nat /\ Len(rows) \in Nat /\ Len(rows) <= Len(log)
  BY <1>1, PlanFacts, AppendBatchType DEF TypeOK
<1>5. RollDue(r) => Len(log) > Len(rows)
  BY <1>1, PlanFacts, NewWorkIsAccepted DEF RollDue, TypeOK
<1>6. CheckpointsOK(checkpoints, Len(rows)) /\ CheckpointsOK(settled, Len(rows))
         /\ DOMAIN settled = DOMAIN checkpoints
  BY <1>4, ConsolidatedType DEF TypeOK, CheckpointsOK
<1>7. CheckpointsOK(rolled, Len(rows))
  BY <1>6, RolledType
<1> SUFFICES ASSUME NEW c \in DOMAIN checkpoints', ~windowOpen',
                    checkpoints'[c].revision = "current"
             PROVE  c = Len(rows')
  BY DEF CompactionAtHead, HistoryAllows
<1>8. CASE after
  <2>1. checkpoints' = Consolidated(rolled, Len(log)) /\ rows' = log
    BY <1>3, <1>8
  <2> HIDE DEF rolled, log
  <2>2. \A e \in DOMAIN rolled : rolled[e] \in Checkpoint
    BY <1>7 DEF CheckpointsOK
  <2>3. /\ DOMAIN Consolidated(rolled, Len(log)) = DOMAIN rolled
        /\ \A e \in DOMAIN rolled :
              Consolidated(rolled, Len(log))[e].revision = "current" => e = Len(log)
    BY <2>2, ConsolidatedFields
  <2> QED
    BY <2>1, <2>3
<1>9. CASE ~after
  <2>1. ~waiting /\ Len(rows') = Len(rows) /\ ~RollDue(r)
    <3> HIDE DEF log, waiting
    <3>1. ~waiting /\ ~(Len(log) > Len(rows))
      BY <1>3, <1>9, Zenon
    <3> QED
      BY <1>3, <1>4, <1>5, <3>1
  <2>2. checkpoints' = settled
    BY <1>3, <1>9, <2>1
  <2>3. CASE before
    <3>1. checkpoints' = Consolidated(checkpoints, Len(rows))
      BY <2>2, <2>3
    <3> QED
      BY <1>6, <2>1, <3>1, ConsolidatedFields DEF CheckpointsOK
  <2>4. CASE ~before
    <3>1. checkpoints' = checkpoints /\ ~windowOpen
      BY <2>1, <2>2, <2>4
    <3> QED
      BY <2>1, <3>1 DEF CompactionAtHead, HistoryAllows
  <2> QED
    BY <2>3, <2>4
<1> QED
  BY <1>8, <1>9

LEMMA HeadStep == TypeOK /\ CompactionAtHead /\ LogStep => CompactionAtHead'
<1> SUFFICES ASSUME TypeOK, CompactionAtHead, LogStep PROVE CompactionAtHead'
  OBVIOUS
<1>0. \A c \in DOMAIN checkpoints : checkpoints[c] \in Checkpoint
  BY DEF TypeOK
<1>1. ASSUME NEW r \in Request, Sync(r)
      PROVE  CompactionAtHead'
  BY <1>1, HeadSync
<1>2. ASSUME NEW u \in ServerUpdate, NEW d \in Device, ApplyServerCommands(u, d)
      PROVE  CompactionAtHead'
  <2>1. \A c \in DOMAIN checkpoints :
           [checkpoints[c] EXCEPT !.revision = "stale"].revision = "stale"
    BY <1>0 DEF Checkpoint
  <2>2. checkpoints' = [c \in DOMAIN checkpoints |->
                          [checkpoints[c] EXCEPT !.revision = "stale"]]
    BY <1>2 DEF ApplyServerCommands
  <2>3. \A c \in DOMAIN checkpoints' : checkpoints'[c].revision = "stale"
    BY <2>1, <2>2
  <2> QED
    BY <2>3 DEF CompactionAtHead, HistoryAllows
<1>3. CASE ConsolidateDue
  BY <1>0, <1>3, ConsolidatedFields DEF ConsolidateDue, CompactionAtHead, HistoryAllows
<1>4. CASE CreateCandidate
  BY <1>4 DEF CreateCandidate, CompactionAtHead, HistoryAllows
<1>5. CASE VerifiedBackup
  <2>1. \A c \in DOMAIN checkpoints :
           [checkpoints[c] EXCEPT !.covered = TRUE].revision = checkpoints[c].revision
    BY <1>0 DEF Checkpoint
  <2> QED
    BY <1>5, <2>1 DEF VerifiedBackup, CompactionAtHead, HistoryAllows
<1>6. ASSUME NEW c \in DOMAIN checkpoints, VerifyCandidate(c)
      PROVE  CompactionAtHead'
  <2>1. [checkpoints[c] EXCEPT !.state = "verified"].revision = checkpoints[c].revision
    BY <1>0 DEF Checkpoint
  <2>2. checkpoints' = [checkpoints EXCEPT ![c] = [checkpoints[c] EXCEPT !.state = "verified"]]
    BY <1>6 DEF VerifyCandidate
  <2>3. DOMAIN checkpoints' = DOMAIN checkpoints
        /\ \A e \in DOMAIN checkpoints : checkpoints'[e].revision = checkpoints[e].revision
    BY <2>1, <2>2
  <2>4. rows' = rows /\ windowOpen' = windowOpen
    BY <1>6 DEF VerifyCandidate
  <2> QED
    BY <2>3, <2>4 DEF CompactionAtHead, HistoryAllows
<1>7. ASSUME NEW c \in DOMAIN checkpoints, Compact(c)
      PROVE  CompactionAtHead'
  <2>1. Len(rows') = Len(rows)
    BY <1>7 DEF Compact, TypeOK
  <2>2. windowOpen' = windowOpen /\ checkpoints' = Promoted(checkpoints, current, c)
    BY <1>7 DEF Compact
  <2> QED
    BY <1>0, <2>1, <2>2, PromotedFields DEF CompactionAtHead, HistoryAllows
<1>8. CASE UNCHANGED <<rows, checkpoints, windowOpen>>
  BY <1>8 DEF CompactionAtHead, HistoryAllows
<1> QED
  BY <1>1, <1>2, <1>3, <1>4, <1>5, <1>6, <1>7, <1>8, RequestsAssumption
  DEF LogStep, Next, vars, RestoreRevision, ResolveAmbiguity, CompactionBlocked,
      RequireDeviceReauthorization, Reauthorize, RevokeDevice, Authorize

\* A checkpoint that passes the history gates is at the head of the log, so no
\* row that stays was written on the history a compaction trims.
THEOREM CompactionIsAtHead == Spec => []CompactionAtHead
<1>1. Init => TypeOK /\ CompactionAtHead
  BY TypeInit, HeadInit
<1>2. TypeOK /\ CompactionAtHead /\ [Next]_vars => (TypeOK /\ CompactionAtHead)'
  BY TypeStep, HeadStep DEF LogStep
<1> QED
  BY <1>1, <1>2, PTL DEF Spec

-----------------------------------------------------------------------------
(* The page always reloads from its current checkpoint.                    *)

\* A snapshot never trims history past the sequence it reaches.
FloorsBounded == \A c \in DOMAIN checkpoints : checkpoints[c].floor <= c

\* The part of the induction that makes a page reload.
Rebuildable == TypeOK /\ CompactionAtHead /\ FloorsBounded /\ Reloadable

\* Steps that keep the rows, add importable ones and do not move the floor of
\* the current checkpoint keep the page loadable.
LEMMA StillLoadable ==
    ASSUME TypeOK, TypeOK', FloorsBounded, Loadable,
           current <= current', checkpoints'[current'].state = "verified",
           checkpoints'[current'].floor = checkpoints[current].floor,
           Len(rows) <= Len(rows'),
           \A n \in 1 .. Len(rows) : rows'[n] = rows[n],
           \A n \in Len(rows) + 1 .. Len(rows') :
              ~rows'[n].compacted /\ Importable(rows'[n].base)
    PROVE  Loadable'
<1> DEFINE floor == checkpoints[current].floor
<1>1. /\ Len(rows) \in Nat /\ Len(rows') \in Nat
      /\ current \in 0 .. Len(rows) /\ current' \in 0 .. Len(rows')
      /\ current \in DOMAIN checkpoints /\ current' \in DOMAIN checkpoints'
  BY DEF TypeOK
<1>2. floor \in Nat /\ floor <= current
  <2>1. checkpoints[current] \in Checkpoint
    BY DEF TypeOK
  <2> QED
    BY <1>1, <2>1 DEF FloorsBounded, Checkpoint
<1> HIDE DEF floor
<1>3. Prefix(rows', floor) = Prefix(rows, floor)
  <2>1. \A m \in 1 .. Len(rows) : rows'[m].id = rows[m].id
    OBVIOUS
  <2>2. \A k \in 0 .. Len(rows) : Prefix(rows', k) = Prefix(rows, k)
    BY <1>1, <2>1, PrefixKept
  <2>3. floor \in 0 .. Len(rows)
    BY <1>1, <1>2
  <2> QED
    BY <2>2, <2>3
<1>4. ASSUME NEW n \in current' + 1 .. Len(rows')
      PROVE  ~rows'[n].compacted /\ Prefix(rows, floor) \subseteq rows'[n].base
  <2>1. CASE n \in Len(rows) + 1 .. Len(rows')
    BY <2>1 DEF Importable, floor
  <2>2. CASE n \in current + 1 .. Len(rows)
    <3>1. ~rows[n].compacted /\ Prefix(rows, floor) \subseteq rows[n].base
      BY <2>2 DEF Loadable, Importable, floor
    <3>2. rows'[n] = rows[n]
      BY <1>1, <2>2
    <3> QED
      BY <3>1, <3>2
  <2> QED
    BY <1>1, <1>4, <2>1, <2>2
<1> QED
  BY <1>1, <1>3, <1>4 DEF Loadable, Importable, floor

LEMMA ReloadableInit == Init => FloorsBounded /\ Reloadable
<1> SUFFICES ASSUME Init PROVE FloorsBounded /\ Reloadable
  OBVIOUS
<1>1. /\ checkpoints[0].state = "verified" /\ checkpoints[0].floor = 0
      /\ DOMAIN checkpoints = {0} /\ current = 0
  BY DEF Init
<1>2. 1 .. Len(rows) = {}
  BY DEF Init
<1> QED
  BY <1>1, <1>2 DEF FloorsBounded, Reloadable, Loadable

\* What a synchronization leaves of the checkpoints a reload starts from.
LEMMA SyncCheckpoints ==
    ASSUME Rebuildable, NEW r \in Request, Sync(r)
    PROVE  /\ current <= current'
           /\ checkpoints'[current'].state = "verified"
           /\ checkpoints'[current'].floor = checkpoints[current].floor
           /\ FloorsBounded'
           /\ DOMAIN checkpoints \subseteq DOMAIN checkpoints'
           /\ \A c \in DOMAIN checkpoints : checkpoints'[c].floor = checkpoints[c].floor
           /\ \A c \in DOMAIN checkpoints' \ DOMAIN checkpoints : c = current'
<1>1. PICK p \in Plans(r), before \in BOOLEAN, after \in BOOLEAN :
              \E found \in Detections(r, p) : SyncWrites(r, p, found, before, after)
  BY SyncPlanned
<1> DEFINE log == AppendBatch(r, p.order)
           waiting == windowOpen /\ ~before
           settled == IF before THEN Consolidated(checkpoints, Len(rows)) ELSE checkpoints
           rolled == IF RollDue(r) THEN Rolled(settled, waiting) ELSE settled
           reached == IF RollDue(r) THEN Len(rows) ELSE current
<1>2. /\ current' = reached
      /\ checkpoints' = IF after THEN Consolidated(rolled, Len(log)) ELSE rolled
  BY <1>1 DEF SyncWrites
<1>3. /\ Len(rows) \in Nat /\ current \in 0 .. Len(rows)
      /\ current \in DOMAIN checkpoints
      /\ \A c \in DOMAIN checkpoints : c \in Nat /\ checkpoints[c] \in Checkpoint
      /\ CheckpointsOK(checkpoints, Len(rows))
      /\ checkpoints[current].state = "verified"
      /\ TypeOK
  BY DEF Rebuildable, TypeOK, CheckpointsOK, Reloadable, Loadable
<1>4. /\ DOMAIN settled = DOMAIN checkpoints
      /\ CheckpointsOK(settled, Len(rows))
      /\ \A c \in DOMAIN checkpoints :
            settled[c].floor = checkpoints[c].floor /\ settled[c].state = checkpoints[c].state
  BY <1>3, ConsolidatedType, ConsolidatedFields
<1> HIDE DEF settled, log
<1>5. /\ CheckpointsOK(rolled, Len(rows))
      /\ reached \in DOMAIN rolled
      /\ rolled[reached].state = "verified"
      /\ rolled[reached].floor = checkpoints[current].floor
      /\ current <= reached
      /\ \A c \in DOMAIN rolled :
            rolled[c].floor = IF c \in DOMAIN checkpoints THEN checkpoints[c].floor
                              ELSE checkpoints[current].floor
      /\ \A c \in DOMAIN rolled : c \in DOMAIN checkpoints \/ (c = Len(rows) /\ c = reached)
      /\ DOMAIN checkpoints \subseteq DOMAIN rolled
  <2>1. CASE RollDue(r)
    <3>1. Len(rows) \notin DOMAIN checkpoints
      BY <2>1 DEF RollDue
    <3>2. \A c \in DOMAIN settled : settled[c] \in Checkpoint
      BY <1>4 DEF CheckpointsOK
    <3>3. /\ rolled[Len(rows)].state = "verified"
          /\ rolled[Len(rows)].floor = settled[current].floor
          /\ \A c \in DOMAIN settled : rolled[c].floor = settled[c].floor
      BY <1>3, <1>4, <2>1, <3>1, <3>2, RolledFields
    <3>4. /\ CheckpointsOK(rolled, Len(rows))
          /\ DOMAIN rolled = DOMAIN checkpoints \cup {Len(rows)}
      BY <1>3, <1>4, <2>1, RolledType
    <3>5. reached = Len(rows)
      BY <2>1
    <3> HIDE DEF rolled, reached
    <3> QED
      BY <1>3, <1>4, <3>1, <3>3, <3>4, <3>5
  <2>2. CASE ~RollDue(r)
    <3>1. rolled = settled /\ reached = current
      BY <2>2
    <3> HIDE DEF rolled, reached
    <3> QED
      BY <1>3, <1>4, <3>1
  <2> QED
    BY <2>1, <2>2
<1> HIDE DEF rolled, reached
<1>6. /\ DOMAIN checkpoints' = DOMAIN rolled
      /\ \A c \in DOMAIN rolled : /\ checkpoints'[c].floor = rolled[c].floor
                                  /\ checkpoints'[c].state = rolled[c].state
  <2>1. \A c \in DOMAIN rolled : rolled[c] \in Checkpoint
    BY <1>5 DEF CheckpointsOK
  <2> QED
    BY <1>2, <2>1, ConsolidatedFields
<1>7. ASSUME NEW c \in DOMAIN rolled
      PROVE  rolled[c].floor <= c
  <2>1. CASE c \in DOMAIN checkpoints
    BY <1>5, <2>1 DEF Rebuildable, FloorsBounded
  <2>2. CASE c \notin DOMAIN checkpoints
    <3>1. c = Len(rows) /\ rolled[c].floor = checkpoints[current].floor
      BY <1>5, <2>2
    <3>2. checkpoints[current].floor <= current /\ checkpoints[current].floor \in Nat
      BY <1>3 DEF Rebuildable, FloorsBounded, Checkpoint
    <3> QED
      BY <1>3, <3>1, <3>2
  <2> QED
    BY <2>1, <2>2
<1> QED
  BY <1>2, <1>5, <1>6, <1>7 DEF FloorsBounded

LEMMA ReloadableSync ==
    ASSUME Rebuildable, TypeOK',
           NEW r \in Request, Sync(r)
    PROVE  FloorsBounded' /\ Reloadable'
<1>1. r \in Request
  OBVIOUS
<1>2. PICK p \in Plans(r) : rows' = AppendBatch(r, p.order)
  BY SyncPlanned DEF SyncWrites
<1>3. rows \in Seq(Row) /\ TypeOK /\ FloorsBounded /\ Loadable
  BY DEF Rebuildable, TypeOK, Reloadable
<1>4. p.order \in ImportOrders(r) /\ IdentitiesHold(r)
  BY <1>1, <1>3, PlanFacts
<1>5. Len(rows) <= Len(rows') /\ \A n \in 1 .. Len(rows) : rows'[n] = rows[n]
  BY <1>1, <1>2, <1>3, <1>4, AppendBatchType
<1>6. \A n \in Len(rows) + 1 .. Len(rows') :
         ~rows'[n].compacted /\ Importable(rows'[n].base)
  BY <1>1, <1>2, <1>3, <1>4, AppendedRows
<1>7. /\ current <= current'
      /\ checkpoints'[current'].state = "verified"
      /\ checkpoints'[current'].floor = checkpoints[current].floor
      /\ FloorsBounded'
  BY SyncCheckpoints
<1>8. Loadable'
  BY <1>3, <1>5, <1>6, <1>7, StillLoadable
<1> QED
  BY <1>7, <1>8 DEF Reloadable

LEMMA ReloadableServerCommand ==
    ASSUME Rebuildable, TypeOK', NEW u \in ServerUpdate, NEW d \in Device,
           ApplyServerCommands(u, d)
    PROVE  FloorsBounded' /\ Reloadable'
<1> DEFINE row == [id |-> u, device |-> d, base |-> Document, compacted |-> FALSE]
<1>1. /\ rows \in Seq(Row) /\ Len(rows) \in Nat /\ TypeOK /\ FloorsBounded /\ Loadable
      /\ current \in 0 .. Len(rows) /\ current \in DOMAIN checkpoints
      /\ \A c \in DOMAIN checkpoints : checkpoints[c] \in Checkpoint
  BY DEF Rebuildable, TypeOK, Reloadable
<1>2. row.base = Document /\ row.compacted = FALSE /\ rows' = Append(rows, row)
  BY DEF ApplyServerCommands
<1> HIDE DEF row
<1>3. /\ Len(rows') = Len(rows) + 1 /\ rows'[Len(rows) + 1] = row
      /\ \A n \in 1 .. Len(rows) : rows'[n] = rows[n]
  BY <1>1, <1>2
<1>4. Importable(Document)
  <2>1. checkpoints[current].floor \in 0 .. Len(rows)
    BY <1>1 DEF FloorsBounded, Checkpoint
  <2> QED
    BY <1>1, <2>1, PrefixGrows DEF Importable, Document
<1>5. \A n \in Len(rows) + 1 .. Len(rows') :
         ~rows'[n].compacted /\ Importable(rows'[n].base)
  <2>1. \A n \in Len(rows) + 1 .. Len(rows') : n = Len(rows) + 1
    BY <1>1, <1>3
  <2> QED
    BY <1>2, <1>3, <1>4, <2>1
<1>6. /\ current' = current /\ DOMAIN checkpoints' = DOMAIN checkpoints
      /\ \A c \in DOMAIN checkpoints : /\ checkpoints'[c].floor = checkpoints[c].floor
                                       /\ checkpoints'[c].state = checkpoints[c].state
  <2>1. \A c \in DOMAIN checkpoints :
           /\ [checkpoints[c] EXCEPT !.revision = "stale"].floor = checkpoints[c].floor
           /\ [checkpoints[c] EXCEPT !.revision = "stale"].state = checkpoints[c].state
    BY <1>1 DEF Checkpoint
  <2>2. current' = current /\ checkpoints' =
           [c \in DOMAIN checkpoints |-> [checkpoints[c] EXCEPT !.revision = "stale"]]
    BY DEF ApplyServerCommands
  <2> QED
    BY <2>1, <2>2
<1>7. FloorsBounded'
  BY <1>1, <1>6 DEF FloorsBounded
<1>8. checkpoints'[current'].state = "verified" /\ current <= current'
         /\ Len(rows) <= Len(rows')
  BY <1>1, <1>3, <1>6 DEF Loadable
<1>9. checkpoints'[current'].floor = checkpoints[current].floor
  BY <1>1, <1>6
<1>10. Loadable'
  BY <1>1, <1>3, <1>5, <1>8, <1>9, StillLoadable
<1> QED
  BY <1>7, <1>10 DEF Reloadable

LEMMA ReloadableCheckpointStep ==
    ASSUME Rebuildable, TypeOK',
           ConsolidateDue \/ CreateCandidate \/ VerifiedBackup
               \/ \E c \in DOMAIN checkpoints : VerifyCandidate(c)
    PROVE  FloorsBounded' /\ Reloadable'
<1>1. /\ TypeOK /\ FloorsBounded /\ Loadable /\ Len(rows) \in Nat
      /\ current \in 0 .. Len(rows) /\ current \in DOMAIN checkpoints
      /\ checkpoints[current].state = "verified"
      /\ \A c \in DOMAIN checkpoints : checkpoints[c] \in Checkpoint
  BY DEF Rebuildable, TypeOK, Reloadable, Loadable
<1>2. rows' = rows /\ current' = current
  BY DEF ConsolidateDue, CreateCandidate, VerifiedBackup, VerifyCandidate
<1>3. /\ \A c \in DOMAIN checkpoints :
            /\ checkpoints'[c].floor = checkpoints[c].floor
            /\ checkpoints[c].state = "verified" => checkpoints'[c].state = "verified"
      /\ \A c \in DOMAIN checkpoints' \ DOMAIN checkpoints : checkpoints'[c].floor <= c
  <2>1. CASE ConsolidateDue
    BY <1>1, <2>1, ConsolidatedFields DEF ConsolidateDue
  <2>2. CASE CreateCandidate
    BY <1>1, <2>2 DEF CreateCandidate
  <2>3. CASE VerifiedBackup
    <3>1. \A c \in DOMAIN checkpoints :
             /\ [checkpoints[c] EXCEPT !.covered = TRUE].floor = checkpoints[c].floor
             /\ [checkpoints[c] EXCEPT !.covered = TRUE].state = checkpoints[c].state
      BY <1>1 DEF Checkpoint
    <3> QED
      BY <2>3, <3>1 DEF VerifiedBackup
  <2>4. ASSUME NEW e \in DOMAIN checkpoints, VerifyCandidate(e)
        PROVE  <1>3
    <3> DEFINE verified == [checkpoints[e] EXCEPT !.state = "verified"]
    <3>1. verified.floor = checkpoints[e].floor /\ verified.state = "verified"
      BY <1>1 DEF Checkpoint
    <3>2. checkpoints' = [checkpoints EXCEPT ![e] = verified]
      BY <2>4 DEF VerifyCandidate
    <3> HIDE DEF verified
    <3> QED
      BY <3>1, <3>2
  <2> QED
    BY <2>1, <2>2, <2>3, <2>4
<1>4. FloorsBounded'
  BY <1>1, <1>3 DEF FloorsBounded
<1>5. Len(rows) + 1 .. Len(rows') = {}
  BY <1>1, <1>2
<1>6. Loadable'
  BY <1>1, <1>2, <1>3, <1>5, StillLoadable
<1> QED
  BY <1>4, <1>6 DEF Reloadable

LEMMA ReloadableCompact ==
    ASSUME Rebuildable, TypeOK', NEW c \in DOMAIN checkpoints, Compact(c)
    PROVE  FloorsBounded' /\ Reloadable'
<1>1. /\ \A e \in DOMAIN checkpoints : checkpoints[e] \in Checkpoint
      /\ FloorsBounded /\ CompactionAtHead
      /\ rows \in Seq(Row) /\ Len(rows) \in Nat
  BY DEF Rebuildable, TypeOK
<1>2. /\ current' = c /\ checkpoints' = Promoted(checkpoints, current, c)
      /\ checkpoints[c].state = "verified"
      /\ Len(rows') = Len(rows) /\ HistoryAllows(c)
  BY <1>1 DEF Compact, MayCompact
<1>3. c = Len(rows)
  BY <1>1, <1>2 DEF CompactionAtHead
<1>4. /\ DOMAIN checkpoints' = DOMAIN checkpoints
      /\ \A e \in DOMAIN checkpoints : checkpoints'[e].floor = checkpoints[e].floor
      /\ checkpoints'[c].state = "verified"
  BY <1>1, <1>2, PromotedFields
<1>5. current' + 1 .. Len(rows') = {}
  BY <1>1, <1>2, <1>3
<1> QED
  BY <1>1, <1>2, <1>4, <1>5 DEF FloorsBounded, Reloadable, Loadable

LEMMA ReloadableStep == Rebuildable /\ LogStep => Rebuildable'
<1> SUFFICES ASSUME Rebuildable, LogStep, TypeOK', CompactionAtHead'
             PROVE  FloorsBounded' /\ Reloadable'
  BY TypeStep, HeadStep DEF Rebuildable
<1>1. ASSUME NEW r \in Request, Sync(r)
      PROVE  FloorsBounded' /\ Reloadable'
  BY <1>1, ReloadableSync
<1>2. ASSUME NEW u \in ServerUpdate, NEW d \in Device, ApplyServerCommands(u, d)
      PROVE  FloorsBounded' /\ Reloadable'
  BY <1>2, ReloadableServerCommand
<1>3. CASE ConsolidateDue \/ CreateCandidate \/ VerifiedBackup
               \/ \E c \in DOMAIN checkpoints : VerifyCandidate(c)
  BY <1>3, ReloadableCheckpointStep
<1>4. ASSUME NEW c \in DOMAIN checkpoints, Compact(c)
      PROVE  FloorsBounded' /\ Reloadable'
  BY <1>4, ReloadableCompact
<1>5. CASE UNCHANGED <<rows, checkpoints, current>>
  BY <1>5 DEF Rebuildable, FloorsBounded, Reloadable, Loadable, Importable, Prefix
<1> QED
  BY <1>1, <1>2, <1>3, <1>4, <1>5, RequestsAssumption
  DEF LogStep, Next, vars, RestoreRevision, ResolveAmbiguity, CompactionBlocked,
      RequireDeviceReauthorization, Reauthorize, RevokeDevice, Authorize

\* No rolled checkpoint, consolidation, promotion or compaction, in whatever
\* order, leaves a page that its current checkpoint cannot rebuild.
THEOREM AlwaysReloadable == Spec => []Reloadable
<1>1. Init => Rebuildable
  BY TypeInit, HeadInit, ReloadableInit DEF Rebuildable
<1>2. Rebuildable /\ [Next]_vars => Rebuildable'
  BY ReloadableStep DEF LogStep
<1>3. Rebuildable => Reloadable
  BY DEF Rebuildable
<1> QED
  BY <1>1, <1>2, <1>3, PTL DEF Spec

-----------------------------------------------------------------------------
(* Receipts.                                                               *)

LEMMA CausalInit == Init => CausalLog
BY DEF Init, CausalLog

\* Whatever a device resubmits, and in whatever order, an update has one row,
\* after every row its author had seen.
THEOREM AlwaysCausal == Spec => []CausalLog
<1>1. Init => TypeOK /\ CausalLog
  BY TypeInit, CausalInit
<1>2. TypeOK /\ CausalLog /\ [Next]_vars => (TypeOK /\ CausalLog)'
  BY TypeStep, CausalStep DEF LogStep
<1> QED
  BY <1>1, <1>2, PTL DEF Spec

\* What a step does to the rows there are: keep them, or forget payloads.
RowsKept ==
    /\ Len(rows) <= Len(rows')
    /\ \A n \in DOMAIN rows :
          rows'[n] = rows[n] \/ rows'[n] = [rows[n] EXCEPT !.compacted = TRUE]

LEMMA RowsKeptStep == TypeOK /\ LogStep => RowsKept
<1> SUFFICES ASSUME TypeOK, LogStep PROVE RowsKept
  OBVIOUS
<1>0. rows \in Seq(Row) /\ Len(rows) \in Nat /\ DOMAIN rows = 1 .. Len(rows)
  BY DEF TypeOK
<1>1. ASSUME NEW r \in Request, Sync(r)
      PROVE  RowsKept
  <2>1. r \in Request
    OBVIOUS
  <2>2. PICK p \in Plans(r) : rows' = AppendBatch(r, p.order)
    BY <1>1, SyncPlanned DEF SyncWrites
  <2>3. p.order \in ImportOrders(r)
    BY <1>0, <2>1, PlanFacts
  <2> QED
    BY <1>0, <2>1, <2>2, <2>3, AppendBatchType DEF RowsKept
<1>2. ASSUME NEW u \in ServerUpdate, NEW d \in Device, ApplyServerCommands(u, d)
      PROVE  RowsKept
  <2> DEFINE row == [id |-> u, device |-> d, base |-> Document, compacted |-> FALSE]
  <2>1. rows' = Append(rows, row)
    BY <1>2 DEF ApplyServerCommands
  <2> HIDE DEF row
  <2> QED
    BY <1>0, <2>1 DEF RowsKept
<1>3. ASSUME NEW c \in DOMAIN checkpoints, Compact(c)
      PROVE  RowsKept
  <2>1. rows' = [n \in DOMAIN rows |->
                   IF n <= c THEN [rows[n] EXCEPT !.compacted = TRUE] ELSE rows[n]]
    BY <1>3 DEF Compact
  <2>2. \A n \in DOMAIN rows :
           rows'[n] = rows[n] \/ rows'[n] = [rows[n] EXCEPT !.compacted = TRUE]
    BY <2>1
  <2>3. Len(rows') = Len(rows)
    BY <1>0, <2>1
  <2> QED
    BY <1>0, <2>2, <2>3 DEF RowsKept
<1>4. CASE UNCHANGED rows
  BY <1>0, <1>4 DEF RowsKept
<1> QED
  BY <1>1, <1>2, <1>3, <1>4, RequestsAssumption
  DEF LogStep, Next, vars, RestoreRevision, ResolveAmbiguity, ConsolidateDue, CreateCandidate,
      VerifiedBackup, VerifyCandidate, CompactionBlocked, RequireDeviceReauthorization,
      Reauthorize, RevokeDevice, Authorize

\* A receipt, once given, is never rewritten, reordered or lost: a retry of the
\* request that made it is always recognised.
THEOREM ReceiptsAreImmutable == Spec => ReceiptsImmutable
<1>1. TypeOK /\ [Next]_vars =>
         [/\ Len(rows) <= Len(rows')
          /\ \A n \in DOMAIN rows :
                \/ rows'[n] = rows[n]
                \/ rows'[n] = [rows[n] EXCEPT !.compacted = TRUE]]_vars
  BY RowsKeptStep DEF RowsKept, LogStep
<1> QED
  BY <1>1, TypeCorrect, PTL DEF Spec, ReceiptsImmutable

-----------------------------------------------------------------------------
(* Device frontiers.                                                       *)

\* A request replaces the frontier of its own device by a larger one, or none.
LEMMA ConfirmedCases ==
    ASSUME TypeOK, NEW r \in Request, NEW confirmed \in Nat
    PROVE  LET now == Confirmed(r, confirmed)
           IN  /\ DOMAIN frontiers \subseteq DOMAIN now
               /\ \A d \in DOMAIN now :
                     \/ d \in DOMAIN frontiers /\ now[d] = frontiers[d]
                     \/ /\ now[d].persisted = r.persisted
                        /\ d \in DOMAIN frontiers =>
                              /\ frontiers[d].persisted \subseteq r.persisted
                              /\ frontiers[d].confirmed <= now[d].confirmed
                        /\ \/ now[d].confirmed = confirmed
                           \/ /\ d \in DOMAIN frontiers
                              /\ now[d].confirmed = frontiers[d].confirmed
<1> DEFINE known == r.device \in DOMAIN frontiers
           reached == IF known /\ frontiers[r.device].confirmed > confirmed
                      THEN frontiers[r.device].confirmed ELSE confirmed
           fresh == [persisted |-> r.persisted, confirmed |-> reached,
                     state |-> "authorized"]
           moved == [d \in DOMAIN frontiers \cup {r.device} |->
                       IF d = r.device THEN fresh ELSE frontiers[d]]
           advances == ~known \/ frontiers[r.device].persisted \subseteq r.persisted
           changes == ~known \/ frontiers[r.device].persisted # r.persisted
                             \/ frontiers[r.device].confirmed # reached
           now == Confirmed(r, confirmed)
<1>1. known => frontiers[r.device].confirmed \in Nat
  BY DEF TypeOK, DeviceFrontier
<1>2. /\ reached = confirmed \/ (known /\ reached = frontiers[r.device].confirmed)
      /\ known => frontiers[r.device].confirmed <= reached
  BY <1>1
<1>3. now = IF advances /\ changes THEN moved ELSE frontiers
  BY DEF Confirmed
<1>4. fresh.persisted = r.persisted /\ fresh.confirmed = reached
  OBVIOUS
<1> HIDE DEF now, reached, fresh, changes
<1>5. CASE now = frontiers
  BY <1>5 DEF now
<1>6. CASE now = moved /\ advances
  <2>1. /\ DOMAIN now = DOMAIN frontiers \cup {r.device}
        /\ now[r.device] = fresh
        /\ \A d \in DOMAIN frontiers : d # r.device => now[d] = frontiers[d]
    BY <1>6
  <2> QED
    BY <1>2, <1>4, <1>6, <2>1 DEF now
<1> QED
  BY <1>3, <1>5, <1>6

\* Rows that are kept keep every prefix the frontiers were measured against.
LEMMA PrefixesStay ==
    ASSUME TypeOK, TypeOK', RowsKept
    PROVE  /\ Len(rows) \in Nat /\ Len(rows') \in Nat /\ Len(rows) <= Len(rows')
           /\ \A n \in 0 .. Len(rows) : Prefix(rows', n) = Prefix(rows, n)
           /\ Document \subseteq Document'
<1>1. /\ Len(rows) \in Nat /\ Len(rows') \in Nat /\ Len(rows) <= Len(rows')
      /\ DOMAIN rows = 1 .. Len(rows)
  BY DEF TypeOK, RowsKept
<1>2. \A n \in 1 .. Len(rows) : rows'[n].id = rows[n].id
  <2> TAKE n \in 1 .. Len(rows)
  <2>1. rows[n] \in Row
    BY DEF TypeOK
  <2>2. rows'[n] = rows[n] \/ rows'[n] = [rows[n] EXCEPT !.compacted = TRUE]
    BY <1>1 DEF RowsKept
  <2>3. [rows[n] EXCEPT !.compacted = TRUE].id = rows[n].id
    BY <2>1 DEF Row
  <2> QED
    BY <2>2, <2>3
<1>3. \A n \in 0 .. Len(rows) : Prefix(rows', n) = Prefix(rows, n)
  BY <1>1, <1>2, PrefixKept
<1>4. Prefix(rows', Len(rows)) \subseteq Prefix(rows', Len(rows'))
  BY <1>1 DEF Prefix
<1> QED
  BY <1>1, <1>3, <1>4 DEF Document

\* A frontier the server recorded is proved by the log there was, and stays so.
Proves(frontier) ==
    /\ frontier.confirmed <= Len(rows)
    /\ Prefix(rows, frontier.confirmed) \subseteq frontier.persisted
    /\ frontier.persisted \subseteq Document

LEMMA StillProven ==
    ASSUME TypeOK, TypeOK', RowsKept, NEW frontier \in DeviceFrontier, Proves(frontier)
    PROVE  /\ frontier.confirmed <= Len(rows')
           /\ Prefix(rows', frontier.confirmed) \subseteq frontier.persisted
           /\ frontier.persisted \subseteq Document'
<1>1. frontier.confirmed \in 0 .. Len(rows)
  BY PrefixesStay DEF Proves, DeviceFrontier
<1>2. Prefix(rows', frontier.confirmed) = Prefix(rows, frontier.confirmed)
  BY <1>1, PrefixesStay
<1> QED
  BY <1>1, <1>2, PrefixesStay DEF Proves

LEMMA FrontierStep ==
    TypeOK /\ FrontierProven /\ LogStep => FrontierProven'
<1> SUFFICES ASSUME TypeOK, FrontierProven, LogStep, TypeOK', RowsKept,
                    NEW d \in DOMAIN frontiers'
             PROVE  /\ frontiers'[d].confirmed <= Len(rows')
                    /\ Prefix(rows', frontiers'[d].confirmed) \subseteq frontiers'[d].persisted
                    /\ frontiers'[d].persisted \subseteq Document'
  BY TypeStep, RowsKeptStep DEF FrontierProven
<1>1. \A e \in DOMAIN frontiers : frontiers[e] \in DeviceFrontier /\ Proves(frontiers[e])
  BY DEF TypeOK, FrontierProven, Proves
<1>2. CASE d \in DOMAIN frontiers /\ frontiers'[d].confirmed = frontiers[d].confirmed
                /\ frontiers'[d].persisted = frontiers[d].persisted
  BY <1>1, <1>2, StillProven
<1>3. ASSUME NEW r \in Request, Sync(r)
      PROVE  /\ frontiers'[d].confirmed <= Len(rows')
             /\ Prefix(rows', frontiers'[d].confirmed) \subseteq frontiers'[d].persisted
             /\ frontiers'[d].persisted \subseteq Document'
  <2>1. r \in Request
    OBVIOUS
  <2>2. PICK p \in Plans(r) : /\ rows' = AppendBatch(r, p.order)
                              /\ frontiers' = Confirmed(r, p.confirmed)
    BY <1>3, SyncPlanned DEF SyncWrites
  <2>3. /\ p.confirmed \in Nat
        /\ p.confirmed <= Len(rows')
        /\ Prefix(rows', p.confirmed) \subseteq r.persisted
        /\ r.persisted \subseteq Prefix(rows', Len(rows'))
    BY <2>1, <2>2, PlanFacts DEF TypeOK
  <2>4. \/ d \in DOMAIN frontiers /\ frontiers'[d] = frontiers[d]
        \/ /\ frontiers'[d].persisted = r.persisted
           /\ d \in DOMAIN frontiers => frontiers[d].persisted \subseteq r.persisted
           /\ \/ frontiers'[d].confirmed = p.confirmed
              \/ /\ d \in DOMAIN frontiers
                 /\ frontiers'[d].confirmed = frontiers[d].confirmed
    BY <2>1, <2>2, <2>3, ConfirmedCases
  <2>5. r.persisted \subseteq Document'
    BY <2>3 DEF Document
  <2>6. CASE d \in DOMAIN frontiers /\ frontiers[d].persisted \subseteq r.persisted
                /\ frontiers'[d].persisted = r.persisted
                /\ frontiers'[d].confirmed = frontiers[d].confirmed
    <3>1. /\ frontiers[d].confirmed <= Len(rows')
          /\ Prefix(rows', frontiers[d].confirmed) \subseteq frontiers[d].persisted
      BY <1>1, <2>6, StillProven
    <3> QED
      BY <2>5, <2>6, <3>1
  <2> QED
    BY <1>2, <2>3, <2>4, <2>5, <2>6
<1>4. CASE MarkRevoked
  <2>1. d \in DOMAIN frontiers
    BY <1>4 DEF MarkRevoked
  <2>2. /\ [frontiers[d] EXCEPT !.state = "revoked"].confirmed = frontiers[d].confirmed
        /\ [frontiers[d] EXCEPT !.state = "revoked"].persisted = frontiers[d].persisted
    BY <1>1, <2>1 DEF DeviceFrontier
  <2>3. frontiers'[d] = frontiers[d] \/ frontiers'[d] = [frontiers[d] EXCEPT !.state = "revoked"]
    BY <1>4 DEF MarkRevoked
  <2> QED
    BY <1>2, <2>1, <2>2, <2>3
<1>5. CASE UNCHANGED frontiers
  BY <1>2, <1>5
<1> QED
  BY <1>3, <1>4, <1>5, RequestsAssumption
  DEF LogStep, Next, vars, RestoreRevision, ResolveAmbiguity, ApplyServerCommands, ConsolidateDue,
      CreateCandidate, VerifiedBackup, VerifyCandidate, Compact, CompactionBlocked,
      RequireDeviceReauthorization, Reauthorize, RevokeDevice, Authorize

\* The frontier recorded for a device proves the prefix it is said to confirm,
\* so compaction, which trusts the number, never outruns the vector.
THEOREM FrontiersAreProven == Spec => []FrontierProven
<1>1. Init => TypeOK /\ FrontierProven
  BY TypeInit DEF Init, FrontierProven
<1>2. TypeOK /\ FrontierProven /\ [Next]_vars => (TypeOK /\ FrontierProven)'
  BY TypeStep, FrontierStep DEF LogStep
<1> QED
  BY <1>1, <1>2, PTL DEF Spec

\* What a step does to the frontiers there are.
FrontiersKept ==
    \A d \in DOMAIN frontiers :
        /\ d \in DOMAIN frontiers'
        /\ frontiers[d].confirmed <= frontiers'[d].confirmed
        /\ frontiers[d].persisted \subseteq frontiers'[d].persisted

LEMMA FrontiersKeptStep == TypeOK /\ LogStep => FrontiersKept
<1> SUFFICES ASSUME TypeOK, LogStep PROVE FrontiersKept
  OBVIOUS
<1>1. \A d \in DOMAIN frontiers : frontiers[d] \in DeviceFrontier /\ frontiers[d].confirmed \in Nat
  BY DEF TypeOK, DeviceFrontier
<1>2. ASSUME NEW r \in Request, Sync(r)
      PROVE  FrontiersKept
  <2>1. r \in Request
    OBVIOUS
  <2>2. PICK p \in Plans(r) : frontiers' = Confirmed(r, p.confirmed)
    BY <1>2, SyncPlanned DEF SyncWrites
  <2>3. p.confirmed \in Nat
    BY <2>1, PlanFacts DEF TypeOK
  <2> QED
    BY <1>1, <2>1, <2>2, <2>3, ConfirmedCases DEF FrontiersKept
<1>3. CASE MarkRevoked
  <2>1. \A d \in DOMAIN frontiers :
           /\ [frontiers[d] EXCEPT !.state = "revoked"].confirmed = frontiers[d].confirmed
           /\ [frontiers[d] EXCEPT !.state = "revoked"].persisted = frontiers[d].persisted
    BY <1>1 DEF DeviceFrontier
  <2> QED
    BY <1>1, <1>3, <2>1 DEF MarkRevoked, FrontiersKept
<1>4. CASE UNCHANGED frontiers
  BY <1>1, <1>4 DEF FrontiersKept
<1> QED
  BY <1>2, <1>3, <1>4, RequestsAssumption
  DEF LogStep, Next, vars, RestoreRevision, ResolveAmbiguity, ApplyServerCommands, ConsolidateDue,
      CreateCandidate, VerifiedBackup, VerifyCandidate, Compact, CompactionBlocked,
      RequireDeviceReauthorization, Reauthorize, RevokeDevice, Authorize

\* No stale tab, retry or compaction moves the frontier of a device back.
THEOREM FrontiersAdvance == Spec => FrontierAdvances
<1>1. TypeOK /\ [Next]_vars =>
         [\A d \in DOMAIN frontiers :
             /\ d \in DOMAIN frontiers'
             /\ frontiers[d].confirmed <= frontiers'[d].confirmed
             /\ frontiers[d].persisted \subseteq frontiers'[d].persisted]_vars
  BY FrontiersKeptStep DEF FrontiersKept, LogStep
<1> QED
  BY <1>1, TypeCorrect, PTL DEF Spec, FrontierAdvances

-----------------------------------------------------------------------------
(* Catching up.                                                            *)

\* What an answer carries closes the gap of the device up to its cursor,
\* whatever was submitted with the request and on whatever branch.
LEMMA AnswersHaveNoGap ==
    ASSUME rows \in Seq(Row), NEW r \in Request, NEW p \in Plans(r)
    PROVE  Prefix(AppendBatch(r, p.order), p.through)
               \subseteq r.persisted \cup Ids(r) \cup {u.id : u \in Response(r, p).remote}
<1> DEFINE log == AppendBatch(r, p.order)
           carried == {n \in Sendable(log, r, p.confirmed) : n <= p.through}
<1>1. PICK order \in ImportOrders(r) : p \in PlansFor(r, order)
  BY DEF Plans
<1>2. /\ p.order = order
      /\ p.through \in 0 .. Len(log)
      /\ p.through <= WindowEnd(log, p.confirmed)
      /\ Prefix(log, p.confirmed) \subseteq r.persisted
  BY <1>1 DEF PlansFor, IsConfirmedPrefix
<1>3. p.confirmed \in Nat /\ Len(log) \in Nat /\ p.confirmed <= Len(log)
  BY <1>1, <1>2, PlanFacts, AppendBatchType
<1>4. WindowEnd(log, p.confirmed) \in Nat
  BY <1>3, LimitsAssumption DEF WindowEnd
<1> DEFINE carry(n) == [id |-> log[n].id, base |-> log[n].base]
<1>5. {u.id : u \in Response(r, p).remote} = {log[n].id : n \in carried}
  <2>1. Response(r, p).remote = {carry(n) : n \in carried}
    BY DEF Response
  <2>2. \A n \in carried : carry(n).id = log[n].id
    OBVIOUS
  <2> HIDE DEF log, carried, carry
  <2> QED
    BY <2>1, <2>2
<1> HIDE DEF log, carry
<1>6. ASSUME NEW m \in 1 .. p.through
      PROVE  log[m].id \in r.persisted \cup Ids(r) \cup {log[n].id : n \in carried}
  <2>1. CASE m <= p.confirmed
    BY <1>2, <1>3, <2>1 DEF Prefix
  <2>2. CASE m > p.confirmed
    <3>1. m \in p.confirmed + 1 .. WindowEnd(log, p.confirmed) /\ m <= p.through
      BY <1>2, <1>3, <1>4, <2>2
    <3>2. CASE log[m].id \in Ids(r)
      BY <3>2
    <3>3. CASE Prefix(log, m) \subseteq r.persisted
      BY <3>1, <3>3 DEF Prefix
    <3>4. CASE m \in Sendable(log, r, p.confirmed)
      BY <3>1, <3>4
    <3>5. CASE Authored(log[m]) \subseteq r.persisted
      BY <3>5 DEF Authored
    <3> QED
      BY <3>1, <3>2, <3>3, <3>4, <3>5 DEF Sendable, NeedPayload
  <2> QED
    BY <1>2, <1>3, <2>1, <2>2
<1>7. Prefix(log, p.through) \subseteq r.persisted \cup Ids(r) \cup {log[n].id : n \in carried}
  BY <1>6 DEF Prefix
<1> QED
  BY <1>5, <1>7 DEF log

\* The cursor of an answer never passes a row the device lacks.
THEOREM AnswersAreComplete == Spec => []CatchUpComplete
<1>1. TypeOK => CatchUpComplete
  BY AnswersHaveNoGap, RequestsAssumption DEF CatchUpComplete, TypeOK
<1> QED
  BY <1>1, TypeCorrect, PTL

\* Every set of numbers has a least member, and a greatest when it is bounded.
LEMMA LeastOf ==
    ASSUME NEW S \in SUBSET Nat, S # {}
    PROVE  \E n \in S : \A m \in S : n <= m
<1> DEFINE R == {pair \in Nat \X Nat : pair[1] < pair[2]}
<1>1. IsWellFoundedOn(R, Nat)
  BY NatLessThanWellFounded, Zenon DEF OpToRel
<1>2. \A x, y \in Nat : y < x => <<y, x>> \in R
  OBVIOUS
<1> HIDE DEF R
<1>3. PICK x \in S : \A y \in S : ~(<<y, x>> \in R)
  BY <1>1, WFMin
<1>4. \A y \in S : ~(y < x)
  BY <1>2, <1>3
<1> QED
  BY <1>3, <1>4

LEMMA GreatestOf ==
    ASSUME NEW bound \in Nat, NEW S \in SUBSET (0 .. bound), S # {}
    PROVE  \E n \in S : \A m \in S : m <= n
<1> DEFINE T == {bound - n : n \in S}
<1>1. T \in SUBSET Nat /\ T # {}
  <2>1. \A n \in S : n \in 0 .. bound /\ bound - n \in Nat
    OBVIOUS
  <2> QED
    BY <2>1
<1>2. PICK t \in T : \A m \in T : t <= m
  BY <1>1, LeastOf
<1>3. PICK n \in S : t = bound - n
  BY <1>2
<1>4. \A m \in S : bound - n <= bound - m
  BY <1>2, <1>3
<1>5. \A m \in S : m \in Int /\ n \in Int /\ bound \in Int
  OBVIOUS
<1>6. \A m \in S : m <= n
  BY <1>4, <1>5
<1> QED
  BY <1>3, <1>6

\* Whoever knows everything the log has forgotten is answered.
Covers(persisted) ==
    \A n \in 1 .. Len(rows) : rows[n].compacted => Prefix(rows, n) \subseteq persisted

LEMMA PollIsAnswered ==
    ASSUME TypeOK, Loadable, NEW d \in Device,
           NEW persisted \in Frontier, persisted \subseteq Document, Covers(persisted)
    PROVE  Plans([device |-> d, updates |-> << >>, persisted |-> persisted]) # {}
<1> DEFINE r == [device |-> d, updates |-> << >>, persisted |-> persisted]
           log == AppendBatch(r, << >>)
<1>1. /\ r \in Request
      /\ r.updates = << >> /\ r.persisted = persisted
  BY DEF Request
<1> HIDE DEF r
<1>2. NewIndexes(r) = {} /\ Ids(r) = {} /\ IdentitiesHold(r)
  BY <1>1 DEF NewIndexes, Ids, IdentitiesHold
<1>3. << >> \in ImportOrders(r)
  <2>1. << >> \in [1 .. 0 -> NewIndexes(r)]
    OBVIOUS
  <2>2. 0 \in 0 .. Len(r.updates)
    BY <1>1
  <2>3. IsImportOrder(r, << >>)
    BY <1>2 DEF IsImportOrder
  <2> QED
    BY <2>1, <2>2, <2>3 DEF ImportOrders
<1>4. /\ rows \in Seq(Row)
      /\ Len(rows) \in Nat /\ Len(log) = Len(rows)
      /\ \A n \in 1 .. Len(rows) : log[n] = rows[n]
  BY <1>1, <1>3, AppendBatchType DEF TypeOK
<1> HIDE DEF log
<1>5. \A n \in 0 .. Len(rows) : Prefix(log, n) = Prefix(rows, n)
  BY <1>4, PrefixKept
<1>6. PICK c \in 0 .. Len(log) :
         /\ Prefix(log, c) \subseteq persisted
         /\ \A m \in 0 .. Len(log) : Prefix(log, m) \subseteq persisted => m <= c
  <2> DEFINE S == {n \in 0 .. Len(log) : Prefix(log, n) \subseteq persisted}
  <2>1. 0 \in S
    BY <1>4 DEF Prefix
  <2>2. S \in SUBSET (0 .. Len(log)) /\ Len(log) \in Nat
    BY <1>4
  <2>3. PICK n \in S : \A m \in S : m <= n
    BY <2>1, <2>2, GreatestOf
  <2> QED
    BY <2>3
<1>7. IsConfirmedPrefix(log, persisted, c)
  BY <1>4, <1>6 DEF IsConfirmedPrefix
<1> DEFINE end == WindowEnd(log, c)
           sent(t) == {n \in Sendable(log, r, c) : n <= t}
<1>8. /\ end \in Nat /\ c <= end /\ end <= Len(log)
      /\ c \in Nat
  BY <1>4, <1>6, LimitsAssumption DEF WindowEnd
<1> HIDE DEF end
<1>9. Sendable(log, r, c) \subseteq c + 1 .. end
  BY DEF Sendable, NeedPayload, end
<1>10. \A t \in Nat : Cardinality(sent(t)) \in Nat
  <2> TAKE t \in Nat
  <2>1. IsFiniteSet(c + 1 .. end)
    BY <1>8, FS_Interval
  <2>2. sent(t) \subseteq c + 1 .. end
    BY <1>9
  <2>3. IsFiniteSet(sent(t))
    BY <2>1, <2>2, FS_Subset
  <2> QED
    BY <2>3, FS_CardinalityType
<1>11. Cardinality(sent(c)) <= MaxRemote
  <2>1. sent(c) = {}
    BY <1>8, <1>9
  <2>2. Cardinality(sent(c)) = 0
    BY <2>1, FS_EmptySet
  <2> QED
    BY <2>2, LimitsAssumption
<1>12. PICK t \in c .. end :
          /\ Cardinality(sent(t)) <= MaxRemote
          /\ \A m \in c .. end : Cardinality(sent(m)) <= MaxRemote => m <= t
  <2> DEFINE S == {m \in c .. end : Cardinality(sent(m)) <= MaxRemote}
  <2> HIDE DEF sent
  <2>1. c \in S
    BY <1>8, <1>11
  <2>2. S \in SUBSET (0 .. end)
    BY <1>8
  <2>3. PICK n \in S : \A m \in S : m <= n
    BY <1>8, <2>1, <2>2, GreatestOf
  <2> QED
    BY <2>3
<1>13. IsThrough(log, r, c, t)
  <2>1. ASSUME NEW m \in t + 1 .. end
        PROVE  Cardinality(sent(m)) > MaxRemote
    <3>1. m \in c .. end /\ ~(m <= t) /\ m \in Nat
      BY <1>8, <1>12
    <3>2. ~(Cardinality(sent(m)) <= MaxRemote) /\ Cardinality(sent(m)) \in Nat
      BY <1>10, <1>12, <3>1
    <3> HIDE DEF sent
    <3> QED
      BY <3>2, LimitsAssumption
  <2> QED
    BY <1>12, <2>1 DEF IsThrough, end
<1>14. \A n \in NeedPayload(log, r, c) : ~log[n].compacted
  <2> SUFFICES ASSUME NEW n \in NeedPayload(log, r, c) PROVE ~log[n].compacted
    OBVIOUS
  <2>1. n \in c + 1 .. end /\ ~(Prefix(log, n) \subseteq persisted)
    BY <1>1 DEF NeedPayload, end
  <2>2. n \in 1 .. Len(rows)
    BY <1>4, <1>8, <2>1
  <2>3. Prefix(log, n) = Prefix(rows, n) /\ log[n] = rows[n]
    BY <1>4, <1>5, <2>2
  <2> QED
    BY <2>1, <2>2, <2>3 DEF Covers
<1>15. persisted \subseteq Prefix(log, Len(log))
  BY <1>4, <1>5 DEF Document
<1> DEFINE plan == [order |-> << >>, confirmed |-> c, through |-> t]
<1>16. t \in 0 .. Len(log) /\ c <= t /\ t <= end
  BY <1>4, <1>8, <1>12
<1>17. plan \in PlansFor(r, << >>)
  BY <1>1, <1>6, <1>7, <1>13, <1>14, <1>15, <1>16 DEF PlansFor, log, end
<1> HIDE DEF plan
<1>18. plan \in Plans(r)
  BY <1>2, <1>3, <1>17 DEF Plans
<1> QED
  BY <1>18 DEF r

\* Payloads are forgotten from the first row on, never one that a device with a
\* recorded frontier lacks; and whoever has written has a recorded frontier.
ForgottenInOrder ==
    \A n \in 1 .. Len(rows) : rows[n].compacted => \A m \in 1 .. n : rows[m].compacted

WaitedFor ==
    \A d \in DOMAIN frontiers : authorization[d] # "revoked" => Covers(frontiers[d].persisted)

WritersKnown ==
    \A n \in 1 .. Len(rows) : rows[n].device \in DOMAIN frontiers \/ rows[n].id \in ServerUpdate

HistoryWaits == ForgottenInOrder /\ WaitedFor /\ WritersKnown

\* Devices do not use the identities of the server's commands.
Honest == {r \in Request : Ids(r) \cap ServerUpdate = {}}
HonestStep == [Next]_vars \/ \E r \in Honest : Sync(r)

LEMMA RequestsHonest == Requests \subseteq Honest
BY RequestsAssumption DEF Honest, Ids

\* A device that appears for the first time is refused, or holds all that was
\* forgotten: the first row it cannot prove it holds must still have its payload.
LEMMA NewcomerCovers ==
    ASSUME TypeOK, HistoryWaits, NEW r \in Honest, NEW p \in Plans(r),
           r.device \notin DOMAIN frontiers
    PROVE  Covers(r.persisted)
<1> SUFFICES ASSUME NEW n \in 1 .. Len(rows), rows[n].compacted
             PROVE  Prefix(rows, n) \subseteq r.persisted
  BY DEF Covers
<1> DEFINE log == AppendBatch(r, p.order)
           c == p.confirmed
<1>1. r \in Request /\ rows \in Seq(Row) /\ Len(rows) \in Nat /\ DOMAIN rows = 1 .. Len(rows)
  BY DEF Honest, TypeOK
<1>2. IdentitiesHold(r) /\ p.order \in ImportOrders(r) /\ c \in Nat
  BY <1>1, PlanFacts
<1>3. /\ IsConfirmedPrefix(log, r.persisted, c)
      /\ \A m \in NeedPayload(log, r, c) : ~log[m].compacted
  BY <1>1 DEF Plans, PlansFor
<1>4. /\ Len(log) \in Nat /\ Len(rows) <= Len(log)
      /\ \A m \in 1 .. Len(rows) : log[m] = rows[m]
  BY <1>1, <1>2, AppendBatchType
<1>5. \A m \in 0 .. Len(rows) : Prefix(log, m) = Prefix(rows, m)
  BY <1>1, <1>2, PrefixAppended
<1> HIDE DEF log, c
<1>6. CASE n <= c
  <2>1. Prefix(log, n) \subseteq Prefix(log, c)
    BY <1>2, <1>6 DEF Prefix
  <2> QED
    BY <1>1, <1>3, <1>5, <2>1 DEF IsConfirmedPrefix
<1>7. CASE c < n
  <2>1. c + 1 \in 1 .. n /\ c + 1 \in 1 .. Len(rows) /\ c + 1 \in c + 1 .. Len(log)
    BY <1>1, <1>2, <1>4, <1>7
  <2>2. log[c + 1] = rows[c + 1] /\ rows[c + 1].compacted
    BY <1>4, <2>1 DEF HistoryWaits, ForgottenInOrder
  <2>3. c + 1 \in c + 1 .. WindowEnd(log, c)
    BY <1>2, <1>4, <2>1, LimitsAssumption DEF WindowEnd
  <2>4. ~(Prefix(log, c + 1) \subseteq r.persisted)
    BY <1>3, <2>1 DEF IsConfirmedPrefix
  <2>5. log[c + 1].id \notin Ids(r)
    <3> SUFFICES ASSUME NEW i \in DOMAIN r.updates, rows[c + 1].id = r.updates[i].id
                 PROVE  FALSE
      BY <2>2 DEF Ids
    <3>1. rows[c + 1].device = r.device
      BY <1>1, <1>2, <2>1 DEF IdentitiesHold
    <3>2. rows[c + 1].id \notin ServerUpdate
      BY DEF Honest, Ids
    <3> QED
      BY <2>1, <3>1, <3>2 DEF HistoryWaits, WritersKnown
  <2>6. c + 1 \in NeedPayload(log, r, c)
    BY <2>3, <2>4, <2>5 DEF NeedPayload
  <2> QED
    BY <1>3, <2>2, <2>6
<1> QED
  BY <1>1, <1>2, <1>6, <1>7

\* After a request its device is recorded, and nobody else is new.
LEMMA ConfirmedDevices ==
    ASSUME NEW r, NEW confirmed
    PROVE  DOMAIN Confirmed(r, confirmed) = DOMAIN frontiers \cup {r.device}
<1> DEFINE known == r.device \in DOMAIN frontiers
           reached == IF known /\ frontiers[r.device].confirmed > confirmed
                      THEN frontiers[r.device].confirmed ELSE confirmed
           moved == [d \in DOMAIN frontiers \cup {r.device} |->
                       IF d = r.device
                       THEN [persisted |-> r.persisted, confirmed |-> reached,
                             state |-> "authorized"]
                       ELSE frontiers[d]]
           advances == ~known \/ frontiers[r.device].persisted \subseteq r.persisted
           changes == ~known \/ frontiers[r.device].persisted # r.persisted
                             \/ frontiers[r.device].confirmed # reached
<1>1. Confirmed(r, confirmed) = IF advances /\ changes THEN moved ELSE frontiers
  BY DEF Confirmed
<1>2. DOMAIN moved = DOMAIN frontiers \cup {r.device}
  OBVIOUS
<1>3. ~known => advances /\ changes
  OBVIOUS
<1> HIDE DEF moved, advances, changes
<1> QED
  BY <1>1, <1>2, <1>3

\* Rows at the end change nothing for the devices there were.
LEMMA StillCovers ==
    ASSUME TypeOK, TypeOK', RowsKept,
           \A n \in 1 .. Len(rows') :
              rows'[n].compacted => n \in 1 .. Len(rows) /\ rows[n].compacted,
           NEW persisted, Covers(persisted)
    PROVE  \A n \in 1 .. Len(rows') : rows'[n].compacted => Prefix(rows', n) \subseteq persisted
<1> SUFFICES ASSUME NEW n \in 1 .. Len(rows'), rows'[n].compacted
             PROVE  Prefix(rows', n) \subseteq persisted
  OBVIOUS
<1>1. n \in 1 .. Len(rows) /\ rows[n].compacted
  OBVIOUS
<1>2. Prefix(rows', n) = Prefix(rows, n)
  BY <1>1, PrefixesStay
<1> QED
  BY <1>1, <1>2 DEF Covers

LEMMA HistoryWaitsInit == Init => HistoryWaits
BY DEF Init, HistoryWaits, ForgottenInOrder, WaitedFor, WritersKnown

LEMMA HistoryWaitsSync ==
    ASSUME TypeOK, TypeOK', RowsKept, HistoryWaits, NEW r \in Honest, Sync(r)
    PROVE  HistoryWaits'
<1>1. r \in Request /\ rows \in Seq(Row) /\ Len(rows) \in Nat
  BY DEF Honest, TypeOK
<1>2. PICK p \in Plans(r) : /\ rows' = AppendBatch(r, p.order)
                            /\ frontiers' = Confirmed(r, p.confirmed)
  BY <1>1, SyncPlanned DEF SyncWrites
<1>3. authorization' = authorization
  BY <1>1, SyncPlanned
<1>4. p.order \in ImportOrders(r) /\ IdentitiesHold(r) /\ p.confirmed \in Nat
  BY <1>1, PlanFacts
<1>5. /\ Len(rows') \in Nat /\ Len(rows) <= Len(rows')
      /\ \A n \in 1 .. Len(rows) : rows'[n] = rows[n]
  BY <1>1, <1>2, <1>4, AppendBatchType
<1>6. \A n \in Len(rows) + 1 .. Len(rows') : rows'[n].compacted = FALSE /\ rows'[n].device = r.device
  <2>1. \A n \in Len(rows) + 1 .. Len(rows') : rows'[n].compacted = FALSE
    BY <1>1, <1>2, <1>4, AppendedRows
  <2>2. ASSUME NEW n \in Len(rows) + 1 .. Len(rows')
        PROVE  rows'[n].device = r.device
    <3>1. /\ Len(rows') = Len(rows) + Len(p.order) /\ Len(p.order) \in Nat
          /\ \A k \in 1 .. Len(p.order) : rows'[Len(rows) + k] = BatchRow(r, p.order[k])
      BY <1>1, <1>2, <1>4, AppendBatchType
    <3>2. n - Len(rows) \in 1 .. Len(p.order) /\ Len(rows) + (n - Len(rows)) = n
      BY <1>1, <3>1
    <3>3. rows'[n] = BatchRow(r, p.order[n - Len(rows)])
      BY <3>1, <3>2
    <3>4. BatchRow(r, p.order[n - Len(rows)]).device = r.device
      BY DEF BatchRow
    <3> QED
      BY <3>3, <3>4, Zenon
  <2> QED
    BY <2>1, <2>2
<1>7. \A n \in 1 .. Len(rows') : n \in 1 .. Len(rows) \/ n \in Len(rows) + 1 .. Len(rows')
  BY <1>1, <1>5
<1>8. \A n \in 1 .. Len(rows') :
         rows'[n].compacted => n \in 1 .. Len(rows) /\ rows[n].compacted
  BY <1>5, <1>6, <1>7
<1>9. DOMAIN frontiers' = DOMAIN frontiers \cup {r.device}
  BY <1>2, ConfirmedDevices
<1>10. ForgottenInOrder'
  <2> SUFFICES ASSUME NEW n \in 1 .. Len(rows'), rows'[n].compacted, NEW m \in 1 .. n
               PROVE  rows'[m].compacted
    BY DEF ForgottenInOrder
  <2>1. n \in 1 .. Len(rows) /\ rows[n].compacted
    BY <1>8
  <2>2. m \in 1 .. Len(rows) /\ rows[m].compacted
    BY <1>1, <2>1 DEF HistoryWaits, ForgottenInOrder
  <2> QED
    BY <1>5, <2>2
<1>11. WritersKnown'
  BY <1>5, <1>6, <1>7, <1>9 DEF HistoryWaits, WritersKnown
<1>12. WaitedFor'
  <2> SUFFICES ASSUME NEW d \in DOMAIN frontiers', authorization'[d] # "revoked",
                      NEW n \in 1 .. Len(rows'), rows'[n].compacted
               PROVE  Prefix(rows', n) \subseteq frontiers'[d].persisted
    BY DEF WaitedFor, Covers
  <2>1. \/ d \in DOMAIN frontiers /\ frontiers'[d] = frontiers[d]
        \/ /\ frontiers'[d].persisted = r.persisted
           /\ d \in DOMAIN frontiers => frontiers[d].persisted \subseteq r.persisted
    BY <1>1, <1>2, <1>4, ConfirmedCases
  <2>2. CASE d \in DOMAIN frontiers
    <3>1. Covers(frontiers[d].persisted)
      BY <1>3, <2>2 DEF HistoryWaits, WaitedFor
    <3>2. Prefix(rows', n) \subseteq frontiers[d].persisted
      BY <1>8, <3>1, StillCovers
    <3> QED
      BY <2>1, <2>2, <3>2
  <2>3. CASE d \notin DOMAIN frontiers
    <3>1. Covers(r.persisted)
      BY <1>9, <2>3, NewcomerCovers
    <3>2. Prefix(rows', n) \subseteq r.persisted
      BY <1>8, <3>1, StillCovers
    <3> QED
      BY <2>1, <2>3, <3>2
  <2> QED
    BY <2>2, <2>3
<1> QED
  BY <1>10, <1>11, <1>12 DEF HistoryWaits

LEMMA HistoryWaitsServerCommand ==
    ASSUME TypeOK, TypeOK', RowsKept, HistoryWaits,
           NEW u \in ServerUpdate, NEW d \in Device, ApplyServerCommands(u, d)
    PROVE  HistoryWaits'
<1> DEFINE row == [id |-> u, device |-> d, base |-> Document, compacted |-> FALSE]
<1>1. /\ rows' = Append(rows, row)
      /\ UNCHANGED <<frontiers, authorization>>
  BY DEF ApplyServerCommands
<1>2. row.id = u /\ row.compacted = FALSE
  OBVIOUS
<1> HIDE DEF row
<1>3. rows \in Seq(Row) /\ Len(rows) \in Nat
  BY DEF TypeOK
<1>4. /\ Len(rows') = Len(rows) + 1
      /\ rows'[Len(rows) + 1] = row
      /\ \A n \in 1 .. Len(rows) : rows'[n] = rows[n]
  BY <1>1, <1>3
<1>5. \A n \in 1 .. Len(rows') : n \in 1 .. Len(rows) \/ n = Len(rows) + 1
  BY <1>3, <1>4
<1>6. \A n \in 1 .. Len(rows') :
         rows'[n].compacted => n \in 1 .. Len(rows) /\ rows[n].compacted
  BY <1>2, <1>4, <1>5
<1>7. ForgottenInOrder'
  <2> SUFFICES ASSUME NEW n \in 1 .. Len(rows'), rows'[n].compacted, NEW m \in 1 .. n
               PROVE  rows'[m].compacted
    BY DEF ForgottenInOrder
  <2>1. n \in 1 .. Len(rows) /\ rows[n].compacted
    BY <1>6
  <2>2. m \in 1 .. Len(rows) /\ rows[m].compacted
    BY <1>3, <2>1 DEF HistoryWaits, ForgottenInOrder
  <2> QED
    BY <1>4, <2>2
<1>8. WritersKnown'
  BY <1>1, <1>2, <1>4, <1>5 DEF HistoryWaits, WritersKnown
<1>9. WaitedFor'
  <2> SUFFICES ASSUME NEW e \in DOMAIN frontiers, authorization[e] # "revoked",
                      NEW n \in 1 .. Len(rows'), rows'[n].compacted
               PROVE  Prefix(rows', n) \subseteq frontiers[e].persisted
    BY <1>1 DEF WaitedFor, Covers
  <2>1. Covers(frontiers[e].persisted)
    BY DEF HistoryWaits, WaitedFor
  <2> QED
    BY <1>6, <2>1, StillCovers
<1> QED
  BY <1>7, <1>8, <1>9 DEF HistoryWaits

\* What a compaction forgets, every device it waits for has confirmed.
LEMMA HistoryWaitsCompact ==
    ASSUME TypeOK, TypeOK', RowsKept, HistoryWaits, NEW c \in DOMAIN checkpoints, Compact(c)
    PROVE  HistoryWaits'
<1>1. /\ rows' = [n \in DOMAIN rows |->
                    IF n <= c THEN [rows[n] EXCEPT !.compacted = TRUE] ELSE rows[n]]
      /\ authorization' = authorization /\ MarkRevoked /\ Lagging(c) = {} /\ c <= Len(rows)
  BY DEF Compact, MayCompact
<1>2. /\ Len(rows) \in Nat /\ DOMAIN rows = 1 .. Len(rows) /\ c \in Nat
      /\ \A n \in 1 .. Len(rows) : rows[n] \in Row
  BY DEF TypeOK
<1>3. Len(rows') = Len(rows)
  BY <1>1, <1>2 DEF TypeOK
<1>4. \A n \in 1 .. Len(rows) :
         /\ rows'[n].id = rows[n].id /\ rows'[n].device = rows[n].device
         /\ rows'[n].compacted = (n <= c \/ rows[n].compacted)
  BY <1>1, <1>2 DEF Row
<1>5. /\ DOMAIN frontiers' = DOMAIN frontiers
      /\ \A d \in DOMAIN frontiers : frontiers'[d].persisted = frontiers[d].persisted
  <2>1. \A d \in DOMAIN frontiers : frontiers[d] \in DeviceFrontier
    BY DEF TypeOK
  <2>2. \A d \in DOMAIN frontiers :
           frontiers'[d] \in {frontiers[d], [frontiers[d] EXCEPT !.state = "revoked"]}
    BY <1>1 DEF MarkRevoked
  <2>3. \A d \in DOMAIN frontiers :
           [frontiers[d] EXCEPT !.state = "revoked"].persisted = frontiers[d].persisted
    BY <2>1 DEF DeviceFrontier
  <2> QED
    BY <1>1, <2>2, <2>3 DEF MarkRevoked
<1>6. ForgottenInOrder'
  <2> SUFFICES ASSUME NEW n \in 1 .. Len(rows), rows'[n].compacted, NEW m \in 1 .. n
               PROVE  rows'[m].compacted
    BY <1>3 DEF ForgottenInOrder
  <2>1. m \in 1 .. Len(rows) /\ (n <= c => m <= c)
    BY <1>2
  <2>2. n <= c \/ rows[n].compacted
    BY <1>4
  <2>3. rows[n].compacted => rows[m].compacted
    BY DEF HistoryWaits, ForgottenInOrder
  <2> QED
    BY <1>4, <2>1, <2>2, <2>3
<1>7. WritersKnown'
  BY <1>3, <1>4, <1>5 DEF HistoryWaits, WritersKnown
<1>8. WaitedFor'
  <2> SUFFICES ASSUME NEW d \in DOMAIN frontiers, authorization[d] # "revoked",
                      NEW n \in 1 .. Len(rows), rows'[n].compacted
               PROVE  Prefix(rows', n) \subseteq frontiers[d].persisted
    BY <1>1, <1>3, <1>5 DEF WaitedFor, Covers
  <2>1. Prefix(rows', n) = Prefix(rows, n)
    BY <1>2, PrefixesStay
  <2>2. CASE rows[n].compacted
    BY <2>1, <2>2 DEF HistoryWaits, WaitedFor, Covers
  <2>3. CASE n <= c
    <3>1. Prefix(rows, n) \subseteq Prefix(rows, c)
      BY <1>2, <2>3 DEF Prefix
    <3>2. Prefix(rows, c) \subseteq frontiers[d].persisted
      BY <1>1 DEF Lagging
    <3> QED
      BY <2>1, <3>1, <3>2
  <2> QED
    BY <1>4, <2>2, <2>3
<1> QED
  BY <1>6, <1>7, <1>8 DEF HistoryWaits

\* A device that comes back was not revoked before.
LEMMA HistoryWaitsElse ==
    ASSUME TypeOK, HistoryWaits, UNCHANGED rows,
           \/ UNCHANGED frontiers
           \/ MarkRevoked,
           \/ UNCHANGED authorization
           \/ \E d \in Managed : RequireDeviceReauthorization(d) \/ Reauthorize(d) \/ RevokeDevice(d)
    PROVE  HistoryWaits'
<1>1. /\ DOMAIN frontiers' = DOMAIN frontiers
      /\ \A d \in DOMAIN frontiers : frontiers'[d].persisted = frontiers[d].persisted
  <2>1. \A d \in DOMAIN frontiers : frontiers[d] \in DeviceFrontier
    BY DEF TypeOK
  <2>2. \A d \in DOMAIN frontiers :
           [frontiers[d] EXCEPT !.state = "revoked"].persisted = frontiers[d].persisted
    BY <2>1 DEF DeviceFrontier
  <2>3. CASE UNCHANGED frontiers
    BY <2>3
  <2>4. CASE MarkRevoked
    <3>1. /\ DOMAIN frontiers' = DOMAIN frontiers
          /\ \A d \in DOMAIN frontiers :
                frontiers'[d] \in {frontiers[d], [frontiers[d] EXCEPT !.state = "revoked"]}
      BY <2>4 DEF MarkRevoked
    <3> QED
      BY <2>2, <3>1
  <2> QED
    BY <2>3, <2>4
<1>2. \A d \in DOMAIN frontiers : authorization'[d] # "revoked" => authorization[d] # "revoked"
  <2>1. ASSUME NEW d \in Device, NEW from, NEW to, Authorize(d, from, to), "revoked" \notin from
        PROVE  \A e \in Device : authorization'[e] # "revoked" => authorization[e] # "revoked"
    BY <2>1 DEF Authorize, TypeOK
  <2>2. \A d \in Managed : d \in Device
    BY RequestsAssumption
  <2>3. ASSUME NEW d \in Managed,
               RequireDeviceReauthorization(d) \/ Reauthorize(d) \/ RevokeDevice(d)
        PROVE  \A e \in Device : authorization'[e] # "revoked" => authorization[e] # "revoked"
    BY <2>1, <2>2, <2>3 DEF RequireDeviceReauthorization, Reauthorize, RevokeDevice
  <2> QED
    BY <2>3 DEF TypeOK
<1> QED
  BY <1>1, <1>2 DEF HistoryWaits, ForgottenInOrder, WaitedFor, WritersKnown, Covers, Prefix

LEMMA HonestIsLogStep == HonestStep => LogStep
BY DEF HonestStep, LogStep, Honest

LEMMA HistoryWaitsStep == TypeOK /\ HistoryWaits /\ HonestStep => HistoryWaits'
<1> SUFFICES ASSUME TypeOK, HistoryWaits, HonestStep PROVE HistoryWaits'
  OBVIOUS
<1>0. TypeOK' /\ RowsKept
  BY HonestIsLogStep, TypeStep, RowsKeptStep
<1>1. ASSUME NEW r \in Honest, Sync(r) PROVE HistoryWaits'
  BY <1>0, <1>1, HistoryWaitsSync
<1>2. ASSUME NEW u \in ServerUpdate, NEW d \in Device, ApplyServerCommands(u, d) PROVE HistoryWaits'
  BY <1>0, <1>2, HistoryWaitsServerCommand
<1>3. ASSUME NEW c \in DOMAIN checkpoints, Compact(c) PROVE HistoryWaits'
  BY <1>0, <1>3, HistoryWaitsCompact
<1>4. CASE UNCHANGED <<rows, authorization>> /\ (UNCHANGED frontiers \/ MarkRevoked)
  BY <1>4, HistoryWaitsElse
<1>5. ASSUME NEW d \in Managed,
             RequireDeviceReauthorization(d) \/ Reauthorize(d) \/ RevokeDevice(d)
      PROVE  HistoryWaits'
  <2>1. UNCHANGED rows /\ UNCHANGED frontiers
    BY <1>5 DEF RequireDeviceReauthorization, Reauthorize, RevokeDevice, Authorize
  <2> QED
    BY <1>5, <2>1, HistoryWaitsElse
<1> QED
  BY <1>1, <1>2, <1>3, <1>4, <1>5, RequestsHonest
  DEF HonestStep, Next, vars, RestoreRevision, ResolveAmbiguity, ConsolidateDue, CreateCandidate,
      VerifiedBackup, VerifyCandidate, CompactionBlocked

LEMMA WaitsSoCatchesUp ==
    TypeOK /\ Reloadable /\ FrontierProven /\ HistoryWaits => CanCatchUp
<1> SUFFICES ASSUME TypeOK, Reloadable, FrontierProven, HistoryWaits,
                    NEW d \in DOMAIN frontiers, authorization[d] # "revoked"
             PROVE  Plans([device |-> d, updates |-> << >>,
                           persisted |-> frontiers[d].persisted]) # {}
  BY DEF CanCatchUp
<1>1. /\ d \in Device /\ frontiers[d].persisted \in Frontier
      /\ frontiers[d].persisted \subseteq Document
  BY DEF TypeOK, DeviceFrontier, FrontierProven
<1>2. Covers(frontiers[d].persisted) /\ Loadable
  BY DEF HistoryWaits, WaitedFor, Reloadable
<1> QED
  BY <1>1, <1>2, PollIsAnswered

\* However long a device that is not revoked stays away, whatever is compacted
\* meanwhile, it is answered from the frontier it confirmed.
THEOREM AbsentDevicesCatchUp == Spec => []CanCatchUp
<1>1. Init => TypeOK /\ HistoryWaits
  BY TypeInit, HistoryWaitsInit
<1>2. TypeOK /\ HistoryWaits /\ [Next]_vars => (TypeOK /\ HistoryWaits)'
  BY TypeStep, HistoryWaitsStep DEF LogStep, HonestStep
<1> QED
  BY <1>1, <1>2, WaitsSoCatchesUp, AlwaysReloadable, FrontiersAreProven, PTL DEF Spec


-----------------------------------------------------------------------------
(* Work written offline can be compared with what the page became.         *)

\* What compaction forgot is what the current snapshot trimmed: the rows below
\* its floor, up to a checkpoint that still exists.  Every row that stays was
\* authored on top of it, and a checkpoint still to come trims up to itself.
Trimmed ==
    LET floor == checkpoints[current].floor
    IN  /\ floor \in DOMAIN checkpoints
        /\ \A n \in 1 .. Len(rows) : rows[n].compacted <=> n <= floor
        /\ \A n \in 1 .. Len(rows) : n > floor => Importable(rows[n].base)
        /\ \A c \in DOMAIN checkpoints : c > current => checkpoints[c].floor = c

LEMMA TrimmedInit == Init => Trimmed
<1> SUFFICES ASSUME Init PROVE Trimmed
  OBVIOUS
<1>1. /\ checkpoints[0].floor = 0 /\ DOMAIN checkpoints = {0} /\ current = 0
      /\ 1 .. Len(rows) = {}
  BY DEF Init
<1> QED
  BY <1>1 DEF Trimmed

\* A step that keeps the floor and the rows, and adds importable ones.
LEMMA StillTrimmed ==
    ASSUME Rebuildable, TypeOK', Trimmed, current <= current',
           checkpoints'[current'].floor = checkpoints[current].floor,
           DOMAIN checkpoints \subseteq DOMAIN checkpoints',
           \A c \in DOMAIN checkpoints : checkpoints'[c].floor = checkpoints[c].floor,
           \A c \in DOMAIN checkpoints' \ DOMAIN checkpoints :
              c > current' => checkpoints'[c].floor = c,
           Len(rows) <= Len(rows'),
           \A n \in 1 .. Len(rows) : rows'[n] = rows[n],
           \A n \in Len(rows) + 1 .. Len(rows') :
              rows'[n].compacted = FALSE /\ Importable(rows'[n].base)
    PROVE  Trimmed'
<1> DEFINE floor == checkpoints[current].floor
<1>1. /\ Len(rows) \in Nat /\ Len(rows') \in Nat
      /\ current \in Nat /\ current' \in Nat /\ current <= Len(rows)
      /\ DOMAIN checkpoints' \subseteq Nat
      /\ current \in DOMAIN checkpoints /\ current' \in DOMAIN checkpoints'
  BY DEF Rebuildable, TypeOK
<1>2. floor \in Nat /\ floor <= current /\ floor \in 0 .. Len(rows)
  <2>1. checkpoints[current] \in Checkpoint
    BY DEF Rebuildable, TypeOK
  <2> QED
    BY <1>1, <2>1 DEF Rebuildable, FloorsBounded, Checkpoint
<1>3. Prefix(rows', floor) = Prefix(rows, floor)
  <2>1. \A m \in 1 .. Len(rows) : rows'[m].id = rows[m].id
    OBVIOUS
  <2> HIDE DEF floor
  <2> QED
    BY <1>1, <1>2, <2>1, PrefixKept
<1>4. /\ floor \in DOMAIN checkpoints
      /\ \A n \in 1 .. Len(rows) : rows[n].compacted <=> n <= floor
      /\ \A n \in 1 .. Len(rows) : n > floor => Prefix(rows, floor) \subseteq rows[n].base
      /\ \A c \in DOMAIN checkpoints : c > current => checkpoints[c].floor = c
  BY DEF Trimmed, Importable
<1>5. \A n \in Len(rows) + 1 .. Len(rows') :
         rows'[n].compacted = FALSE /\ Prefix(rows, floor) \subseteq rows'[n].base
  BY DEF Importable
<1>6. checkpoints'[current'].floor = floor
  OBVIOUS
<1> HIDE DEF floor
<1>7. ASSUME NEW n \in 1 .. Len(rows')
      PROVE  /\ rows'[n].compacted <=> n <= floor
             /\ n > floor => Prefix(rows, floor) \subseteq rows'[n].base
  <2>1. CASE n \in 1 .. Len(rows)
    BY <1>4, <2>1
  <2>2. CASE n \in Len(rows) + 1 .. Len(rows')
    <3>1. ~(n <= floor)
      BY <1>1, <1>2, <2>2
    <3> QED
      BY <1>5, <2>2, <3>1
  <2> QED
    BY <1>1, <2>1, <2>2
<1>8. ASSUME NEW c \in DOMAIN checkpoints', c > current'
      PROVE  checkpoints'[c].floor = c
  <2>1. CASE c \in DOMAIN checkpoints
    <3>1. c > current
      BY <1>1, <1>8
    <3> QED
      BY <1>4, <2>1, <3>1
  <2> QED
    BY <1>8, <2>1
<1> QED
  BY <1>3, <1>4, <1>6, <1>7, <1>8 DEF Trimmed, Importable

LEMMA TrimmedSync ==
    ASSUME Rebuildable, TypeOK', Trimmed, NEW r \in Request, Sync(r)
    PROVE  Trimmed'
<1>1. PICK p \in Plans(r) : rows' = AppendBatch(r, p.order)
  BY SyncPlanned DEF SyncWrites
<1>2. rows \in Seq(Row)
  BY DEF Rebuildable, TypeOK
<1>3. p.order \in ImportOrders(r) /\ IdentitiesHold(r)
  BY <1>2, PlanFacts
<1>4. Len(rows) <= Len(rows') /\ \A n \in 1 .. Len(rows) : rows'[n] = rows[n]
  BY <1>1, <1>2, <1>3, AppendBatchType
<1>5. \A n \in Len(rows) + 1 .. Len(rows') :
         rows'[n].compacted = FALSE /\ Importable(rows'[n].base)
  BY <1>1, <1>2, <1>3, AppendedRows
<1>6. /\ current <= current'
      /\ checkpoints'[current'].floor = checkpoints[current].floor
      /\ DOMAIN checkpoints \subseteq DOMAIN checkpoints'
      /\ \A c \in DOMAIN checkpoints : checkpoints'[c].floor = checkpoints[c].floor
      /\ \A c \in DOMAIN checkpoints' \ DOMAIN checkpoints : c = current'
  BY SyncCheckpoints
<1>7. \A c \in DOMAIN checkpoints' \ DOMAIN checkpoints :
         c > current' => checkpoints'[c].floor = c
  <2>1. current' \in Nat
    BY DEF TypeOK
  <2> QED
    BY <1>6, <2>1
<1> QED
  BY <1>4, <1>5, <1>6, <1>7, StillTrimmed

LEMMA TrimmedServerCommand ==
    ASSUME Rebuildable, TypeOK', Trimmed, NEW u \in ServerUpdate, NEW d \in Device,
           ApplyServerCommands(u, d)
    PROVE  Trimmed'
<1> DEFINE row == [id |-> u, device |-> d, base |-> Document, compacted |-> FALSE]
<1>1. /\ rows \in Seq(Row) /\ Len(rows) \in Nat
      /\ current \in 0 .. Len(rows) /\ current \in DOMAIN checkpoints
      /\ \A c \in DOMAIN checkpoints : checkpoints[c] \in Checkpoint
      /\ FloorsBounded
  BY DEF Rebuildable, TypeOK
<1>2. row.base = Document /\ row.compacted = FALSE /\ rows' = Append(rows, row)
  BY DEF ApplyServerCommands
<1> HIDE DEF row
<1>3. /\ Len(rows') = Len(rows) + 1 /\ rows'[Len(rows) + 1] = row
      /\ \A n \in 1 .. Len(rows) : rows'[n] = rows[n]
  BY <1>1, <1>2
<1>4. Importable(Document)
  <2>1. checkpoints[current].floor \in 0 .. Len(rows)
    BY <1>1 DEF FloorsBounded, Checkpoint
  <2> QED
    BY <1>1, <2>1, PrefixGrows DEF Importable, Document
<1>5. \A n \in Len(rows) + 1 .. Len(rows') :
         rows'[n].compacted = FALSE /\ Importable(rows'[n].base)
  <2>1. \A n \in Len(rows) + 1 .. Len(rows') : n = Len(rows) + 1
    BY <1>1, <1>3
  <2> QED
    BY <1>2, <1>3, <1>4, <2>1
<1>6. /\ current' = current /\ DOMAIN checkpoints' = DOMAIN checkpoints
      /\ \A c \in DOMAIN checkpoints : checkpoints'[c].floor = checkpoints[c].floor
  <2>1. \A c \in DOMAIN checkpoints :
           [checkpoints[c] EXCEPT !.revision = "stale"].floor = checkpoints[c].floor
    BY <1>1 DEF Checkpoint
  <2>2. current' = current /\ checkpoints' =
           [c \in DOMAIN checkpoints |-> [checkpoints[c] EXCEPT !.revision = "stale"]]
    BY DEF ApplyServerCommands
  <2> QED
    BY <2>1, <2>2
<1>7. current <= current' /\ Len(rows) <= Len(rows')
  BY <1>1, <1>3, <1>6
<1>8. checkpoints'[current'].floor = checkpoints[current].floor
  BY <1>1, <1>6
<1> QED
  BY <1>3, <1>5, <1>6, <1>7, <1>8, StillTrimmed

LEMMA TrimmedCheckpointStep ==
    ASSUME Rebuildable, TypeOK', Trimmed,
           ConsolidateDue \/ CreateCandidate \/ VerifiedBackup
               \/ \E c \in DOMAIN checkpoints : VerifyCandidate(c)
    PROVE  Trimmed'
<1>1. /\ Len(rows) \in Nat
      /\ current \in 0 .. Len(rows) /\ current \in DOMAIN checkpoints
      /\ \A c \in DOMAIN checkpoints : checkpoints[c] \in Checkpoint
  BY DEF Rebuildable, TypeOK
<1>2. rows' = rows /\ current' = current
  BY DEF ConsolidateDue, CreateCandidate, VerifiedBackup, VerifyCandidate
<1>3. /\ DOMAIN checkpoints \subseteq DOMAIN checkpoints'
      /\ \A c \in DOMAIN checkpoints : checkpoints'[c].floor = checkpoints[c].floor
      /\ \A c \in DOMAIN checkpoints' \ DOMAIN checkpoints : checkpoints'[c].floor = c
  <2>1. CASE ConsolidateDue
    BY <1>1, <2>1, ConsolidatedFields DEF ConsolidateDue
  <2>2. CASE CreateCandidate
    BY <1>1, <2>2 DEF CreateCandidate
  <2>3. CASE VerifiedBackup
    <3>1. \A c \in DOMAIN checkpoints :
             [checkpoints[c] EXCEPT !.covered = TRUE].floor = checkpoints[c].floor
      BY <1>1 DEF Checkpoint
    <3> QED
      BY <2>3, <3>1 DEF VerifiedBackup
  <2>4. ASSUME NEW e \in DOMAIN checkpoints, VerifyCandidate(e)
        PROVE  <1>3
    <3> DEFINE verified == [checkpoints[e] EXCEPT !.state = "verified"]
    <3>1. verified.floor = checkpoints[e].floor
      BY <1>1 DEF Checkpoint
    <3>2. checkpoints' = [checkpoints EXCEPT ![e] = verified]
      BY <2>4 DEF VerifyCandidate
    <3> HIDE DEF verified
    <3> QED
      BY <3>1, <3>2
  <2> QED
    BY <2>1, <2>2, <2>3, <2>4
<1>4. Len(rows) + 1 .. Len(rows') = {} /\ current <= current' /\ Len(rows) <= Len(rows')
  BY <1>1, <1>2
<1>5. checkpoints'[current'].floor = checkpoints[current].floor
  BY <1>1, <1>2, <1>3
<1> QED
  BY <1>2, <1>3, <1>4, <1>5, StillTrimmed

\* Compaction forgets every row, up to the candidate it makes current.
LEMMA TrimmedCompact ==
    ASSUME Rebuildable, TypeOK', Trimmed, NEW c \in DOMAIN checkpoints, Compact(c)
    PROVE  Trimmed'
<1>1. /\ \A e \in DOMAIN checkpoints : checkpoints[e] \in Checkpoint
      /\ CompactionAtHead
      /\ rows \in Seq(Row) /\ Len(rows) \in Nat /\ DOMAIN rows = 1 .. Len(rows)
      /\ current \in Nat
  BY DEF Rebuildable, TypeOK
<1>2. /\ current' = c /\ checkpoints' = Promoted(checkpoints, current, c)
      /\ current < c /\ HistoryAllows(c)
      /\ rows' = [n \in DOMAIN rows |->
                    IF n <= c THEN [rows[n] EXCEPT !.compacted = TRUE] ELSE rows[n]]
  BY DEF Compact, MayCompact
<1>3. c = Len(rows) /\ Len(rows') = Len(rows)
  BY <1>1, <1>2 DEF CompactionAtHead
<1>4. /\ DOMAIN checkpoints' = DOMAIN checkpoints
      /\ \A e \in DOMAIN checkpoints : checkpoints'[e].floor = checkpoints[e].floor
  BY <1>1, <1>2, PromotedFields
<1>5. checkpoints[c].floor = c
  BY <1>2 DEF Trimmed
<1>6. checkpoints'[current'].floor = c
  BY <1>2, <1>4, <1>5
<1>7. \A n \in 1 .. Len(rows') : rows'[n].compacted /\ n <= c
  <2> SUFFICES ASSUME NEW n \in 1 .. Len(rows') PROVE rows'[n].compacted /\ n <= c
    OBVIOUS
  <2>1. n \in 1 .. Len(rows) /\ n <= c
    BY <1>1, <1>3
  <2>2. rows[n] \in Row
    BY <1>1, <2>1
  <2>3. rows'[n] = [rows[n] EXCEPT !.compacted = TRUE]
    BY <1>1, <1>2, <2>1
  <2> QED
    BY <2>1, <2>2, <2>3 DEF Row
<1>8. \A n \in 1 .. Len(rows') : ~(n > c)
  BY <1>1, <1>3
<1>9. \A e \in DOMAIN checkpoints' : ~(e > current')
  <2>1. \A e \in DOMAIN checkpoints : e \in 0 .. Len(rows)
    BY DEF Rebuildable, TypeOK
  <2> QED
    BY <1>1, <1>2, <1>3, <1>4, <2>1
<1> QED
  BY <1>4, <1>6, <1>7, <1>8, <1>9 DEF Trimmed

LEMMA TrimmedStep == Rebuildable /\ Trimmed /\ LogStep => Trimmed'
<1> SUFFICES ASSUME Rebuildable, Trimmed, LogStep, TypeOK' PROVE Trimmed'
  BY TypeStep DEF Rebuildable
<1>1. ASSUME NEW r \in Request, Sync(r) PROVE Trimmed'
  BY <1>1, TrimmedSync
<1>2. ASSUME NEW u \in ServerUpdate, NEW d \in Device, ApplyServerCommands(u, d) PROVE Trimmed'
  BY <1>2, TrimmedServerCommand
<1>3. CASE ConsolidateDue \/ CreateCandidate \/ VerifiedBackup
               \/ \E c \in DOMAIN checkpoints : VerifyCandidate(c)
  BY <1>3, TrimmedCheckpointStep
<1>4. ASSUME NEW c \in DOMAIN checkpoints, Compact(c) PROVE Trimmed'
  BY <1>4, TrimmedCompact
<1>5. CASE UNCHANGED <<rows, checkpoints, current>>
  BY <1>5 DEF Trimmed, Importable, Prefix
<1> QED
  BY <1>1, <1>2, <1>3, <1>4, <1>5, RequestsAssumption
  DEF LogStep, Next, vars, RestoreRevision, ResolveAmbiguity, CompactionBlocked,
      RequireDeviceReauthorization, Reauthorize, RevokeDevice, Authorize

\* No update of a log was written on another one without what that one was
\* written on.
Whole(log) ==
    \A n \in 1 .. Len(log) : \A m \in 1 .. n - 1 :
        log[m].id \in log[n].base => log[m].base \subseteq log[n].base

\* The version vector of a replica dominates what its updates depend on: so
\* does that of every row, once a request is taken.
FrontiersWhole ==
    \A r \in Requests : \A p \in Plans(r) : Whole(AppendBatch(r, p.order))

\* A log of which exactly the first k rows are forgotten, in causal order.
Trims(log, k) ==
    /\ \A n \in 1 .. Len(log) : log[n].compacted <=> n <= k
    /\ \A n \in 1 .. Len(log) : n > k => Prefix(log, k) \subseteq log[n].base
    /\ \A n \in 1 .. Len(log) : log[n].base \subseteq Prefix(log, n - 1)

LEMMA FirstOfTrimmed ==
    ASSUME NEW log, Len(log) \in Nat, NEW k \in Nat, Trims(log, k), k < Len(log)
    PROVE  FirstRetained(log) = k + 1
<1>1. \A n : n \in Retained(log) <=> n \in 1 .. Len(log) /\ n > k
  BY DEF Trims, Retained
<1>2. k + 1 \in Retained(log) /\ \A m \in Retained(log) : k + 1 <= m
  BY <1>1
<1>3. \A n \in Retained(log) : (\A m \in Retained(log) : n <= m) => n = k + 1
  BY <1>1, <1>2
<1> HIDE DEF Retained
<1> QED
  BY <1>2, <1>3 DEF FirstRetained

\* Replayed alone from the checkpoint before the retained rows, a branch whose
\* frontiers are whole is the branch its author had.
LEMMA BranchesRebuild ==
    ASSUME NEW log, Len(log) \in Nat, NEW k \in Nat, Trims(log, k), k < Len(log),
           Whole(log), NEW tip \in Retained(log)
    PROVE  BranchRebuilds(log, tip)
<1> DEFINE within == {m \in Retained(log) : Authored(log[m]) \subseteq Authored(log[tip])}
           replayed == {log[n].id : n \in within}
<1>1. FirstRetained(log) - 1 = k
  <2>1. FirstRetained(log) = k + 1
    BY FirstOfTrimmed
  <2> QED
    BY <2>1
<1>2. tip \in 1 .. Len(log) /\ tip > k
  BY DEF Trims, Retained
<1>3. Prefix(log, k) \cup replayed \subseteq Authored(log[tip])
  <2>1. Prefix(log, k) \subseteq Authored(log[tip])
    BY <1>2 DEF Trims, Authored
  <2>2. \A n \in within : log[n].id \in Authored(log[tip])
    BY DEF Authored
  <2> QED
    BY <2>1, <2>2
<1>4. ASSUME NEW u \in Authored(log[tip])
      PROVE  u \in Prefix(log, k) \cup replayed
  <2>1. CASE u = log[tip].id
    <3>1. tip \in within
      OBVIOUS
    <3> QED
      BY <2>1, <3>1
  <2>2. CASE u \in log[tip].base
    <3>1. PICK m \in 1 .. tip - 1 : u = log[m].id
      BY <1>2, <2>2 DEF Trims, Prefix
    <3>2. m \in 1 .. Len(log)
      BY <1>2
    <3>3. CASE m <= k
      BY <3>1, <3>2, <3>3 DEF Prefix
    <3>4. CASE m > k
      <4>1. m \in Retained(log)
        BY <3>2, <3>4 DEF Trims, Retained
      <4>2. log[m].base \subseteq log[tip].base
        BY <1>2, <2>2, <3>1 DEF Whole
      <4>3. m \in within
        BY <2>2, <3>1, <4>1, <4>2 DEF Authored
      <4> QED
        BY <3>1, <4>3
    <3> QED
      BY <3>2, <3>3, <3>4
  <2> QED
    BY <2>1, <2>2 DEF Authored
<1>5. Authored(log[tip]) = Prefix(log, k) \cup replayed
  BY <1>3, <1>4
<1> HIDE DEF replayed
<1> QED
  BY <1>1, <1>5 DEF BranchRebuilds, replayed, within

\* The log a request would leave is trimmed where the log there is was.
LEMMA AppendedTrims ==
    ASSUME Rebuildable, CausalLog, Trimmed, NEW r \in Request, NEW p \in Plans(r)
    PROVE  LET log == AppendBatch(r, p.order)
               floor == checkpoints[current].floor
           IN  /\ Trims(log, floor)
               /\ Len(log) = Len(rows) + Len(p.order)
               /\ Len(p.order) \in Nat /\ DOMAIN p.order = 1 .. Len(p.order)
               /\ Len(rows) \in Nat /\ floor \in Nat /\ floor <= Len(rows)
<1> DEFINE log == AppendBatch(r, p.order)
           floor == checkpoints[current].floor
<1>1. rows \in Seq(Row) /\ Len(rows) \in Nat /\ DOMAIN rows = 1 .. Len(rows)
  BY DEF Rebuildable, TypeOK
<1>2. p.order \in ImportOrders(r) /\ IdentitiesHold(r)
  BY <1>1, PlanFacts
<1>3. /\ Len(log) = Len(rows) + Len(p.order) /\ Len(p.order) \in Nat
      /\ \A n \in 1 .. Len(rows) : log[n] = rows[n]
  BY <1>1, <1>2, AppendBatchType
<1>4. \A n \in Len(rows) + 1 .. Len(log) :
         /\ log[n].base \subseteq Prefix(log, n - 1)
         /\ log[n].compacted = FALSE
         /\ Prefix(rows, floor) \subseteq log[n].base
  BY <1>1, <1>2, AppendedRows DEF Importable
<1>5. floor \in Nat /\ floor <= Len(rows)
  <2>1. checkpoints[current] \in Checkpoint /\ current \in 0 .. Len(rows)
           /\ current \in DOMAIN checkpoints
    BY DEF Rebuildable, TypeOK
  <2> QED
    BY <1>1, <2>1 DEF Rebuildable, FloorsBounded, Checkpoint
<1>6. /\ \A n \in 1 .. Len(rows) : rows[n].compacted <=> n <= floor
      /\ \A n \in 1 .. Len(rows) : n > floor => Prefix(rows, floor) \subseteq rows[n].base
  BY DEF Trimmed, Importable
<1>7. DOMAIN p.order = 1 .. Len(p.order)
  BY <1>2, OrderType
<1>8. \A n \in 0 .. Len(rows) : Prefix(log, n) = Prefix(rows, n)
  BY <1>1, <1>2, PrefixAppended
<1> HIDE DEF log, floor
<1>9. ASSUME NEW n \in 1 .. Len(log)
      PROVE  /\ log[n].compacted <=> n <= floor
             /\ n > floor => Prefix(log, floor) \subseteq log[n].base
             /\ log[n].base \subseteq Prefix(log, n - 1)
  <2>1. Prefix(log, floor) = Prefix(rows, floor)
    BY <1>1, <1>5, <1>8
  <2>2. CASE n \in 1 .. Len(rows)
    <3>1. log[n] = rows[n]
      BY <1>3, <2>2
    <3>2. Prefix(log, n - 1) = Prefix(rows, n - 1)
      BY <1>1, <1>8, <2>2
    <3>3. rows[n].base \subseteq Prefix(rows, n - 1)
      BY <1>1, <2>2 DEF CausalLog
    <3> QED
      BY <1>6, <2>1, <2>2, <3>1, <3>2, <3>3
  <2>3. CASE n \in Len(rows) + 1 .. Len(log)
    <3>1. ~(n <= floor)
      BY <1>1, <1>5, <2>3
    <3> QED
      BY <1>4, <2>1, <2>3, <3>1
  <2> QED
    BY <1>1, <1>3, <2>2, <2>3
<1> QED
  BY <1>1, <1>3, <1>5, <1>7, <1>9 DEF Trims, log, floor

\* A request met by a log of whole frontiers has branches that compare.
LEMMA BranchesCompare ==
    ASSUME Rebuildable, CausalLog, Trimmed, NEW r \in Request, NEW p \in Plans(r),
           Whole(AppendBatch(r, p.order))
    PROVE  Detections(r, p) # {}
<1> DEFINE log == AppendBatch(r, p.order)
           floor == checkpoints[current].floor
<1>1. /\ Trims(log, floor)
      /\ Len(log) = Len(rows) + Len(p.order)
      /\ Len(p.order) \in Nat /\ DOMAIN p.order = 1 .. Len(p.order)
      /\ Len(rows) \in Nat /\ floor \in Nat /\ floor <= Len(rows)
  BY AppendedTrims
<1>2. Whole(log)
  OBVIOUS
<1>3. floor \in DOMAIN checkpoints
  BY DEF Trimmed
<1> DEFINE pairs == {{log[n].id, log[m].id} : n, m \in Tips(log)}
           hidden == \E n \in Tips(log) : ~(Authored(log[n]) \subseteq r.persisted)
           opened == {{[sources |-> pair, open |-> TRUE]} :
                         pair \in {q \in pairs : Cardinality(q) = 2}}
<1>4. Detections(r, p) =
         IF ~MustDetect(r, p) THEN {{}}
         ELSE IF FirstRetained(log) - 1 \notin DOMAIN checkpoints THEN {}
         ELSE IF Cardinality(Tips(log)) <= 1 \/ ~hidden THEN {{}}
         ELSE IF \E n \in Tips(log) : ~BranchRebuilds(log, n) THEN {}
         ELSE {{}} \cup opened
  BY DEF Detections
<1> HIDE DEF log, floor, pairs, hidden, opened
<1>5. CASE MustDetect(r, p)
  <2>1. Len(log) \in Nat /\ floor < Len(log)
    BY <1>1, <1>5 DEF MustDetect
  <2>2. FirstRetained(log) = floor + 1
    BY <1>1, <2>1, FirstOfTrimmed
  <2>3. FirstRetained(log) - 1 \in DOMAIN checkpoints
    BY <1>1, <1>3, <2>2
  <2>4. \A tip \in Tips(log) : BranchRebuilds(log, tip)
    BY <1>1, <1>2, <2>1, BranchesRebuild DEF Tips
  <2>5. {} \in Detections(r, p)
    BY <1>4, <1>5, <2>3, <2>4
  <2> QED
    BY <2>5
<1>6. CASE ~MustDetect(r, p)
  <2>1. {} \in Detections(r, p)
    BY <1>4, <1>6
  <2> QED
    BY <2>1
<1> QED
  BY <1>5, <1>6

LEMMA WholeBranchesCompare ==
    Rebuildable /\ CausalLog /\ Trimmed /\ FrontiersWhole => OfflineWorkComparable
BY BranchesCompare, RequestsAssumption DEF FrontiersWhole, OfflineWorkComparable

\* As long as devices write on frontiers a replica can have, no request that
\* could be taken is refused because its branch cannot be rebuilt: whatever was
\* rolled, consolidated, compacted or settled while the device was away.
THEOREM OfflineWorkCompares == Spec /\ []FrontiersWhole => []OfflineWorkComparable
<1>1. Init => Rebuildable /\ CausalLog /\ Trimmed
  BY TypeInit, HeadInit, ReloadableInit, CausalInit, TrimmedInit DEF Rebuildable
<1>2. Rebuildable /\ CausalLog /\ Trimmed /\ [Next]_vars => (Rebuildable /\ CausalLog /\ Trimmed)'
  BY ReloadableStep, CausalStep, TrimmedStep DEF LogStep, Rebuildable
<1> QED
  BY <1>1, <1>2, WholeBranchesCompare, PTL DEF Spec

\* The updates of the requests are written on whole frontiers of their own, and
\* not on a command of the server.
RequestsWhole ==
    /\ \A r, s \in Requests : \A i \in DOMAIN r.updates, j \in DOMAIN s.updates :
          r.updates[i].id \in s.updates[j].base
              => r.updates[i].base \subseteq s.updates[j].base
    /\ \A s \in Requests : \A j \in DOMAIN s.updates :
          s.updates[j].base \cap ServerUpdate = {}

\* Every row is a command of the server, on top of all there was, or an update
\* some request carries.
Written(row, before) ==
    \/ row.id \in ServerUpdate /\ row.base = before
    \/ \E s \in Requests : \E j \in DOMAIN s.updates :
          row.id = s.updates[j].id /\ row.base = s.updates[j].base

AllWritten == \A n \in 1 .. Len(rows) : Written(rows[n], Prefix(rows, n - 1))

LEMMA AppendedWritten ==
    ASSUME TypeOK, AllWritten, NEW r \in Requests, NEW p \in Plans(r)
    PROVE  LET log == AppendBatch(r, p.order)
           IN  \A n \in 1 .. Len(log) : Written(log[n], Prefix(log, n - 1))
<1> DEFINE log == AppendBatch(r, p.order)
<1>1. rows \in Seq(Row) /\ r \in Request
  BY RequestsAssumption DEF TypeOK
<1>2. p.order \in ImportOrders(r)
  BY <1>1, PlanFacts
<1>3. /\ Len(rows) \in Nat /\ Len(p.order) \in Nat
      /\ Len(log) = Len(rows) + Len(p.order)
      /\ \A n \in 1 .. Len(rows) : log[n] = rows[n]
      /\ \A k \in 1 .. Len(p.order) : log[Len(rows) + k] = BatchRow(r, p.order[k])
  BY <1>1, <1>2, AppendBatchType
<1>4. \A n \in 0 .. Len(rows) : Prefix(log, n) = Prefix(rows, n)
  BY <1>1, <1>2, PrefixAppended
<1>5. \A k \in 1 .. Len(p.order) : p.order[k] \in DOMAIN r.updates
  BY <1>1, <1>2, OrderType DEF NewIndexes
<1> HIDE DEF log
<1>6. ASSUME NEW n \in 1 .. Len(log)
      PROVE  Written(log[n], Prefix(log, n - 1))
  <2>1. CASE n \in 1 .. Len(rows)
    <3>1. log[n] = rows[n] /\ Prefix(log, n - 1) = Prefix(rows, n - 1)
      BY <1>3, <1>4, <2>1
    <3> QED
      BY <2>1, <3>1 DEF AllWritten
  <2>2. CASE n \in Len(rows) + 1 .. Len(log)
    <3> DEFINE k == n - Len(rows)
    <3>1. k \in 1 .. Len(p.order) /\ Len(rows) + k = n
      BY <1>3, <2>2
    <3> HIDE DEF k
    <3>2. log[n] = BatchRow(r, p.order[k]) /\ p.order[k] \in DOMAIN r.updates
      BY <1>3, <1>5, <3>1
    <3>3. log[n].id = r.updates[p.order[k]].id /\ log[n].base = r.updates[p.order[k]].base
      <4>1. /\ BatchRow(r, p.order[k]).id = r.updates[p.order[k]].id
            /\ BatchRow(r, p.order[k]).base = r.updates[p.order[k]].base
        BY BatchRowFields
      <4> QED
        BY <3>2, <4>1, Zenon
    <3> QED
      BY <3>2, <3>3 DEF Written
  <2> QED
    BY <1>3, <2>1, <2>2
<1> QED
  BY <1>6 DEF log

LEMMA WrittenStep == TypeOK /\ AllWritten /\ [Next]_vars => AllWritten'
<1> SUFFICES ASSUME TypeOK, AllWritten, [Next]_vars, TypeOK', RowsKept PROVE AllWritten'
  BY TypeStep, RowsKeptStep DEF LogStep
<1>0. rows \in Seq(Row) /\ Len(rows) \in Nat /\ DOMAIN rows = 1 .. Len(rows)
  BY DEF TypeOK
<1>1. ASSUME NEW r \in Requests, Sync(r) PROVE AllWritten'
  <2>1. PICK p \in Plans(r) : rows' = AppendBatch(r, p.order)
    BY <1>1 DEF Sync, SyncBy, SyncWrites
  <2>2. \A n \in 1 .. Len(rows') : Written(rows'[n], Prefix(rows', n - 1))
    BY <2>1, AppendedWritten
  <2> QED
    BY <2>2 DEF AllWritten
<1>2. ASSUME Len(rows') = Len(rows) PROVE AllWritten'
  <2> SUFFICES ASSUME NEW n \in 1 .. Len(rows') PROVE Written(rows'[n], Prefix(rows', n - 1))
    BY DEF AllWritten
  <2>1. n \in 1 .. Len(rows) /\ n - 1 \in 0 .. Len(rows) /\ rows[n] \in Row
    BY <1>0, <1>2
  <2>2. Prefix(rows', n - 1) = Prefix(rows, n - 1)
    BY <2>1, PrefixesStay
  <2>3. rows'[n].id = rows[n].id /\ rows'[n].base = rows[n].base
    <3>1. rows'[n] = rows[n] \/ rows'[n] = [rows[n] EXCEPT !.compacted = TRUE]
      BY <1>0, <2>1 DEF RowsKept
    <3> QED
      BY <2>1, <3>1 DEF Row
  <2> QED
    BY <2>1, <2>2, <2>3 DEF AllWritten, Written
<1>3. ASSUME NEW u \in ServerUpdate, NEW d \in Device, ApplyServerCommands(u, d)
      PROVE  AllWritten'
  <2> DEFINE row == [id |-> u, device |-> d, base |-> Document, compacted |-> FALSE]
  <2>1. rows' = Append(rows, row)
    BY <1>3 DEF ApplyServerCommands
  <2>2. row.id = u /\ row.base = Document
    OBVIOUS
  <2> HIDE DEF row
  <2>3. /\ Len(rows') = Len(rows) + 1 /\ rows'[Len(rows) + 1] = row
        /\ \A n \in 1 .. Len(rows) : rows'[n] = rows[n]
    BY <1>0, <2>1
  <2>4. \A n \in 0 .. Len(rows) : Prefix(rows', n) = Prefix(rows, n)
    BY PrefixesStay
  <2> SUFFICES ASSUME NEW n \in 1 .. Len(rows') PROVE Written(rows'[n], Prefix(rows', n - 1))
    BY DEF AllWritten
  <2>5. CASE n \in 1 .. Len(rows)
    <3>1. n - 1 \in 0 .. Len(rows)
      BY <1>0, <2>5
    <3> QED
      BY <2>3, <2>4, <2>5, <3>1 DEF AllWritten
  <2>6. CASE n = Len(rows) + 1
    <3>1. n - 1 = Len(rows) /\ Len(rows) \in 0 .. Len(rows)
      BY <1>0, <2>6
    <3>2. Prefix(rows', n - 1) = Document
      BY <2>4, <3>1 DEF Document
    <3> QED
      BY <2>2, <2>3, <2>6, <3>2 DEF Written
  <2> QED
    BY <1>0, <2>3, <2>5, <2>6
<1>4. ASSUME NEW c \in DOMAIN checkpoints, Compact(c) PROVE AllWritten'
  <2>1. rows' = [n \in DOMAIN rows |->
                   IF n <= c THEN [rows[n] EXCEPT !.compacted = TRUE] ELSE rows[n]]
    BY <1>4 DEF Compact
  <2>2. DOMAIN rows' = 1 .. Len(rows) /\ DOMAIN rows' = 1 .. Len(rows') /\ Len(rows') \in Nat
    BY <1>0, <2>1 DEF TypeOK
  <2>3. Len(rows') = Len(rows)
    BY <1>0, <2>2
  <2> QED
    BY <1>2, <2>3
<1>5. CASE UNCHANGED rows
  BY <1>2, <1>5
<1> QED
  BY <1>1, <1>3, <1>4, <1>5
  DEF Next, vars, RestoreRevision, ResolveAmbiguity, ConsolidateDue, CreateCandidate,
      VerifiedBackup, VerifyCandidate, CompactionBlocked, RequireDeviceReauthorization,
      Reauthorize, RevokeDevice, Authorize

LEMMA WrittenIsWhole ==
    ASSUME RequestsWhole, Rebuildable, CausalLog, Trimmed, AllWritten
    PROVE  FrontiersWhole
<1> SUFFICES ASSUME NEW r \in Requests, NEW p \in Plans(r),
                    NEW n \in 1 .. Len(AppendBatch(r, p.order)), NEW m \in 1 .. n - 1,
                    AppendBatch(r, p.order)[m].id \in AppendBatch(r, p.order)[n].base
             PROVE  AppendBatch(r, p.order)[m].base \subseteq AppendBatch(r, p.order)[n].base
  BY DEF FrontiersWhole, Whole
<1> DEFINE log == AppendBatch(r, p.order)
<1>1. r \in Request /\ TypeOK
  BY RequestsAssumption DEF Rebuildable
<1>2. \A k \in 1 .. Len(log) : log[k].base \subseteq Prefix(log, k - 1)
  BY <1>1, AppendedTrims DEF Trims
<1>3. \A k \in 1 .. Len(log) : Written(log[k], Prefix(log, k - 1))
  BY <1>1, AppendedWritten
<1>4. Len(log) \in Nat
  BY <1>1, AppendedTrims
<1>5. log[m].id \in log[n].base /\ n \in 1 .. Len(log)
  OBVIOUS
<1> HIDE DEF log
<1>6. m \in 1 .. Len(log) /\ n \in Nat /\ m \in Nat /\ m - 1 \in 0 .. n - 1
  BY <1>4, <1>5
<1>7. CASE log[n].base = Prefix(log, n - 1)
  <2>1. Prefix(log, m - 1) \subseteq Prefix(log, n - 1)
    BY <1>6 DEF Prefix
  <2> QED
    BY <1>2, <1>6, <1>7, <2>1 DEF log
<1>8. ASSUME NEW s \in Requests, NEW j \in DOMAIN s.updates, log[n].base = s.updates[j].base
      PROVE  log[m].base \subseteq log[n].base
  <2>1. log[m].id \notin ServerUpdate
    BY <1>5, <1>8 DEF RequestsWhole
  <2>2. PICK t \in Requests : \E i \in DOMAIN t.updates :
           log[m].id = t.updates[i].id /\ log[m].base = t.updates[i].base
    BY <1>3, <1>6, <2>1 DEF Written
  <2> QED
    BY <1>5, <1>8, <2>2 DEF RequestsWhole
<1> QED
  BY <1>3, <1>5, <1>7, <1>8 DEF Written, log

\* Devices that write on whole frontiers of each other's updates are always
\* compared: what the theorem above asks of every state, they provide.
THEOREM WholeRequestsCompare ==
    ASSUME RequestsWhole
    PROVE  Spec => []OfflineWorkComparable
<1>1. Init => Rebuildable /\ CausalLog /\ Trimmed /\ AllWritten
  <2>1. Init => AllWritten
    BY DEF Init, AllWritten
  <2> QED
    BY <2>1, TypeInit, HeadInit, ReloadableInit, CausalInit, TrimmedInit DEF Rebuildable
<1>2. Rebuildable /\ CausalLog /\ Trimmed /\ AllWritten /\ [Next]_vars
          => (Rebuildable /\ CausalLog /\ Trimmed /\ AllWritten)'
  BY ReloadableStep, CausalStep, TrimmedStep, WrittenStep DEF LogStep, Rebuildable
<1>3. Rebuildable /\ CausalLog /\ Trimmed /\ AllWritten => OfflineWorkComparable
  BY WrittenIsWhole, WholeBranchesCompare
<1> QED
  BY <1>1, <1>2, <1>3, PTL DEF Spec

=============================================================================
