--------------------------- MODULE WorkspaceWorkProofs ---------------------------
(***************************************************************************)
(* What becomes of queued work until it is answered: where its row stands  *)
(* in the queue and in the batch on its way, what the screen shows of it,  *)
(* and how the edits of an item build on each other while nothing else     *)
(* touches it, so that none of them is in conflict.                        *)
(***************************************************************************)
EXTENDS WorkspaceSyncProofs

-----------------------------------------------------------------------------
(* What is on its way.                                                      *)

Overtakable(row) == row.id[2] > 1 /\ Rebasable(row)

\* The rows ahead of one that is being settled have been settled, or have been
\* merged since and wait to be sent again.
BatchAhead(d) ==
    LET batch == Underway(pass[d])
    IN  \A b \in DOMAIN batch : \A h, k \in DOMAIN outbox[d] :
            h < k /\ outbox[d][k].id = batch[b].id /\ outbox[d][h].status # "blocked" =>
                \/ Overtakable(outbox[d][h])
                \/ \E a \in 1 .. b - 1 : batch[a].id = outbox[d][h].id

\* A row is named after the identity it was queued under, in the batch as well.
NamesOK(d) ==
    /\ \A row \in Rows(d) : \E m \in Mutation : m[1] = row.id[1] /\ row.local = Local(m)
    /\ LET batch == Underway(pass[d])
       IN  \A b \in DOMAIN batch : \A row \in Rows(d) :
              row.id = batch[b].id => row.local = batch[b].local

FlightOK(d) == SendingOK(d) /\ BatchAhead(d) /\ NamesOK(d)

-----------------------------------------------------------------------------
(* What a step does to a queue.                                             *)

SameWork(old, new) ==
    /\ new.id = old.id /\ new.base = old.base /\ new.payload = old.payload
    /\ new.local = old.local

\* Rows whose identities are in a set take another status.
Restated(d, ids, s) ==
    /\ DOMAIN outbox'[d] = DOMAIN outbox[d]
    /\ \A k \in DOMAIN outbox[d] :
          /\ SameWork(outbox[d][k], outbox'[d][k])
          /\ outbox'[d][k].status = IF outbox[d][k].id \in ids THEN s ELSE outbox[d][k].status

LEMMA MarkedRestates ==
    ASSUME NEW d \in Device, outbox \in [Device -> Seq(QueuedRow)], NEW ids, NEW s,
           outbox' = [outbox EXCEPT ![d] = Marked(@, ids, s)]
    PROVE  Restated(d, ids, s)
<1>1. PICK rows : rows = outbox[d]
  OBVIOUS
<1>2. outbox'[d] = Marked(rows, ids, s) /\ rows \in Seq(QueuedRow)
  BY <1>1
<1>3. \A k \in DOMAIN rows : rows[k] \in QueuedRow
  BY <1>2, ElementOfSeq
<1>4. ASSUME NEW k \in DOMAIN rows
      PROVE  /\ SameWork(rows[k], Marked(rows, ids, s)[k])
             /\ Marked(rows, ids, s)[k].status = IF rows[k].id \in ids THEN s ELSE rows[k].status
  BY <1>3 DEF Marked, QueuedRow, SameWork
<1>5. DOMAIN Marked(rows, ids, s) = DOMAIN rows
  BY DEF Marked
<1> QED
  BY <1>1, <1>2, <1>4, <1>5 DEF Restated

\* The queue has lost the row in place p, and the others remain the same work.
Kin(old, new) ==
    /\ new.id = old.id /\ new.payload = old.payload /\ new.local = old.local
    /\ new.status = old.status
    /\ Cardinality(new.base) = 1 <=> Cardinality(old.base) = 1
    /\ Cardinality(new.base) = 2 <=> Cardinality(old.base) = 2

Shortened(d, p) ==
    /\ p \in DOMAIN outbox[d] /\ DOMAIN outbox'[d] = 1 .. Len(outbox[d]) - 1
    /\ \A j \in DOMAIN outbox'[d] : Kin(outbox[d][From(p, j)], outbox'[d][j])

(* The places of a queue.                                                   *)
LEMMA PlacesAre ==
    ASSUME SyncInv, NEW d \in Device
    PROVE  /\ outbox[d] \in Seq(QueuedRow)
           /\ Len(outbox[d]) \in Nat /\ DOMAIN outbox[d] = 1 .. Len(outbox[d])
           /\ \A k \in DOMAIN outbox[d] : outbox[d][k] \in QueuedRow /\ outbox[d][k] \in Rows(d)
           /\ \A row \in Rows(d) : \E k \in DOMAIN outbox[d] : row = outbox[d][k]
           /\ \A j, k \in DOMAIN outbox[d] : outbox[d][j].id = outbox[d][k].id => j = k
<1>1. outbox[d] \in Seq(QueuedRow) /\ Distinct(outbox[d])
  BY DeviceParts DEF RowsOK
<1>2. Len(outbox[d]) \in Nat /\ DOMAIN outbox[d] = 1 .. Len(outbox[d])
  BY <1>1, LenProperties
<1>3. \A k \in DOMAIN outbox[d] : outbox[d][k] \in QueuedRow
  BY <1>1, ElementOfSeq
<1> QED
  BY <1>1, <1>2, <1>3 DEF Rows, ToSet, Distinct

LEMMA FromIs ==
    ASSUME NEW n \in Nat, NEW p \in 1 .. n
    PROVE  /\ \A j \in 1 .. n - 1 : From(p, j) \in 1 .. n /\ From(p, j) # p
           /\ \A j, k \in 1 .. n - 1 : j < k <=> From(p, j) < From(p, k)
           /\ \A k \in 1 .. n : k # p => \E j \in 1 .. n - 1 : From(p, j) = k
<1>1. \A j \in 1 .. n - 1 : From(p, j) \in 1 .. n /\ From(p, j) # p
  BY DEF From
<1>2. \A j, k \in 1 .. n - 1 : j < k <=> From(p, j) < From(p, k)
  BY DEF From
<1>3. ASSUME NEW k \in 1 .. n, k # p  PROVE \E j \in 1 .. n - 1 : From(p, j) = k
  <2>1. CASE k < p
    <3>1. k \in 1 .. n - 1 /\ From(p, k) = k
      BY <2>1 DEF From
    <3> QED
      BY <3>1
  <2>2. CASE k > p
    <3>1. k - 1 \in 1 .. n - 1 /\ From(p, k - 1) = k
      BY <2>2 DEF From
    <3> QED
      BY <3>1
  <2> QED
    BY <1>3, <2>1, <2>2
<1> QED
  BY <1>1, <1>2, <1>3

LEMMA RowsApart ==
    ASSUME SyncInv, NEW d \in Device
    PROVE  \A r, q \in Rows(d) : r.id = q.id => r = q
<1>1. SUFFICES ASSUME NEW r \in Rows(d), NEW q \in Rows(d), r.id = q.id  PROVE r = q
  OBVIOUS
<1>2. PICK j \in DOMAIN outbox[d], k \in DOMAIN outbox[d] : r = outbox[d][j] /\ q = outbox[d][k]
  BY PlacesAre
<1>3. j = k
  BY <1>1, <1>2, PlacesAre
<1> QED
  BY <1>2, <1>3

(* An order of a set of places leaves none out.                              *)
LEMMA OrderIsOnto ==
    ASSUME NEW places \in SUBSET Nat, IsFiniteSet(places), NEW order \in InOrder(places)
    PROVE  /\ \A p \in places : \E a \in DOMAIN order : order[a] = p
           /\ \A a, b \in DOMAIN order : order[a] < order[b] => a < b
           /\ DOMAIN order = 1 .. Cardinality(places) /\ Cardinality(places) \in Nat
           /\ \A a \in DOMAIN order : order[a] \in places
<1>1. PICK n : n = Cardinality(places)
  OBVIOUS
<1>2. n \in Nat
  BY <1>1, FS_CardinalityType
<1>3. order \in [1 .. n -> places] /\ \A a, b \in 1 .. n : a < b => order[a] < order[b]
  BY <1>1 DEF InOrder
<1>4. \A a, b \in 1 .. n : order[a] = order[b] => a = b
  <2>1. \A a \in 1 .. n : order[a] \in Nat
    BY <1>3
  <2> QED
    BY <1>2, <1>3, <2>1
<1>5. order \in Injection(1 .. n, places)
  BY <1>3, <1>4 DEF Injection, IsInjective
<1>6. IsFiniteSet(1 .. n) /\ Cardinality(1 .. n) = n
  BY <1>2, FS_Interval
<1>7. order \in Surjection(1 .. n, places)
  BY <1>1, <1>5, <1>6, FS_Injection
<1>8. \A p \in places : \E a \in 1 .. n : order[a] = p
  BY <1>7 DEF Surjection
<1>9. \A a, b \in 1 .. n : order[a] < order[b] => a < b
  <2>1. \A a \in 1 .. n : order[a] \in Nat
    BY <1>3
  <2> QED
    BY <1>2, <1>3, <2>1
<1> QED
  BY <1>1, <1>2, <1>3, <1>8, <1>9

(* A batch holds every row ahead of one of its rows.                         *)
LEMMA BatchIsPrefix ==
    ASSUME NEW rows \in Seq(QueuedRow), NEW k \in CausalBatch(rows), NEW h \in Pending(rows), h < k
    PROVE  h \in CausalBatch(rows)
<1>1. Len(rows) \in Nat /\ DOMAIN rows = 1 .. Len(rows)
  BY LenProperties
<1>2. /\ k \in DOMAIN rows /\ h \in DOMAIN rows /\ h \in Nat /\ k \in Nat
      /\ \A j \in Pending(rows) : j \in Nat
  BY <1>1 DEF CausalBatch, Pending
<1>3. Through(rows, h) \subseteq Through(rows, k)
  BY <1>2 DEF Through
<1>4. IsFiniteSet(Through(rows, k))
  <2>1. Through(rows, k) \in SUBSET (1 .. Len(rows))
    BY <1>1 DEF Through, Pending
  <2>2. IsFiniteSet(1 .. Len(rows))
    BY <1>1, FS_Interval
  <2> QED
    BY <2>1, <2>2, FS_Subset
<1>5. /\ Cardinality(Through(rows, h)) \in Nat /\ Cardinality(Through(rows, k)) \in Nat
      /\ Cardinality(Through(rows, h)) <= Cardinality(Through(rows, k))
  <2>1. IsFiniteSet(Through(rows, h))
    BY <1>3, <1>4, FS_Subset
  <2> QED
    BY <1>3, <1>4, <2>1, FS_Subset, FS_CardinalityType
<1>6. Cardinality(Through(rows, k)) <= BatchLimit /\ BatchLimit \in Nat
  BY SyncAssumption DEF CausalBatch
<1>7. Cardinality(Through(rows, h)) <= BatchLimit
  BY <1>5, <1>6
<1>8. \A j \in Through(rows, k) : \A g \in Through(rows, j) \ {j} : rows[g].local \notin rows[j].base
  BY DEF CausalBatch
<1> QED
  BY <1>3, <1>7, <1>8 DEF CausalBatch

(* A device that does nothing, or only moves its pass.                       *)
LEMMA QuietFlight ==
    ASSUME NEW d \in Device, FlightOK(d), outbox'[d] = outbox[d],
           \/ pass'[d].phase = "idle"
           \/ pass[d].phase # "idle" /\ Underway(pass'[d]) = Underway(pass[d])
           \/ pass'[d] = pass[d]
    PROVE  FlightOK(d)'
<1>1. Rows(d)' = Rows(d)
  BY DEF Rows, ToSet
<1>2. CASE pass'[d].phase = "idle"
  <2>1. Underway(pass'[d]) = << >> /\ Ids(<< >>) = {} /\ DOMAIN << >> = {}
    BY <1>2 DEF Underway, Ids
  <2>2. SendingOK(d)'
    BY <1>2, <2>1 DEF SendingOK
  <2>3. BatchAhead(d)'
    BY <2>1 DEF BatchAhead
  <2>4. NamesOK(d)'
    BY <1>1, <2>1 DEF FlightOK, NamesOK, Local
  <2> QED
    BY <2>2, <2>3, <2>4 DEF FlightOK
<1>3. CASE Underway(pass'[d]) = Underway(pass[d]) /\ (pass[d].phase # "idle" \/ pass'[d] = pass[d])
  <2>1. SendingOK(d)'
    BY <1>1, <1>3 DEF FlightOK, SendingOK, Underway, Ids
  <2>2. BatchAhead(d)'
    BY <1>3 DEF FlightOK, BatchAhead, Underway, Overtakable, Rebasable
  <2>3. NamesOK(d)'
    BY <1>1, <1>3 DEF FlightOK, NamesOK, Underway, Local
  <2> QED
    BY <2>1, <2>2, <2>3 DEF FlightOK
<1> QED
  BY <1>2, <1>3 DEF Underway

(* The rows of a queue whose states change.                                  *)
LEMMA RestatedRows ==
    ASSUME SyncInv, NEW d \in Device, NEW ids, NEW s, Restated(d, ids, s)
    PROVE  /\ \A row \in Rows(d)' : \E old \in Rows(d) :
                 SameWork(old, row) /\ row.status = IF old.id \in ids THEN s ELSE old.status
           /\ \A old \in Rows(d) : \E row \in Rows(d)' :
                 SameWork(old, row) /\ row.status = IF old.id \in ids THEN s ELSE old.status
<1>1. \A row \in Rows(d)' : \E k \in DOMAIN outbox[d] : row = outbox'[d][k]
  BY DEF Restated, Rows, ToSet
<1>2. \A k \in DOMAIN outbox[d] : outbox'[d][k] \in Rows(d)'
  BY DEF Restated, Rows, ToSet
<1>3. \A k \in DOMAIN outbox[d] :
         /\ SameWork(outbox[d][k], outbox'[d][k])
         /\ outbox'[d][k].status = IF outbox[d][k].id \in ids THEN s ELSE outbox[d][k].status
  BY DEF Restated
<1>4. /\ \A k \in DOMAIN outbox[d] : outbox[d][k] \in Rows(d)
      /\ \A row \in Rows(d) : \E k \in DOMAIN outbox[d] : row = outbox[d][k]
  BY DEF Rows, ToSet
<1>5. ASSUME NEW row \in Rows(d)'
      PROVE  \E old \in Rows(d) :
                SameWork(old, row) /\ row.status = IF old.id \in ids THEN s ELSE old.status
  <2>1. PICK k \in DOMAIN outbox[d] : row = outbox'[d][k]
    BY <1>1
  <2> QED
    BY <1>3, <1>4, <2>1
<1>6. ASSUME NEW old \in Rows(d)
      PROVE  \E row \in Rows(d)' :
                SameWork(old, row) /\ row.status = IF old.id \in ids THEN s ELSE old.status
  <2>1. PICK k \in DOMAIN outbox[d] : old = outbox[d][k]
    BY <1>4
  <2> QED
    BY <1>2, <1>3, <2>1
<1> QED
  BY <1>5, <1>6

LEMMA BeginFlight ==
    ASSUME SyncInv, NEW d \in Device, FlightOK(d), Begin(d)
    PROVE  FlightOK(d)' /\ Restated(d, {r.id : r \in {q \in Rows(d) : q.status = "sending"}}, "pending")
<1>1. PICK ids : ids = {r.id : r \in {q \in Rows(d) : q.status = "sending"}}
  OBVIOUS
<1>2. /\ pass' = [pass EXCEPT ![d] = Submitting({})]
      /\ outbox' = [outbox EXCEPT ![d] = Marked(@, ids, "pending")]
  BY <1>1 DEF Begin, Rows
<1>3. Restated(d, ids, "pending")
  <2>1. outbox \in [Device -> Seq(QueuedRow)]
    BY DEF SyncInv
  <2> QED
    BY <1>2, <2>1, MarkedRestates
<1>4. \A old \in Rows(d) : old.status = "sending" => old.id \in ids
  BY <1>1
<1>5. /\ pass'[d].phase = "submit" /\ Underway(pass'[d]) = << >>
      /\ Ids(<< >>) = {} /\ DOMAIN << >> = {}
  <2>1. pass'[d].phase = "submit"
    BY <1>2 DEF SyncInv, Submitting
  <2> QED
    BY <2>1 DEF Underway, Ids
<1>6. SendingOK(d)'
  BY <1>3, <1>4, <1>5, RestatedRows DEF SendingOK
<1>7. BatchAhead(d)'
  BY <1>5 DEF BatchAhead
<1>8. \A row \in Rows(d)' : \E m \in Mutation : m[1] = row.id[1] /\ row.local = Local(m)
  BY <1>3, RestatedRows DEF FlightOK, NamesOK, SameWork
<1>9. NamesOK(d)'
  BY <1>5, <1>8 DEF NamesOK, Local
<1> QED
  BY <1>1, <1>3, <1>6, <1>7, <1>9 DEF FlightOK

LEMMA GiveUpFlight ==
    ASSUME SyncInv, NEW d \in Device, FlightOK(d), GiveUp(d)
    PROVE  FlightOK(d)' /\ Restated(d, Ids(pass[d].batch), "pending")
<1>1. PICK ids : ids = Ids(pass[d].batch)
  OBVIOUS
<1>2. /\ pass' = [pass EXCEPT ![d] = Idle]
      /\ outbox' = [outbox EXCEPT ![d] = Marked(@, ids, "pending")]
  BY <1>1 DEF GiveUp
<1>3. Restated(d, ids, "pending")
  <2>1. outbox \in [Device -> Seq(QueuedRow)]
    BY DEF SyncInv
  <2> QED
    BY <1>2, <2>1, MarkedRestates
<1>4. /\ pass'[d].phase = "idle" /\ Underway(pass'[d]) = << >>
      /\ Ids(<< >>) = {} /\ DOMAIN << >> = {}
  <2>1. pass'[d].phase = "idle"
    BY <1>2 DEF SyncInv, Idle
  <2> QED
    BY <2>1 DEF Underway, Ids
<1>5. SendingOK(d)'
  BY <1>4 DEF SendingOK
<1>6. BatchAhead(d)'
  BY <1>4 DEF BatchAhead
<1>7. \A row \in Rows(d)' : \E m \in Mutation : m[1] = row.id[1] /\ row.local = Local(m)
  BY <1>3, RestatedRows DEF FlightOK, NamesOK, SameWork
<1>8. NamesOK(d)'
  BY <1>4, <1>7 DEF NamesOK, Local
<1> QED
  BY <1>1, <1>3, <1>5, <1>6, <1>8 DEF FlightOK

\* The batch of a pass: the rows in some places of the queue, in order, with none
\* ahead of them left behind and none they build on among them.
Batched(d, batch, place) ==
    /\ place \in [DOMAIN batch -> DOMAIN outbox[d]]
    /\ \A b \in DOMAIN batch :
          /\ batch[b] = outbox[d][place[b]] /\ batch[b].status = "pending"
          /\ \A h \in Pending(outbox[d]) :
                h < place[b] => /\ \E a \in 1 .. b - 1 : a \in DOMAIN batch /\ place[a] = h
                                /\ outbox[d][h].local \notin batch[b].base

LEMMA SubmitIs ==
    ASSUME SyncInv, NEW d \in Device, Submit(d)
    PROVE  \E batch \in Seq(QueuedRow) : \E place :
              /\ Batched(d, batch, place)
              /\ Restated(d, Ids(batch), "sending")
              /\ pass'[d] = [phase |-> "wait", merged |-> pass[d].merged, batch |-> batch,
                             todo |-> [k \in DOMAIN batch |-> Sent(batch[k])], results |-> << >>]
<1>1. PICK place \in InOrder(CausalBatch(outbox[d])) :
         LET batch == [k \in DOMAIN place |-> outbox[d][place[k]]]
         IN  /\ outbox' = [outbox EXCEPT ![d] = Marked(@, Ids(batch), "sending")]
             /\ pass' = [pass EXCEPT ![d] =
                           [phase |-> "wait", merged |-> @.merged, batch |-> batch,
                            todo |-> [k \in DOMAIN batch |-> Sent(batch[k])], results |-> << >>]]
  BY DEF Submit
<1>2. PICK batch : batch = [k \in DOMAIN place |-> outbox[d][place[k]]]
  OBVIOUS
<1>3. PICK rows : rows = outbox[d]
  OBVIOUS
<1>4. /\ rows \in Seq(QueuedRow) /\ Pending(rows) # {}
      /\ Len(rows) \in Nat /\ DOMAIN rows = 1 .. Len(rows)
  BY <1>3, PlacesAre DEF Submit
<1>5. /\ batch \in Seq(QueuedRow) /\ DOMAIN place = DOMAIN batch
      /\ \A k \in DOMAIN place : place[k] \in DOMAIN rows
  BY <1>2, <1>3, <1>4, BatchIs
<1>6. CausalBatch(rows) \in SUBSET Nat /\ IsFiniteSet(CausalBatch(rows))
  <2>1. CausalBatch(rows) \in SUBSET (1 .. Len(rows))
    BY <1>4 DEF CausalBatch, Pending
  <2>2. IsFiniteSet(1 .. Len(rows))
    BY <1>4, FS_Interval
  <2> QED
    BY <2>1, <2>2, FS_Subset
<1>7. /\ \A h \in CausalBatch(rows) : \E a \in DOMAIN place : place[a] = h
      /\ \A a, b \in DOMAIN place : place[a] < place[b] => a < b
      /\ DOMAIN place = 1 .. Cardinality(CausalBatch(rows)) /\ Cardinality(CausalBatch(rows)) \in Nat
      /\ \A b \in DOMAIN place : place[b] \in CausalBatch(rows)
  BY <1>3, <1>6, OrderIsOnto
<1>8. place \in [DOMAIN batch -> DOMAIN rows]
  <2>1. place \in [1 .. Cardinality(CausalBatch(rows)) -> CausalBatch(rows)]
    BY <1>3 DEF InOrder
  <2> QED
    BY <1>5, <2>1
<1>9. ASSUME NEW b \in DOMAIN batch
      PROVE  /\ batch[b] = rows[place[b]] /\ batch[b].status = "pending"
             /\ \A h \in Pending(rows) :
                   h < place[b] => /\ \E a \in 1 .. b - 1 : a \in DOMAIN batch /\ place[a] = h
                                   /\ rows[h].local \notin batch[b].base
  <2>1. batch[b] = rows[place[b]] /\ place[b] \in CausalBatch(rows) /\ place[b] \in Pending(rows)
    BY <1>2, <1>3, <1>5, <1>7 DEF CausalBatch
  <2>2. ASSUME NEW h \in Pending(rows), h < place[b]
        PROVE  \E a \in 1 .. b - 1 : a \in DOMAIN batch /\ place[a] = h
    <3>1. h \in CausalBatch(rows)
      BY <1>4, <2>1, <2>2, BatchIsPrefix
    <3>2. PICK a \in DOMAIN place : place[a] = h
      BY <1>7, <3>1
    <3>3. a < b
      BY <1>5, <1>7, <2>2, <3>2
    <3>4. a \in 1 .. b - 1
      BY <1>5, <1>7, <3>3
    <3> QED
      BY <1>5, <3>2, <3>4
  <2>3. ASSUME NEW h \in Pending(rows), h < place[b]
        PROVE  rows[h].local \notin batch[b].base
    <3>1. place[b] \in Through(rows, place[b]) /\ h \in Through(rows, place[b]) \ {place[b]}
      BY <1>4, <2>1, <2>3 DEF Through, Pending
    <3> QED
      BY <2>1, <3>1 DEF CausalBatch
  <2> QED
    BY <2>1, <2>2, <2>3 DEF Pending
<1>10. Batched(d, batch, place)
  BY <1>3, <1>8, <1>9 DEF Batched
<1>11. Restated(d, Ids(batch), "sending")
  <2>1. PICK ids : ids = Ids(batch)
    OBVIOUS
  <2>2. outbox \in [Device -> Seq(QueuedRow)] /\ outbox' = [outbox EXCEPT ![d] = Marked(@, ids, "sending")]
    BY <1>1, <1>2, <2>1 DEF SyncInv
  <2> QED
    BY <2>1, <2>2, MarkedRestates
<1>12. pass'[d] = [phase |-> "wait", merged |-> pass[d].merged, batch |-> batch,
                   todo |-> [k \in DOMAIN batch |-> Sent(batch[k])], results |-> << >>]
  BY <1>1, <1>2 DEF SyncInv
<1> QED
  BY <1>5, <1>10, <1>11, <1>12

LEMMA SubmitFlight ==
    ASSUME SyncInv, NEW d \in Device, FlightOK(d), Submit(d)
    PROVE  FlightOK(d)'
<1>1. PICK batch, place :
         /\ batch \in Seq(QueuedRow)
         /\ Batched(d, batch, place)
         /\ Restated(d, Ids(batch), "sending")
         /\ pass'[d] = [phase |-> "wait", merged |-> pass[d].merged, batch |-> batch,
                        todo |-> [k \in DOMAIN batch |-> Sent(batch[k])], results |-> << >>]
  BY SubmitIs
<1>2. PICK ids : ids = Ids(batch)
  OBVIOUS
<1>3. pass[d].phase = "submit" /\ Underway(pass'[d]) = batch
  BY <1>1 DEF Submit, Underway
<1>4. \A old \in Rows(d) : old.status # "sending"
  <2>1. Underway(pass[d]) = << >> /\ Ids(<< >>) = {}
    BY <1>3 DEF Underway, Ids
  <2> QED
    BY <1>3, <2>1 DEF FlightOK, SendingOK
<1>5. \A j, k \in DOMAIN outbox[d] : outbox[d][j].id = outbox[d][k].id => j = k
  BY PlacesAre
<1>6. \A b \in DOMAIN batch : /\ place[b] \in DOMAIN outbox[d] /\ batch[b] = outbox[d][place[b]]
                              /\ batch[b].status = "pending" /\ batch[b] \in Rows(d)
  BY <1>1, PlacesAre DEF Batched
<1>7. \A old \in Rows(d) : old.id \in ids => old.status = "pending"
  <2>1. ASSUME NEW old \in Rows(d), old.id \in ids  PROVE old.status = "pending"
    <3>1. PICK b \in DOMAIN batch : old.id = batch[b].id
      BY <1>2, <2>1 DEF Ids
    <3>2. old = batch[b]
      BY <1>6, <2>1, <3>1, RowsApart
    <3> QED
      BY <1>6, <3>2
  <2> QED
    BY <2>1
<1>8. \A row \in Rows(d)' : \E old \in Rows(d) :
         SameWork(old, row) /\ row.status = IF old.id \in ids THEN "sending" ELSE old.status
  BY <1>1, <1>2, RestatedRows
<1>9. SendingOK(d)'
  <2>1. \A row \in Rows(d)' :
           (row.status = "sending" => row.id \in ids) /\ (row.id \in ids => row.status # "blocked")
    BY <1>4, <1>8 DEF SameWork
  <2> QED
    BY <1>2, <1>3, <2>1 DEF SendingOK
<1>10. BatchAhead(d)'
  <2> SUFFICES ASSUME NEW b \in DOMAIN batch, NEW h \in DOMAIN outbox'[d], NEW k \in DOMAIN outbox'[d],
                      h < k, outbox'[d][k].id = batch[b].id, outbox'[d][h].status # "blocked"
               PROVE  \E a \in 1 .. b - 1 : batch[a].id = outbox'[d][h].id
    BY <1>3 DEF BatchAhead
  <2>1. /\ h \in DOMAIN outbox[d] /\ k \in DOMAIN outbox[d]
        /\ outbox'[d][h].id = outbox[d][h].id /\ outbox'[d][k].id = outbox[d][k].id
        /\ outbox'[d][h].status = IF outbox[d][h].id \in ids THEN "sending" ELSE outbox[d][h].status
        /\ outbox[d][h] \in Rows(d)
    BY <1>1, <1>2, PlacesAre DEF Restated, SameWork
  <2>2. k = place[b]
    BY <1>5, <1>6, <2>1
  <2>3. outbox[d][h].status = "pending"
    <3>1. outbox[d][h].status \in {"pending", "sending", "blocked"}
      BY <2>1, PlacesAre DEF QueuedRow
    <3> QED
      BY <1>4, <1>7, <2>1, <3>1
  <2>4. PICK a \in 1 .. b - 1 : a \in DOMAIN batch /\ place[a] = h
    BY <1>1, <2>1, <2>2, <2>3 DEF Batched, Pending
  <2> QED
    BY <1>6, <2>1, <2>4
<1>11. NamesOK(d)'
  <2>1. \A row \in Rows(d)' : \E m \in Mutation : m[1] = row.id[1] /\ row.local = Local(m)
    BY <1>8 DEF FlightOK, NamesOK, SameWork
  <2>2. ASSUME NEW b \in DOMAIN batch, NEW row \in Rows(d)', row.id = batch[b].id
        PROVE  row.local = batch[b].local
    <3>1. PICK old \in Rows(d) : SameWork(old, row)
      BY <1>8
    <3>2. old = batch[b]
      BY <1>6, <2>2, <3>1, RowsApart DEF SameWork
    <3> QED
      BY <3>1, <3>2 DEF SameWork
  <2> QED
    BY <1>3, <2>1, <2>2 DEF NamesOK, Local
<1> QED
  BY <1>9, <1>10, <1>11 DEF FlightOK

-----------------------------------------------------------------------------
(* A result is settled.                                                     *)

\* What becomes of a row when the result of the one that has an identity is settled:
\* the others stay, that one is blocked or takes the identity of its merge.
Settling(d, old, new, id) ==
    /\ new.local = old.local /\ new.id[1] = old.id[1]
    /\ Cardinality(new.base) = 2 <=> Cardinality(old.base) = 2
    /\ \/ old.id # id /\ Kin(old, new)
       \/ old.id = id /\ new.id = id /\ new.status = "blocked"
       \/ /\ old.id = id /\ new.status = "pending"
          /\ Overtakable(new) /\ new.id \notin Ids(pass[d].batch)

\* The rows keep their order, and one that goes has its receipt.
Settles(d, id, was) ==
    /\ was \in [DOMAIN outbox'[d] -> DOMAIN outbox[d]]
    /\ \A j, k \in DOMAIN outbox'[d] : j < k => was[j] < was[k]
    /\ \A j \in DOMAIN outbox'[d] : Settling(d, outbox[d][was[j]], outbox'[d][j], id)
    /\ \A l \in DOMAIN outbox[d] :
          \/ \E j \in DOMAIN outbox'[d] : was[j] = l
          \/ outbox[d][l].id = id /\ id \in DOMAIN receipts

LEMMA ShortenedSettles ==
    ASSUME SyncInv, NEW d \in Device, NEW p \in DOMAIN outbox[d], Shortened(d, p),
           outbox[d][p].id \in DOMAIN receipts
    PROVE  \E was : Settles(d, outbox[d][p].id, was)
<1>1. PICK id : id = outbox[d][p].id
  OBVIOUS
<1>2. PICK n : n = Len(outbox[d])
  OBVIOUS
<1>3. /\ n \in Nat /\ DOMAIN outbox[d] = 1 .. n /\ DOMAIN outbox'[d] = 1 .. n - 1 /\ p \in 1 .. n
      /\ \A k \in 1 .. n : outbox[d][k].id = id => k = p
  BY <1>1, <1>2, PlacesAre DEF Shortened
<1>4. /\ \A j \in 1 .. n - 1 : From(p, j) \in 1 .. n /\ From(p, j) # p
      /\ \A j, k \in 1 .. n - 1 : j < k <=> From(p, j) < From(p, k)
      /\ \A k \in 1 .. n : k # p => \E j \in 1 .. n - 1 : From(p, j) = k
  BY <1>3, FromIs
<1>5. PICK was : was = [j \in 1 .. n - 1 |-> From(p, j)]
  OBVIOUS
<1>6. was \in [DOMAIN outbox'[d] -> DOMAIN outbox[d]]
  BY <1>3, <1>4, <1>5
<1>7. \A j, k \in DOMAIN outbox'[d] : j < k => was[j] < was[k]
  BY <1>3, <1>4, <1>5
<1>8. \A j \in DOMAIN outbox'[d] : Settling(d, outbox[d][was[j]], outbox'[d][j], id)
  <2> TAKE j \in DOMAIN outbox'[d]
  <2>1. Kin(outbox[d][was[j]], outbox'[d][j]) /\ outbox[d][was[j]].id # id
    BY <1>3, <1>4, <1>5 DEF Shortened
  <2> QED
    BY <2>1 DEF Settling, Kin
<1>9. \A l \in DOMAIN outbox[d] :
         \/ \E j \in DOMAIN outbox'[d] : was[j] = l
         \/ outbox[d][l].id = id /\ id \in DOMAIN receipts
  <2> TAKE l \in DOMAIN outbox[d]
  <2>1. CASE l = p
    BY <1>1, <2>1
  <2>2. CASE l # p
    <3>1. PICK j \in 1 .. n - 1 : From(p, j) = l
      BY <1>3, <1>4, <2>2
    <3> QED
      BY <1>3, <1>5, <3>1
  <2> QED
    BY <2>1, <2>2
<1> QED
  BY <1>1, <1>6, <1>7, <1>8, <1>9 DEF Settles

LEMMA BlockedSettles ==
    ASSUME SyncInv, NEW d \in Device, NEW row, MarkBlocked(d, row)
    PROVE  \E was : Settles(d, row.id, was)
<1>1. PICK id : id = row.id
  OBVIOUS
<1>2. Restated(d, {id}, "blocked")
  <2>1. outbox \in [Device -> Seq(QueuedRow)] /\ outbox' = [outbox EXCEPT ![d] = Marked(@, {id}, "blocked")]
    BY <1>1 DEF MarkBlocked, SyncInv
  <2> QED
    BY <2>1, MarkedRestates
<1>3. PICK was : was = [j \in DOMAIN outbox[d] |-> j]
  OBVIOUS
<1>4. \A j \in DOMAIN outbox'[d] : Settling(d, outbox[d][was[j]], outbox'[d][j], id)
  BY <1>2, <1>3 DEF Restated, SameWork, Settling, Kin
<1>5. DOMAIN outbox'[d] = DOMAIN outbox[d]
  BY <1>2 DEF Restated
<1>6. was \in [DOMAIN outbox'[d] -> DOMAIN outbox[d]]
  BY <1>3, <1>5
<1>7. Settles(d, id, was)
  BY <1>3, <1>4, <1>5, <1>6 DEF Settles
<1> QED
  BY <1>1, <1>7

LEMMA CapturedSettles ==
    ASSUME SyncInv, NEW d \in Device, NEW row, NEW k, NEW verdict, Answered(d, row, k, verdict),
           verdict # Blocked, CaptureConflict(d, row, verdict)
    PROVE  \E was : Settles(d, row.id, was)
<1>1. k \in DOMAIN outbox[d] /\ outbox[d][k].id = row.id /\ row.id \in DOMAIN receipts
  BY DEF Answered
<1>2. PICK rows : rows = outbox[d]
  OBVIOUS
<1>3. outbox'[d] = Without(rows, rows[k].id)
  BY <1>1, <1>2 DEF CaptureConflict, SyncInv
<1>4. rows \in Seq(QueuedRow) /\ Distinct(rows) /\ k \in DOMAIN rows
  BY <1>1, <1>2, DeviceParts DEF RowsOK
<1>5. PICK new : new = Without(rows, rows[k].id)
  OBVIOUS
<1>6. /\ DOMAIN new = 1 .. Len(rows) - 1
      /\ \A j \in 1 .. Len(rows) - 1 : new[j] = rows[From(k, j)]
  BY <1>4, <1>5, WithoutFrom
<1>7. Shortened(d, k)
  BY <1>1, <1>2, <1>3, <1>5, <1>6 DEF Shortened, Kin
<1> QED
  BY <1>1, <1>7, ShortenedSettles

LEMMA AcknowledgedSettles ==
    ASSUME SyncInv, NEW d \in Device, NEW row, NEW k, NEW verdict, Answered(d, row, k, verdict),
           verdict.verdict = "accepted", Acknowledge(d, row)
    PROVE  \E was : Settles(d, row.id, was)
<1>1. /\ k \in DOMAIN outbox[d] /\ outbox[d][k].id = row.id /\ row.id \in DOMAIN receipts
      /\ row.id \in Accepted /\ row \in QueuedRow
  BY AcceptedIs DEF Answered, Blocked
<1>2. PICK rows : rows = outbox[d]
  OBVIOUS
<1>3. PICK rest : rest = Without(rows, rows[k].id)
  OBVIOUS
<1> DEFINE new == [j \in DOMAIN rest |->
                     [rest[j] EXCEPT !.base = Renamed(rest[j].base, row.local, Canonical(row.id))]]
<1>4. outbox'[d] = new
  BY <1>1, <1>2, <1>3 DEF Acknowledge, Renamed, SyncInv
<1>5. rows \in Seq(QueuedRow) /\ Distinct(rows) /\ k \in DOMAIN rows
  BY <1>1, <1>2, DeviceParts DEF RowsOK
<1>6. /\ DOMAIN rest = 1 .. Len(rows) - 1
      /\ \A j \in 1 .. Len(rows) - 1 : rest[j] = rows[From(k, j)]
  BY <1>3, <1>5, WithoutFrom
<1>7. Len(rows) \in Nat /\ DOMAIN rows = 1 .. Len(rows)
  BY <1>5, LenProperties
<1>8. \A j \in DOMAIN rest : rest[j] \in Rows(d)
  <2>1. \A j \in 1 .. Len(rows) - 1 : From(k, j) \in 1 .. Len(rows)
    BY <1>5, <1>7, FromIs
  <2>2. \A h \in DOMAIN rows : rows[h] \in Rows(d)
    BY <1>2 DEF Rows, ToSet
  <2> QED
    BY <1>6, <1>7, <2>1, <2>2
<1>9. \A j \in DOMAIN rest : Kin(rest[j], new[j])
  <2> TAKE j \in DOMAIN rest
  <2>1. PICK old \in Rows(d) : old = rest[j]
    BY <1>8
  <2>2. PICK renamed : renamed = [old EXCEPT !.base = Renamed(old.base, row.local, Canonical(row.id))]
    OBVIOUS
  <2>3. new[j] = renamed
    BY <2>1, <2>2
  <2>4. old \in QueuedRow /\ RowOK(d, old) /\ \E n \in Mutation : row.local = Local(n)
    BY <1>1, DeviceParts DEF QueuedRow
  <2>5. /\ renamed.id = old.id /\ renamed.payload = old.payload /\ renamed.local = old.local
        /\ renamed.status = old.status
        /\ renamed.base = Renamed(old.base, row.local, Canonical(row.id))
    BY <2>2, <2>4 DEF QueuedRow
  <2>6. Rebasable(old) <=> Rebasable(renamed)
    BY <1>1, <2>2, <2>4, RowRenamed
  <2>7. Cardinality(renamed.base) = 2 <=> Cardinality(old.base) = 2
    <3>1. CASE old.base \subseteq DOMAIN contents
      <4>1. row.local \notin DOMAIN contents
        <5>1. DOMAIN contents \subseteq {Origin(i) : i \in Item} \cup {Canonical(n) : n \in Accepted}
          BY DEF SyncInv, ServerInv, ContentsOK
        <5> QED
          BY <2>4, <5>1, RevisionsApart
      <4>2. renamed.base = old.base
        BY <2>4, <2>5, <3>1, <4>1, RenamedIs DEF RowOK
      <4> QED
        BY <4>2
    <3>2. CASE Rebasable(old)
      BY <2>6, <3>2 DEF Rebasable
    <3>3. CASE old.base = {}
      BY <2>4, <2>5, <3>3, RenamedIs DEF RowOK
    <3> QED
      BY <2>4, <3>1, <3>2, <3>3 DEF RowOK
  <2> HIDE DEF new
  <2> QED
    BY <2>1, <2>3, <2>5, <2>6, <2>7 DEF Kin, Rebasable
<1>10. DOMAIN new = DOMAIN rest
  OBVIOUS
<1> HIDE DEF new
<1>11. Shortened(d, k)
  BY <1>1, <1>2, <1>4, <1>6, <1>9, <1>10 DEF Shortened
<1> QED
  BY <1>1, <1>11, ShortenedSettles

LEMMA RequeuedSettles ==
    ASSUME SyncInv, NEW d \in Device, pass[d].phase = "settle",
           NEW row, NEW k, NEW verdict, Answered(d, row, k, verdict),
           Requeue(d, row, verdict)
    PROVE  \E was : Settles(d, row.id, was)
<1>1. PICK fresh : fresh = Fresh(row.id[1])
  OBVIOUS
<1>2. PICK pair \in Comparisons(row.base, verdict.competing) :
         outbox' = [outbox EXCEPT ![d] =
                      [j \in DOMAIN @ |->
                         IF @[j].id # row.id THEN @[j]
                         ELSE [@[j] EXCEPT !.id = fresh, !.status = "pending",
                                 !.payload = Merge(contents[pair[1]], row.payload, contents[pair[2]]),
                                 !.base = {pair[2]}]]]
  BY <1>1 DEF Requeue
<1>3. PICK payload, base : /\ payload = Merge(contents[pair[1]], row.payload, contents[pair[2]])
                           /\ base = {pair[2]}
  OBVIOUS
<1>4. PICK rows : rows = outbox[d]
  OBVIOUS
<1> DEFINE merged(r) == [r EXCEPT !.id = fresh, !.status = "pending", !.payload = payload, !.base = base]
           new == [j \in DOMAIN rows |-> IF rows[j].id # row.id THEN rows[j] ELSE merged(rows[j])]
<1>5. outbox'[d] = new
  BY <1>2, <1>3, <1>4 DEF SyncInv
<1>6. \A j \in DOMAIN rows : rows[j] \in QueuedRow /\ rows[j] \in Rows(d)
  BY <1>4, PlacesAre
<1>7. \A j \in DOMAIN rows :
         /\ merged(rows[j]).id = fresh /\ merged(rows[j]).status = "pending"
         /\ merged(rows[j]).base = base /\ merged(rows[j]).local = rows[j].local
  BY <1>6 DEF QueuedRow
<1>8. Cardinality(base) = 1 /\ Rebasable(row)
  BY <1>3, FS_Singleton DEF Comparisons, Rebasable
<1>9. /\ row.id[1] \in Edit /\ fresh[1] = row.id[1] /\ fresh[2] > 1
      /\ k \in DOMAIN rows /\ rows[k].id = row.id /\ Rebasable(rows[k])
  <2>1. k \in DOMAIN rows /\ rows[k].id = row.id /\ Rebasable(rows[k])
    BY <1>4, <1>8 DEF Answered
  <2>2. row.id \in Mutation /\ row.id[1] \in Edit
    BY MutationIs DEF Answered, QueuedRow
  <2>3. Issued(row.id)
    BY <1>6, <2>1, DeviceParts DEF RowOK, Sound
  <2>4. tries[row.id[1]] \in Nat /\ tries[row.id[1]] >= 1
    BY <2>2, <2>3, TriesBound DEF SyncInv
  <2> QED
    BY <1>1, <2>1, <2>2, <2>4 DEF Fresh
<1>10. fresh \notin Ids(pass[d].batch)
  <2>1. \A j \in DOMAIN pass[d].batch : \E r \in Rows(d) : r.id = pass[d].batch[j].id
    BY SettleIs DEF SettleOK, BatchOK
  <2> QED
    BY <1>1, <1>9, <2>1, FreshIsNew DEF Ids
<1> HIDE DEF merged
<1>11. ASSUME NEW j \in DOMAIN rows  PROVE Settling(d, rows[j], new[j], row.id)
  <2>1. CASE rows[j].id # row.id
    BY <2>1 DEF Settling, Kin
  <2>2. CASE rows[j].id = row.id
    <3>1. j = k
      BY <1>4, <1>9, <2>2, PlacesAre
    <3>2. new[j] = merged(rows[j])
      BY <2>2
    <3>3. Cardinality(new[j].base) = 1 /\ Cardinality(rows[j].base) = 1
      BY <1>7, <1>8, <1>9, <3>1, <3>2 DEF Rebasable
    <3>4. Overtakable(new[j]) /\ new[j].id \notin Ids(pass[d].batch)
      BY <1>7, <1>9, <1>10, <3>2, <3>3 DEF Overtakable, Rebasable
    <3> QED
      BY <1>7, <1>9, <2>2, <3>2, <3>3, <3>4 DEF Settling
  <2> QED
    BY <2>1, <2>2
<1>12. PICK was : was = [j \in DOMAIN rows |-> j]
  OBVIOUS
<1>13. DOMAIN new = DOMAIN rows
  OBVIOUS
<1> HIDE DEF new
<1> QED
  BY <1>4, <1>5, <1>11, <1>12, <1>13 DEF Settles

LEMMA ResultSettles ==
    ASSUME SyncInv, NEW d \in Device, Settle(d)
    PROVE  /\ \E was : Settles(d, Head(pass[d].batch).id, was)
           /\ \E merged : Onward(d, merged)
           /\ \A i \in Item : view'[d][i].content = view[d][i].content
           /\ receipts' = receipts
<1>1. pass[d].phase = "settle" /\ receipts' = receipts
  BY DEF Settle, feedVars
<1>2. PICK row, verdict : row = Head(pass[d].batch) /\ verdict = Head(pass[d].results)
  OBVIOUS
<1>3. PICK k \in DOMAIN outbox[d] : Answered(d, row, k, verdict)
  BY <1>1, <1>2, HeadIsAnswered
<1>4. CASE verdict.verdict = "accepted" /\ Acknowledge(d, row) /\ Onward(d, pass[d].merged)
  <2>1. \E was : Settles(d, row.id, was)
    BY <1>3, <1>4, AcknowledgedSettles
  <2>2. ASSUME NEW i \in Item  PROVE view'[d][i].content = view[d][i].content
    <3>1. PICK shown : shown = view[d]
      OBVIOUS
    <3>2. view'[d] = [j \in Item |->
                        [shown[j] EXCEPT !.revision =
                           IF shown[j].revision = row.local THEN Canonical(row.id) ELSE shown[j].revision]]
      BY <1>4, <3>1 DEF Acknowledge, SyncInv
    <3>3. shown[i] \in Shown
      BY <3>1 DEF SyncInv
    <3> QED
      BY <3>1, <3>2, <3>3 DEF Shown
  <2> QED
    BY <1>1, <1>2, <1>4, <2>1, <2>2
<1>5. CASE Requeue(d, row, verdict) /\ Onward(d, pass[d].merged \cup {Fresh(row.id[1])})
  <2>1. \E was : Settles(d, row.id, was)
    BY <1>1, <1>3, <1>5, RequeuedSettles
  <2>2. view' = view
    BY <1>5 DEF Requeue
  <2> QED
    BY <1>1, <1>2, <1>5, <2>1, <2>2
<1>6. CASE verdict.verdict \in {"conflict", "rejected"} /\ CaptureConflict(d, row, verdict)
            /\ Onward(d, pass[d].merged)
  <2>1. verdict # Blocked
    BY <1>6 DEF Blocked
  <2>2. \E was : Settles(d, row.id, was)
    BY <1>3, <1>6, <2>1, CapturedSettles
  <2>3. view' = view
    BY <1>6 DEF CaptureConflict
  <2> QED
    BY <1>1, <1>2, <1>6, <2>2, <2>3
<1>7. CASE MarkBlocked(d, row) /\ Onward(d, pass[d].merged)
  <2>1. \E was : Settles(d, row.id, was)
    BY <1>7, BlockedSettles
  <2>2. view' = view
    BY <1>7 DEF MarkBlocked
  <2> QED
    BY <1>1, <1>2, <1>7, <2>1, <2>2
<1> QED
  BY <1>2, <1>4, <1>5, <1>6, <1>7 DEF Settle

(* The batch of a pass loses its first row.                                  *)
LEMMA OnwardBatch ==
    ASSUME SyncInv, NEW d \in Device, pass[d].phase = "settle", NEW merged, Onward(d, merged)
    PROVE  LET batch == pass[d].batch
               rest == Underway(pass'[d])
           IN  /\ DOMAIN rest = 1 .. Len(batch) - 1
               /\ \A b \in 1 .. Len(batch) - 1 : rest[b] = batch[b + 1]
<1>1. PICK batch, results : batch = pass[d].batch /\ results = pass[d].results
  OBVIOUS
<1>2. /\ pass[d] \in SettlePass /\ batch \in Seq(QueuedRow) /\ batch # << >>
      /\ Len(results) = Len(batch)
  BY <1>1, SettleIs
<1>3. /\ Len(batch) \in Nat /\ Len(batch) >= 1 /\ DOMAIN Tail(batch) = 1 .. Len(batch) - 1
      /\ \A b \in 1 .. Len(batch) - 1 : Tail(batch)[b] = batch[b + 1]
  BY <1>2, HeadIsFirst
<1>4. CASE Len(results) = 1
  <2>1. pass'[d] = Submitting(merged)
    BY <1>1, <1>4 DEF Onward, SyncInv
  <2>2. Underway(pass'[d]) = << >> /\ DOMAIN << >> = {}
    BY <2>1 DEF Submitting, Underway
  <2>3. 1 .. Len(batch) - 1 = {}
    BY <1>2, <1>3, <1>4
  <2> QED
    BY <1>1, <2>2, <2>3
<1>5. CASE Len(results) # 1
  <2>1. pass' = [pass EXCEPT ![d] =
                   IF Len(pass[d].results) = 1 THEN Submitting(merged)
                   ELSE [pass[d] EXCEPT !.merged = merged, !.batch = Tail(pass[d].batch),
                                        !.results = Tail(pass[d].results)]]
    BY DEF Onward
  <2>2. pass'[d] = [pass[d] EXCEPT !.merged = merged, !.batch = Tail(batch), !.results = Tail(results)]
    BY <1>1, <1>5, <2>1 DEF SyncInv
  <2>3. Underway(pass'[d]) = Tail(batch)
    BY <1>2, <2>2 DEF SettlePass, Underway
  <2> QED
    BY <1>1, <1>3, <2>3
<1> QED
  BY <1>4, <1>5

LEMMA SettleFlight ==
    ASSUME SyncInv, NEW d \in Device, FlightOK(d), Settle(d)
    PROVE  FlightOK(d)'
<1>1. PICK batch, rest : batch = pass[d].batch /\ rest = Underway(pass'[d])
  OBVIOUS
<1>2. PICK first : first = Head(batch).id
  OBVIOUS
<1>3. PICK was : Settles(d, first, was)
  BY <1>1, <1>2, ResultSettles
<1>4. PICK merged : Onward(d, merged)
  BY ResultSettles
<1>5. PICK n : n = Len(batch)
  OBVIOUS
<1>6. /\ pass[d].phase = "settle" /\ Underway(pass[d]) = batch
      /\ batch \in Seq(QueuedRow) /\ batch # << >> /\ Distinct(batch)
  BY <1>1, SettleIs DEF Settle, Underway, SettleOK, BatchOK
<1>7. /\ n \in Nat /\ n >= 1 /\ DOMAIN batch = 1 .. n /\ 1 \in DOMAIN batch /\ batch[1].id = first
      /\ first \notin Ids(Tail(batch))
  BY <1>2, <1>5, <1>6, HeadIsFirst, TailIds
<1>8. DOMAIN rest = 1 .. n - 1 /\ \A b \in 1 .. n - 1 : rest[b] = batch[b + 1]
  BY <1>1, <1>4, <1>5, <1>6, OnwardBatch
<1>9. ASSUME NEW b \in 1 .. n - 1
      PROVE  b + 1 \in DOMAIN batch /\ rest[b] = batch[b + 1] /\ rest[b].id # first
             /\ rest[b].id \in Ids(batch)
  <2>1. b + 1 \in DOMAIN batch /\ b + 1 # 1 /\ rest[b] = batch[b + 1]
    BY <1>7, <1>8
  <2> QED
    BY <1>6, <1>7, <2>1 DEF Distinct, Ids
<1>10. /\ was \in [DOMAIN outbox'[d] -> DOMAIN outbox[d]]
       /\ \A j, k \in DOMAIN outbox'[d] : j < k => was[j] < was[k]
       /\ \A j \in DOMAIN outbox'[d] : Settling(d, outbox[d][was[j]], outbox'[d][j], first)
  BY <1>3 DEF Settles
\* A row that is still in the batch is one that stayed.
<1>11. ASSUME NEW j \in DOMAIN outbox'[d], NEW b \in 1 .. n - 1, outbox'[d][j].id = rest[b].id
       PROVE  outbox[d][was[j]].id = rest[b].id
  BY <1>1, <1>9, <1>10, <1>11 DEF Settling, Kin
<1>12. SendingOK(d)'
  <2>1. ASSUME NEW row \in Rows(d)'  PROVE Settled(d, row)
    <3>1. PICK j \in DOMAIN outbox'[d] : row = outbox'[d][j]
      BY DEF Rows, ToSet
    <3>2. PICK old \in Rows(d) : old = outbox[d][was[j]]
      BY <1>10 DEF Rows, ToSet
    <3>3. Settling(d, old, row, first)
      BY <1>10, <3>1, <3>2
    <3>4. Ids(Tail(batch)) \subseteq Ids(batch)
      BY <1>6, TailIds
    <3>5. CASE old.id # first /\ Kin(old, row)
      BY <1>1, <1>2, <3>5 DEF Settled, Kin
    <3>6. CASE row.id = first /\ row.status = "blocked"
      BY <1>1, <1>7, <3>6 DEF Settled
    <3>7. CASE row.status = "pending" /\ row.id \notin Ids(batch)
      BY <1>1, <3>4, <3>7 DEF Settled
    <3> QED
      BY <1>1, <3>3, <3>5, <3>6, <3>7 DEF Settling
  <2> QED
    BY <1>4, <1>6, <2>1, OnwardFollows DEF FlightOK
<1>13. BatchAhead(d)'
  <2> SUFFICES ASSUME NEW b \in 1 .. n - 1, NEW h \in DOMAIN outbox'[d], NEW k \in DOMAIN outbox'[d],
                      h < k, outbox'[d][k].id = rest[b].id, outbox'[d][h].status # "blocked",
                      ~Overtakable(outbox'[d][h])
               PROVE  \E a \in 1 .. b - 1 : rest[a].id = outbox'[d][h].id
    BY <1>1, <1>8 DEF BatchAhead, Overtakable, Rebasable
  <2>1. was[h] \in DOMAIN outbox[d] /\ was[k] \in DOMAIN outbox[d] /\ was[h] < was[k]
    BY <1>10
  <2>2. outbox[d][was[k]].id = batch[b + 1].id /\ b + 1 \in DOMAIN batch
    BY <1>9, <1>11
  <2>3. outbox[d][was[h]].id # first /\ Kin(outbox[d][was[h]], outbox'[d][h])
    BY <1>10 DEF Settling
  <2>4. ~Overtakable(outbox[d][was[h]]) /\ outbox[d][was[h]].status # "blocked"
    BY <2>3 DEF Kin, Overtakable, Rebasable
  <2>5. PICK c \in 1 .. (b + 1) - 1 : batch[c].id = outbox[d][was[h]].id
    BY <1>6, <2>1, <2>2, <2>4 DEF FlightOK, BatchAhead
  <2>6. c # 1
    BY <1>7, <2>3, <2>5
  <2>7. c - 1 \in 1 .. b - 1 /\ c - 1 \in 1 .. n - 1 /\ (c - 1) + 1 = c
    BY <1>7, <2>6
  <2>8. rest[c - 1].id = outbox'[d][h].id
    BY <1>8, <2>3, <2>5, <2>7 DEF Kin
  <2> QED
    BY <2>7, <2>8
<1>14. NamesOK(d)'
  <2>1. ASSUME NEW row \in Rows(d)'
        PROVE  /\ \E m \in Mutation : m[1] = row.id[1] /\ row.local = Local(m)
               /\ \A b \in 1 .. n - 1 : row.id = rest[b].id => row.local = rest[b].local
    <3>1. PICK j \in DOMAIN outbox'[d] : row = outbox'[d][j]
      BY DEF Rows, ToSet
    <3>2. PICK old \in Rows(d) : old = outbox[d][was[j]]
      BY <1>10 DEF Rows, ToSet
    <3>3. row.local = old.local /\ row.id[1] = old.id[1]
      BY <1>10, <3>1, <3>2 DEF Settling
    <3>4. \E m \in Mutation : m[1] = old.id[1] /\ old.local = Local(m)
      BY DEF FlightOK, NamesOK
    <3>5. ASSUME NEW b \in 1 .. n - 1, row.id = rest[b].id  PROVE row.local = rest[b].local
      <4>1. old.id = batch[b + 1].id /\ b + 1 \in DOMAIN batch /\ rest[b] = batch[b + 1]
        BY <1>9, <1>11, <3>1, <3>2, <3>5
      <4>2. old.local = batch[b + 1].local
        BY <1>6, <4>1 DEF FlightOK, NamesOK
      <4> QED
        BY <3>3, <4>1, <4>2
    <3> QED
      BY <3>3, <3>4, <3>5
  <2> QED
    BY <1>1, <1>8, <2>1 DEF NamesOK, Local
<1> QED
  BY <1>12, <1>13, <1>14 DEF FlightOK

LEMMA PairIsTwo ==
    ASSUME NEW a, NEW b, a # b
    PROVE  Cardinality({a, b}) = 2
<1>1. IsFiniteSet({a}) /\ Cardinality({a}) = 1
  BY FS_Singleton
<1>2. Cardinality({a} \cup {b}) = Cardinality({a}) + 1
  BY <1>1, FS_AddElement
<1>3. {a} \cup {b} = {a, b}
  OBVIOUS
<1> QED
  BY <1>1, <1>2, <1>3

\* What an edit makes of the content on screen.
Edited(d, e) == [view[d][ItemOf[e]].content EXCEPT ![FieldOf[e]] = e]

(* The owner's work is queued under a new identity: an edit of what is on    *)
(* screen, or a resolution.                                                  *)
LEMMA WorkIsQueued ==
    ASSUME SyncInv, NEW d \in Device, MakeEdit(d) \/ Resolve(d)
    PROVE  \E e \in Edit : \E row \in QueuedRow :
              /\ row.id = Fresh(e) /\ row.local = Local(row.id) /\ row.status = "pending"
              /\ Cardinality(row.base) = 2 \/ row.payload = Edited(d, e)
              /\ Enqueue(d, row) /\ UNCHANGED <<feedVars, cursor>>
              /\ pass'[d] = pass[d] \/ pass'[d] = Idle
<1>1. ASSUME NEW e \in Edit, NEW base \in SUBSET Revision, NEW payload \in Content,
             tries[e] < MaxTries[e], NEW row, row = Row(Fresh(e), base, payload)
      PROVE  /\ row \in QueuedRow /\ row.id = Fresh(e) /\ row.local = Local(row.id)
             /\ row.status = "pending" /\ row.base = base /\ row.payload = payload
  <2>1. Fresh(e) \in Mutation
    <3>1. tries[e] \in Nat /\ MaxTries[e] \in Nat
      BY TriesBound DEF SyncInv
    <3>2. tries[e] + 1 \in 1 .. MaxTries[e]
      BY <1>1, <3>1
    <3> QED
      BY <3>2, MutationIs DEF Fresh
  <2> QED
    BY <1>1, <2>1 DEF Row, QueuedRow
<1>2. \A r \in DOMAIN contents : r \in Revision /\ contents[r] \in Content
  BY ContentsAreRevisions DEF SyncInv, ServerInv, ContentsOK
<1>3. CASE MakeEdit(d)
  <2>1. PICK e \in Writes[d] :
           /\ tries[e] = 0
           /\ Enqueue(d, Row(Fresh(e), IF e \in Blind THEN {} ELSE {view[d][ItemOf[e]].revision},
                             Edited(d, e)))
    BY <1>3 DEF MakeEdit, Edited
  <2>2. /\ e \in Edit /\ ItemOf[e] \in Item /\ FieldOf[e] \in Field
        /\ view[d][ItemOf[e]] \in Shown
    BY SyncAssumption, FeedAssumption DEF SyncInv
  <2>3. PICK base, payload :
           /\ base = IF e \in Blind THEN {} ELSE {view[d][ItemOf[e]].revision}
           /\ payload = Edited(d, e)
    OBVIOUS
  <2>4. base \in SUBSET Revision /\ payload \in Content
    BY <2>2, <2>3 DEF Shown, Content, Edited
  <2>5. tries[e] < MaxTries[e]
    <3>1. MaxTries[e] \in Nat /\ MaxTries[e] >= 1
      BY <2>2, TriesBound DEF SyncInv
    <3> QED
      BY <2>1, <3>1
  <2>6. UNCHANGED <<feedVars, cursor>> /\ pass' = pass
    BY <1>3, <2>1 DEF MakeEdit
  <2>7. PICK row : row = Row(Fresh(e), base, payload)
    OBVIOUS
  <2>8. /\ row \in QueuedRow /\ row.id = Fresh(e) /\ row.local = Local(row.id)
        /\ row.status = "pending" /\ row.payload = payload
    BY <1>1, <2>2, <2>4, <2>5, <2>7
  <2> QED
    BY <2>1, <2>2, <2>3, <2>6, <2>7, <2>8
<1>4. CASE Resolve(d)
  <2>1. PICK c \in conflicts[d] : \E pair \in Comparisons(c.base, c.competing) :
           \E choice \in {c.payload, contents[pair[2]]} :
              /\ Clash(contents[pair[1]], c.payload, contents[pair[2]]) # {}
              /\ tries[c.id[1]] < MaxTries[c.id[1]]
              /\ Enqueue(d, Resolution(c, pair, choice))
              /\ pass' = [pass EXCEPT ![d] = Idle] \/ UNCHANGED pass
    BY <1>4 DEF Resolve, Resolution
  <2>2. PICK pair \in Comparisons(c.base, c.competing) :
           \E choice \in {c.payload, contents[pair[2]]} :
              /\ Clash(contents[pair[1]], c.payload, contents[pair[2]]) # {}
              /\ tries[c.id[1]] < MaxTries[c.id[1]]
              /\ Enqueue(d, Resolution(c, pair, choice))
              /\ pass' = [pass EXCEPT ![d] = Idle] \/ UNCHANGED pass
    BY <2>1
  <2>3. PICK choice \in {c.payload, contents[pair[2]]} :
              /\ Clash(contents[pair[1]], c.payload, contents[pair[2]]) # {}
              /\ tries[c.id[1]] < MaxTries[c.id[1]]
              /\ Enqueue(d, Resolution(c, pair, choice))
              /\ pass' = [pass EXCEPT ![d] = Idle] \/ UNCHANGED pass
    BY <2>2
  <2>4. /\ c \in ConflictRecord /\ pair[1] \in DOMAIN contents /\ pair[2] \in DOMAIN contents
    BY DeviceParts DEF Comparisons, ConflictsOK
  <2>5. PICK base, payload :
           /\ base = {pair[1], pair[2]}
           /\ payload = [f \in Field |->
                           IF f \in Clash(contents[pair[1]], c.payload, contents[pair[2]]) THEN choice[f]
                           ELSE Merge(contents[pair[1]], c.payload, contents[pair[2]])[f]]
    OBVIOUS
  <2>6. c.id[1] \in Edit /\ choice \in Content
    BY <1>2, <2>4, MutationIs DEF ConflictRecord
  <2>7. base \in SUBSET Revision /\ payload \in Content
    <3>1. Merge(contents[pair[1]], c.payload, contents[pair[2]]) \in Content
      BY <1>2, <2>4, MergeTyped DEF ConflictRecord
    <3>2. \A f \in Field : payload[f] \in Edit \cup {Untouched}
      BY <2>5, <2>6, <3>1 DEF Content
    <3>3. payload = [f \in Field |-> payload[f]]
      BY <2>5
    <3> QED
      BY <1>2, <2>4, <2>5, <3>2, <3>3 DEF Content
  <2>8. UNCHANGED <<feedVars, cursor>> /\ (pass'[d] = pass[d] \/ pass'[d] = Idle)
    BY <1>4, <2>3 DEF Resolve, SyncInv
  <2>9. Cardinality(base) = 2
    <3>1. pair[1] # pair[2]
      BY <2>3 DEF Clash
    <3> QED
      BY <2>5, <3>1, PairIsTwo
  <2>10. PICK row : row = Row(Fresh(c.id[1]), base, payload)
    OBVIOUS
  <2>11. /\ row \in QueuedRow /\ row.id = Fresh(c.id[1]) /\ row.local = Local(row.id)
         /\ row.status = "pending" /\ row.base = base
    BY <1>1, <2>3, <2>6, <2>7, <2>10
  <2>12. Enqueue(d, row)
    BY <2>3, <2>5, <2>10 DEF Resolution
  <2> QED
    BY <2>6, <2>8, <2>9, <2>11, <2>12
<1> QED
  BY <1>3, <1>4

-----------------------------------------------------------------------------
(* What every step leaves true of what is on its way.                       *)

\* One row more, that no batch holds.
Lengthened(d, row) ==
    /\ DOMAIN outbox'[d] = 1 .. Len(outbox[d]) + 1
    /\ \A k \in DOMAIN outbox[d] : outbox'[d][k] = outbox[d][k]
    /\ outbox'[d][Len(outbox[d]) + 1] = row

LEMMA EnqueueLengthens ==
    ASSUME SyncInv, NEW d \in Device, NEW row \in QueuedRow, Enqueue(d, row)
    PROVE  Lengthened(d, row)
<1>1. PICK rows : rows = outbox[d]
  OBVIOUS
<1>2. outbox'[d] = Append(rows, row) /\ rows \in Seq(QueuedRow)
  BY <1>1, DeviceParts DEF Enqueue, SyncInv
<1>3. PICK new : new = Append(rows, row)
  OBVIOUS
<1>4. /\ new \in Seq(QueuedRow) /\ Len(new) = Len(rows) + 1 /\ Len(rows) \in Nat
      /\ \A k \in 1 .. Len(rows) : new[k] = rows[k]
      /\ new[Len(rows) + 1] = row
  BY <1>2, <1>3, AppendProperties, LenProperties
<1>5. DOMAIN new = 1 .. Len(rows) + 1 /\ DOMAIN rows = 1 .. Len(rows)
  BY <1>2, <1>4, LenProperties
<1> QED
  BY <1>1, <1>2, <1>3, <1>4, <1>5 DEF Lengthened

LEMMA EnqueueFlight ==
    ASSUME SyncInv, NEW d \in Device, FlightOK(d), MakeEdit(d) \/ Resolve(d)
    PROVE  FlightOK(d)'
<1>1. PICK e \in Edit, row \in QueuedRow :
         /\ row.id = Fresh(e) /\ row.local = Local(row.id) /\ row.status = "pending"
         /\ Enqueue(d, row)
         /\ pass'[d] = pass[d] \/ pass'[d] = Idle
  BY WorkIsQueued
<1>2. PICK n : n = Len(outbox[d])
  OBVIOUS
<1>3. /\ n \in Nat /\ DOMAIN outbox[d] = 1 .. n /\ DOMAIN outbox'[d] = 1 .. n + 1
      /\ \A k \in 1 .. n : outbox'[d][k] = outbox[d][k] /\ outbox[d][k] \in Rows(d)
      /\ outbox'[d][n + 1] = row
  BY <1>1, <1>2, EnqueueLengthens, PlacesAre DEF Lengthened
<1>4. \A k \in 1 .. n + 1 : k \in 1 .. n \/ k = n + 1
  BY <1>3
<1>5. \A new \in Rows(d)' : new \in Rows(d) \/ new = row
  <2>1. \A new \in Rows(d)' : \E k \in 1 .. n + 1 : new = outbox'[d][k]
    BY <1>3 DEF Rows, ToSet
  <2> QED
    BY <1>3, <1>4, <2>1
<1>6. PICK batch : batch = Underway(pass'[d])
  OBVIOUS
<1>7. /\ Ids(batch) \subseteq Ids(Underway(pass[d])) /\ DOMAIN batch \subseteq DOMAIN Underway(pass[d])
      /\ \A b \in DOMAIN batch : batch[b] = Underway(pass[d])[b]
      /\ pass'[d].phase # "idle" => pass'[d] = pass[d] /\ Ids(batch) = Ids(Underway(pass[d]))
  <2>1. CASE pass'[d] = pass[d]
    BY <1>6, <2>1
  <2>2. CASE pass'[d] = Idle
    <3>1. pass'[d].phase = "idle" /\ batch = << >> /\ DOMAIN << >> = {} /\ Ids(<< >>) = {}
      BY <1>6, <2>2 DEF Idle, Underway, Ids
    <3> QED
      BY <3>1
  <2> QED
    BY <1>1, <2>1, <2>2
<1>8. row.id \notin Ids(Underway(pass[d]))
  <2>1. \A j \in DOMAIN Underway(pass[d]) : \E r \in Rows(d) : r.id = Underway(pass[d])[j].id
    <3>1. CASE pass[d].phase = "wait"
      BY <3>1, WaitIs DEF WaitOK, BatchOK, Underway
    <3>2. CASE pass[d].phase = "settle"
      BY <3>2, SettleIs DEF SettleOK, BatchOK, Underway
    <3>3. CASE pass[d].phase \notin {"wait", "settle"}
      <4>1. Underway(pass[d]) = << >> /\ DOMAIN << >> = {}
        BY <3>3 DEF Underway
      <4> QED
        BY <4>1
    <3> QED
      BY <3>1, <3>2, <3>3
  <2> QED
    BY <1>1, <2>1, FreshIsNew DEF Ids
<1>9. SendingOK(d)'
  <2>1. ASSUME NEW new \in Rows(d)'
        PROVE  /\ new.status = "sending" /\ pass'[d].phase # "idle" => new.id \in Ids(batch)
               /\ new.id \in Ids(batch) => new.status # "blocked"
    <3>1. CASE new = row
      BY <1>1, <1>7, <1>8, <3>1
    <3>2. CASE new \in Rows(d)
      BY <1>7, <3>2 DEF FlightOK, SendingOK
    <3> QED
      BY <1>5, <3>1, <3>2
  <2> QED
    BY <1>6, <2>1 DEF SendingOK
<1>10. BatchAhead(d)'
  <2> SUFFICES ASSUME NEW b \in DOMAIN batch, NEW h \in 1 .. n + 1, NEW k \in 1 .. n + 1,
                      h < k, outbox'[d][k].id = batch[b].id, outbox'[d][h].status # "blocked"
               PROVE  \/ Overtakable(outbox'[d][h])
                      \/ \E a \in 1 .. b - 1 : batch[a].id = outbox'[d][h].id
    BY <1>3, <1>6 DEF BatchAhead, Overtakable, Rebasable
  <2>1. b \in DOMAIN Underway(pass[d]) /\ batch[b] = Underway(pass[d])[b] /\ batch[b].id \in Ids(batch)
    BY <1>7 DEF Ids
  <2>2. k \in 1 .. n /\ h \in 1 .. n
    <3>1. k # n + 1
      BY <1>3, <1>7, <1>8, <2>1
    <3> QED
      BY <1>3, <3>1
  <2>3. pass'[d] = pass[d] /\ batch = Underway(pass[d])
    <3>1. pass'[d].phase # "idle"
      <4>1. pass'[d].phase = "idle" => DOMAIN Underway(pass'[d]) = {}
        BY DEF Underway
      <4> QED
        BY <1>6, <4>1
    <3> QED
      BY <1>6, <1>7, <3>1
  <2>4. outbox'[d][k] = outbox[d][k] /\ outbox'[d][h] = outbox[d][h]
    BY <1>3, <2>2
  <2>5. h \in DOMAIN outbox[d] /\ k \in DOMAIN outbox[d] /\ outbox[d][k].id = batch[b].id
    BY <1>3, <2>2, <2>4
  <2>6. BatchAhead(d)
    BY DEF FlightOK
  <2>7. \/ Overtakable(outbox[d][h])
        \/ \E a \in 1 .. b - 1 : Underway(pass[d])[a].id = outbox[d][h].id
    BY <2>1, <2>4, <2>5, <2>6 DEF BatchAhead
  <2> QED
    BY <2>3, <2>4, <2>7
<1>11. NamesOK(d)'
  <2>1. ASSUME NEW new \in Rows(d)'
        PROVE  /\ \E m \in Mutation : m[1] = new.id[1] /\ new.local = Local(m)
               /\ \A b \in DOMAIN batch : new.id = batch[b].id => new.local = batch[b].local
    <3>1. CASE new = row
      <4>1. row.id \in Mutation
        BY DEF QueuedRow
      <4>2. \A b \in DOMAIN batch : batch[b].id \in Ids(batch)
        BY DEF Ids
      <4> QED
        BY <1>1, <1>7, <1>8, <3>1, <4>1, <4>2
    <3>2. CASE new \in Rows(d)
      BY <1>7, <3>2 DEF FlightOK, NamesOK
    <3> QED
      BY <1>5, <3>1, <3>2
  <2> QED
    BY <1>6, <2>1 DEF NamesOK, Local
<1> QED
  BY <1>9, <1>10, <1>11 DEF FlightOK

LEMMA PauseFlight ==
    ASSUME SyncInv, NEW d \in Device, FlightOK(d),
           \/ Crash(d) \/ Offline(d) \/ Answer(d) \/ Serve(d)
           \/ List(d) \/ Apply(d) \/ CrashApplying(d) \/ ServeLate(d)
    PROVE  FlightOK(d)'
<1>1. outbox' = outbox
  BY DEF Crash, Offline, Answer, Serve, List, Apply, CrashApplying, ServeLate
<1>2. CASE Crash(d) \/ Offline(d) \/ CrashApplying(d)
  <2>1. pass'[d].phase = "idle"
    BY <1>2 DEF Crash, Offline, CrashApplying, SyncInv, Idle
  <2> QED
    BY <1>1, <2>1, QuietFlight
<1>3. CASE Answer(d)
  <2>1. pass[d].phase = "wait" /\ pass'[d].phase = "settle" /\ pass'[d].batch = pass[d].batch
    BY <1>3 DEF Answer, SyncInv
  <2>2. Underway(pass'[d]) = Underway(pass[d])
    BY <2>1 DEF Underway
  <2> QED
    BY <1>1, <2>1, <2>2, QuietFlight
<1>4. CASE Serve(d)
  <2>1. pass'[d] = pass[d] \/ \E todo, results : pass'[d] = [pass[d] EXCEPT !.todo = todo, !.results = results]
    <3>1. CASE UNCHANGED pass
      BY <3>1
    <3>2. ASSUME NEW verdict,
                 pass' = [pass EXCEPT ![d].todo = Tail(@), ![d].results = Append(@, verdict)]
          PROVE  \E todo, results : pass'[d] = [pass[d] EXCEPT !.todo = todo, !.results = results]
      BY <3>2 DEF SyncInv
    <3> QED
      BY <1>4, <3>1, <3>2 DEF Serve
  <2>2. pass[d] \in WaitPass /\ pass[d].phase = "wait"
    BY <1>4, WaitIs DEF Serve
  <2>3. pass'[d].phase = "wait" /\ pass'[d].batch = pass[d].batch
    BY <2>1, <2>2 DEF WaitPass
  <2>4. Underway(pass'[d]) = Underway(pass[d])
    BY <2>2, <2>3 DEF Underway
  <2> QED
    BY <1>1, <2>2, <2>4, QuietFlight
<1>5. CASE ServeLate(d)
  BY <1>1, <1>5, QuietFlight DEF ServeLate
<1>6. CASE List(d)
  <2>1. pass[d].phase \in {"submit", "list"} /\ pass'[d].phase = "apply"
    BY <1>6 DEF List, CatchesUp, SyncInv
  <2>2. Underway(pass'[d]) = Underway(pass[d])
    BY <2>1 DEF Underway
  <2> QED
    BY <1>1, <2>1, <2>2, QuietFlight
<1>7. CASE Apply(d)
  <2>1. PICK more : more = pass[d].more
    OBVIOUS
  <2>2. \/ pass' = [pass EXCEPT ![d] = IF more THEN Listing ELSE Idle]
        \/ pass' = [pass EXCEPT ![d] = Idle]
    BY <1>7, <2>1 DEF Apply
  <2>3. pass[d].phase = "apply" /\ pass'[d].phase \in {"idle", "list"}
    BY <1>7, <2>2 DEF Apply, SyncInv, Idle, Listing
  <2>4. Underway(pass'[d]) = Underway(pass[d])
    BY <2>3 DEF Underway
  <2> QED
    BY <1>1, <2>3, <2>4, QuietFlight
<1> QED
  BY <1>2, <1>3, <1>4, <1>5, <1>6, <1>7

LEMMA StepFlight ==
    ASSUME SyncInv, NEW d \in Device, FlightOK(d),
           MakeEdit(d) \/ Resolve(d) \/ Pass(d) \/ ServeLate(d) \/ Failure(d)
    PROVE  FlightOK(d)'
<1>1. CASE MakeEdit(d) \/ Resolve(d)
  BY <1>1, EnqueueFlight
<1>2. CASE Pass(d)
  BY <1>2, BeginFlight, SubmitFlight, SettleFlight, PauseFlight DEF Pass
<1>3. CASE ServeLate(d)
  BY <1>3, PauseFlight
<1>4. CASE Failure(d)
  BY <1>4, GiveUpFlight, PauseFlight DEF Failure
<1> QED
  BY <1>1, <1>2, <1>3, <1>4

-----------------------------------------------------------------------------
(* What is queued, and what is on screen.                                   *)

\* An edit shows in its field, a resolution as the owner chose.
Displays(shown, row) ==
    LET f == FieldOf[row.id[1]]
    IN  shown[Changes(row.id)].content[f] =
            IF Cardinality(row.base) = 2 THEN row.payload[f] ELSE row.id[1]

Covers(over, row) ==
    /\ Changes(over.id) = Changes(row.id)
    /\ FieldOf[over.id[1]] = FieldOf[row.id[1]] \/ Cardinality(over.base) = 2

\* Other work of the device was answered while the merge waited.
Overtaken(own, answered, row) ==
    /\ row.id[2] > 1 /\ Cardinality(row.base) # 2
    /\ \E m \in answered : Changes(m) = Changes(row.id) /\ m[1] \in own \ {row.id[1]}

VisibleAt(shown, answered, rows, own, k) ==
    rows[k].status # "blocked" =>
        \/ Displays(shown, rows[k])
        \/ \E j \in DOMAIN rows : k < j /\ Covers(rows[j], rows[k])
        \/ Overtaken(own, answered, rows[k])

VisibleOK(d) ==
    \A k \in DOMAIN outbox[d] : VisibleAt(view[d], DOMAIN receipts, outbox[d], Writes[d], k)

WorkInv == SyncInv /\ \A d \in Device : FlightOK(d) /\ VisibleOK(d)

SameScreen(d) == \A i \in Item : view'[d][i].content = view[d][i].content

LEMMA SameDisplay ==
    ASSUME NEW shown, NEW now, \A i \in Item : now[i].content = shown[i].content,
           NEW old \in QueuedRow, NEW new, new.id[1] = old.id[1],
           Cardinality(new.base) = 2 <=> Cardinality(old.base) = 2,
           Cardinality(new.base) = 2 => new.payload = old.payload
    PROVE  Displays(shown, old) => Displays(now, new)
<1>1. old.id \in Mutation
  BY DEF QueuedRow
<1>2. Changes(old.id) \in Item /\ Changes(new.id) = Changes(old.id)
  BY <1>1, MutationIs, FeedAssumption DEF Changes
<1> QED
  BY <1>2 DEF Displays

(* Rows that keep their places, none of them unblocked.                      *)
LEMMA RestatedVisible ==
    ASSUME SyncInv, NEW d \in Device, VisibleOK(d), SameScreen(d),
           DOMAIN receipts \subseteq DOMAIN receipts',
           DOMAIN outbox'[d] = DOMAIN outbox[d],
           \A k \in DOMAIN outbox[d] :
              /\ SameWork(outbox[d][k], outbox'[d][k])
              /\ outbox'[d][k].status # "blocked" => outbox[d][k].status # "blocked"
    PROVE  VisibleOK(d)'
<1>1. PICK rows, now, shown, screen, answered, known :
         /\ rows = outbox[d] /\ now = outbox'[d] /\ shown = view[d] /\ screen = view'[d]
         /\ answered = DOMAIN receipts /\ known = DOMAIN receipts'
  OBVIOUS
<1>2. /\ DOMAIN now = DOMAIN rows /\ answered \subseteq known
      /\ \A i \in Item : screen[i].content = shown[i].content
      /\ \A k \in DOMAIN rows : /\ SameWork(rows[k], now[k]) /\ rows[k] \in QueuedRow
                                /\ now[k].status # "blocked" => rows[k].status # "blocked"
  BY <1>1, PlacesAre DEF SameScreen
<1>3. ASSUME NEW k \in DOMAIN rows, VisibleAt(shown, answered, rows, Writes[d], k)
      PROVE  VisibleAt(screen, known, now, Writes[d], k)
  <2> SUFFICES ASSUME now[k].status # "blocked"
               PROVE  \/ Displays(screen, now[k])
                      \/ \E j \in DOMAIN now : k < j /\ Covers(now[j], now[k])
                      \/ Overtaken(Writes[d], known, now[k])
    BY DEF VisibleAt
  <2>1. Displays(shown, rows[k]) => Displays(screen, now[k])
    <3>1. /\ rows[k] \in QueuedRow /\ now[k].id[1] = rows[k].id[1]
          /\ now[k].base = rows[k].base /\ now[k].payload = rows[k].payload
      BY <1>2 DEF SameWork
    <3> QED
      BY <1>2, <3>1, SameDisplay
  <2>2. ASSUME NEW j \in DOMAIN rows, Covers(rows[j], rows[k])  PROVE Covers(now[j], now[k])
    BY <1>2, <2>2 DEF SameWork, Covers
  <2>3. Overtaken(Writes[d], answered, rows[k]) => Overtaken(Writes[d], known, now[k])
    BY <1>2 DEF SameWork, Overtaken
  <2> QED
    BY <1>2, <1>3, <2>1, <2>2, <2>3 DEF VisibleAt
<1>4. \A k \in DOMAIN rows : VisibleAt(shown, answered, rows, Writes[d], k)
  BY <1>1 DEF VisibleOK
<1>5. \A k \in DOMAIN now : VisibleAt(screen, known, now, Writes[d], k)
  BY <1>2, <1>3, <1>4
<1> QED
  BY <1>1, <1>5 DEF VisibleOK

(* A device that leaves its queue and its screen alone.                      *)
LEMMA QuietVisible ==
    ASSUME SyncInv, NEW d \in Device, VisibleOK(d), SameScreen(d), outbox'[d] = outbox[d],
           DOMAIN receipts \subseteq DOMAIN receipts'
    PROVE  VisibleOK(d)'
<1>1. \A k \in DOMAIN outbox[d] : SameWork(outbox[d][k], outbox'[d][k])
  BY DEF SameWork
<1> QED
  BY <1>1, RestatedVisible

(* Receipts are kept.                                                        *)
LEMMA ReceiptSteps ==
    ASSUME [SyncNext]_syncVars
    PROVE  DOMAIN receipts \subseteq DOMAIN receipts'
<1>1. \A s : Accept(s) => DOMAIN receipts \subseteq DOMAIN receipts'
  BY DEF Accept
<1>2. \A s, verdict : Answers(s, verdict) => DOMAIN receipts \subseteq DOMAIN receipts'
  BY DEF Answers, Refuse, WriteBlocked, feedVars, Put
<1>3. ASSUME NEW d \in Device, MakeEdit(d) \/ Resolve(d) \/ Failure(d)  PROVE receipts' = receipts
  BY <1>3 DEF MakeEdit, Resolve, Failure, GiveUp, Crash, Offline, CrashApplying, feedVars
<1>4. ASSUME NEW d \in Device, Pass(d)  PROVE DOMAIN receipts \subseteq DOMAIN receipts'
  <2>1. Serve(d) => DOMAIN receipts \subseteq DOMAIN receipts'
    BY <1>1, <1>2 DEF Serve
  <2> QED
    BY <1>4, <2>1 DEF Pass, Begin, Submit, Answer, Settle, List, Apply, feedVars
<1>5. ASSUME NEW d \in Device, ServeLate(d)  PROVE DOMAIN receipts \subseteq DOMAIN receipts'
  BY <1>1, <1>2, <1>5 DEF ServeLate
<1>6. Command => DOMAIN receipts \subseteq DOMAIN receipts'
  BY <1>1 DEF Command
<1>7. ToggleRefusing \/ (\E i \in Item : Commit(i)) => DOMAIN receipts \subseteq DOMAIN receipts'
  BY DEF ToggleRefusing, Commit, Put
<1>8. UNCHANGED syncVars => DOMAIN receipts \subseteq DOMAIN receipts'
  BY DEF syncVars, feedVars
<1> QED
  BY <1>3, <1>4, <1>5, <1>6, <1>7, <1>8 DEF SyncNext

(* Rows leave the pending for the batch and return from it, and none of them *)
(* was blocked.                                                              *)
LEMMA MarkRestates ==
    ASSUME SyncInv, NEW d \in Device, FlightOK(d), Begin(d) \/ Submit(d) \/ GiveUp(d)
    PROVE  \E ids, s : /\ Restated(d, ids, s)
                       /\ \A k \in DOMAIN outbox[d] :
                             outbox[d][k].id \in ids => outbox[d][k].status # "blocked"
<1>1. /\ \A k \in DOMAIN outbox[d] : outbox[d][k] \in Rows(d)
      /\ \A j, k \in DOMAIN outbox[d] : outbox[d][j].id = outbox[d][k].id => j = k
  BY PlacesAre
<1>2. CASE Begin(d)
  <2>1. PICK ids : ids = {r.id : r \in {q \in Rows(d) : q.status = "sending"}}
    OBVIOUS
  <2>2. Restated(d, ids, "pending")
    BY <1>2, <2>1, BeginFlight
  <2>3. \A k \in DOMAIN outbox[d] : outbox[d][k].id \in ids => outbox[d][k].status # "blocked"
    BY <1>1, <2>1, RowsApart
  <2> QED
    BY <2>2, <2>3
<1>3. CASE Submit(d)
  <2>1. PICK batch, place : Batched(d, batch, place) /\ Restated(d, Ids(batch), "sending")
    BY <1>3, SubmitIs
  <2>2. ASSUME NEW k \in DOMAIN outbox[d], outbox[d][k].id \in Ids(batch)
        PROVE  outbox[d][k].status # "blocked"
    <3>1. PICK b \in DOMAIN batch : outbox[d][k].id = batch[b].id
      BY <2>2 DEF Ids
    <3>2. batch[b] = outbox[d][place[b]] /\ batch[b].status = "pending" /\ place[b] \in DOMAIN outbox[d]
      BY <2>1 DEF Batched
    <3> QED
      BY <1>1, <3>1, <3>2
  <2> QED
    BY <2>1, <2>2
<1>4. CASE GiveUp(d)
  <2>1. Restated(d, Ids(pass[d].batch), "pending") /\ Underway(pass[d]) = pass[d].batch
    BY <1>4, GiveUpFlight DEF GiveUp, Underway
  <2>2. \A k \in DOMAIN outbox[d] : outbox[d][k].id \in Ids(pass[d].batch) => outbox[d][k].status # "blocked"
    BY <1>1, <2>1 DEF FlightOK, SendingOK
  <2> QED
    BY <2>1, <2>2
<1> QED
  BY <1>2, <1>3, <1>4

(* What is visible stays so.                                                 *)
LEMMA MarkVisible ==
    ASSUME SyncInv, NEW d \in Device, FlightOK(d), VisibleOK(d), Begin(d) \/ Submit(d) \/ GiveUp(d)
    PROVE  VisibleOK(d)'
<1>1. \E ids, s : /\ Restated(d, ids, s)
                  /\ \A k \in DOMAIN outbox[d] : outbox[d][k].id \in ids => outbox[d][k].status # "blocked"
  BY MarkRestates
<1>2. SameScreen(d) /\ receipts' = receipts
  BY DEF Begin, Submit, GiveUp, SameScreen, feedVars
<1> QED
  BY <1>1, <1>2, RestatedVisible DEF Restated

(* The screen keeps its content when a result is settled.  A row that goes   *)
(* was at the head of the batch, so that what waits under it is a merge that *)
(* other work has overtaken.                                                 *)
LEMMA SettleVisible ==
    ASSUME SyncInv, NEW d \in Device, FlightOK(d), VisibleOK(d), Settle(d)
    PROVE  VisibleOK(d)'
<1>1. PICK first : first = Head(pass[d].batch).id
  OBVIOUS
<1>2. PICK was : Settles(d, first, was)
  BY <1>1, ResultSettles
<1>3. PICK rows, now, shown, screen, answered :
         /\ rows = outbox[d] /\ now = outbox'[d] /\ shown = view[d] /\ screen = view'[d]
         /\ answered = DOMAIN receipts
  OBVIOUS
<1>4. /\ \A i \in Item : screen[i].content = shown[i].content
      /\ receipts' = receipts
  BY <1>3, ResultSettles
<1>5. /\ was \in [DOMAIN now -> DOMAIN rows]
      /\ \A j, k \in DOMAIN now : j < k => was[j] < was[k]
      /\ \A j \in DOMAIN now : Settling(d, rows[was[j]], now[j], first)
      /\ \A l \in DOMAIN rows :
            \/ \E j \in DOMAIN now : was[j] = l
            \/ rows[l].id = first /\ first \in answered
  BY <1>2, <1>3 DEF Settles
<1>6. /\ DOMAIN rows = 1 .. Len(rows) /\ Len(rows) \in Nat
      /\ \A k \in DOMAIN rows : rows[k] \in QueuedRow /\ rows[k] \in Rows(d)
      /\ \A j, k \in DOMAIN rows : rows[j].id = rows[k].id => j = k
  BY <1>3, PlacesAre
<1>7. PICK batch : batch = Underway(pass[d])
  OBVIOUS
<1>8. 1 \in DOMAIN batch /\ batch[1].id = first
  <2>1. pass[d].phase = "settle" /\ batch = pass[d].batch
    BY <1>7 DEF Settle, Underway
  <2>2. batch \in Seq(QueuedRow) /\ batch # << >>
    BY <2>1, SettleIs
  <2> QED
    BY <1>1, <2>1, <2>2, HeadIsFirst, LenProperties
<1>9. \A k \in DOMAIN rows : rows[k].id = first => rows[k].status # "blocked"
  BY <1>6, <1>7, <1>8 DEF FlightOK, SendingOK, Ids
<1>10. DOMAIN now \subseteq Nat
  <2>1. outbox'[d] \in Seq(QueuedRow)'
    <3>1. SyncInv'
      BY SettleKeeps
    <3> QED
      BY <3>1 DEF SyncInv
  <2> QED
    BY <1>3, <2>1, LenProperties
<1>11. ASSUME NEW j \in DOMAIN now, VisibleAt(shown, answered, rows, Writes[d], was[j])
       PROVE  VisibleAt(screen, answered, now, Writes[d], j)
  <2>1. PICK k \in DOMAIN rows : k = was[j]
    BY <1>5
  <2> SUFFICES ASSUME now[j].status # "blocked"
               PROVE  \/ Displays(screen, now[j])
                      \/ \E i \in DOMAIN now : j < i /\ Covers(now[i], now[j])
                      \/ Overtaken(Writes[d], answered, now[j])
    BY DEF VisibleAt
  <2>2. /\ Settling(d, rows[k], now[j], first) /\ rows[k] \in QueuedRow
        /\ now[j].id[1] = rows[k].id[1]
        /\ Cardinality(now[j].base) = 2 <=> Cardinality(rows[k].base) = 2
    BY <1>5, <1>6, <2>1 DEF Settling
  <2>3. rows[k].status # "blocked"
    BY <1>9, <2>2 DEF Settling, Kin
  <2>4. CASE Displays(shown, rows[k])
    <3>1. Cardinality(now[j].base) = 2 => now[j].payload = rows[k].payload
      BY <2>2 DEF Settling, Kin, Overtakable, Rebasable
    <3> QED
      BY <1>4, <2>2, <2>4, <3>1, SameDisplay
  <2>5. CASE Overtaken(Writes[d], answered, rows[k])
    <3>1. now[j].id[2] > 1
      BY <2>2, <2>5 DEF Settling, Kin, Overtakable, Overtaken
    <3> QED
      BY <2>2, <2>5, <3>1 DEF Overtaken, Changes
  <2>6. CASE \E l \in DOMAIN rows : k < l /\ Covers(rows[l], rows[k])
    <3>1. PICK l \in DOMAIN rows : k < l /\ Covers(rows[l], rows[k])
      BY <2>6
    <3>2. CASE \E i \in DOMAIN now : was[i] = l
      <4>1. PICK i \in DOMAIN now : was[i] = l
        BY <3>2
      <4>2. /\ now[i].id[1] = rows[l].id[1]
            /\ Cardinality(now[i].base) = 2 <=> Cardinality(rows[l].base) = 2
        BY <1>5, <4>1 DEF Settling
      <4>3. Covers(now[i], now[j])
        BY <2>2, <3>1, <4>2 DEF Covers, Changes
      <4>4. j < i
        <5> SUFFICES ASSUME ~ (j < i)  PROVE FALSE
          OBVIOUS
        <5>1. i \in Nat /\ j \in Nat /\ k \in Nat /\ l \in Nat
          BY <1>6, <1>10
        <5>2. i < j \/ i = j
          BY <5>1
        <5>3. i < j => l < k
          BY <1>5, <2>1, <4>1
        <5>4. i = j => l = k
          BY <2>1, <4>1
        <5> QED
          BY <3>1, <5>1, <5>2, <5>3, <5>4
      <4> QED
        BY <4>3, <4>4
    <3>3. CASE rows[l].id = first /\ first \in answered
      <4>1. k # l /\ rows[k].id # first
        BY <1>6, <3>1, <3>3
      <4>2. Kin(rows[k], now[j])
        BY <2>2, <4>1 DEF Settling
      <4>3. Overtakable(rows[k])
        <5>1. \/ Overtakable(rows[k])
              \/ \E a \in 1 .. 1 - 1 : batch[a].id = rows[k].id
          BY <1>3, <1>7, <1>8, <2>3, <3>1, <3>3 DEF FlightOK, BatchAhead
        <5> QED
          BY <5>1
      <4>4. first[1] # rows[k].id[1]
        <5>1. \A row, other \in Rows(d) : Rebasable(row) /\ other.id[1] = row.id[1] => other.id = row.id
          BY DeviceParts DEF RowsOK
        <5> QED
          BY <1>6, <3>3, <4>1, <4>3, <5>1 DEF Overtakable
      <4>5. first[1] \in Writes[d]
        <5>1. RowOK(d, rows[l])
          BY <1>6, DeviceParts
        <5> QED
          BY <3>3, <5>1 DEF RowOK
      <4>6. Overtaken(Writes[d], answered, rows[k])
        BY <3>1, <3>3, <4>3, <4>4, <4>5 DEF Overtaken, Overtakable, Rebasable, Covers
      <4> QED
        BY <2>5, <4>6
    <3> QED
      BY <1>5, <3>2, <3>3
  <2> QED
    BY <1>11, <2>1, <2>3, <2>4, <2>5, <2>6 DEF VisibleAt
<1>12. \A k \in DOMAIN rows : VisibleAt(shown, answered, rows, Writes[d], k)
  BY <1>3 DEF VisibleOK
<1>13. \A j \in DOMAIN now : VisibleAt(screen, answered, now, Writes[d], j)
  BY <1>5, <1>11, <1>12
<1>14. DOMAIN receipts' = answered
  BY <1>3, <1>4
<1> QED
  BY <1>3, <1>13, <1>14 DEF VisibleOK

(* New work takes the screen in its field, and leaves the others.            *)
LEMMA EnqueueVisible ==
    ASSUME SyncInv, NEW d \in Device, VisibleOK(d), MakeEdit(d) \/ Resolve(d)
    PROVE  VisibleOK(d)'
<1>1. PICK e \in Edit, row \in QueuedRow :
         /\ row.id = Fresh(e)
         /\ Cardinality(row.base) = 2 \/ row.payload = Edited(d, e)
         /\ Enqueue(d, row) /\ UNCHANGED <<feedVars, cursor>>
  BY WorkIsQueued
<1>2. PICK rows, now, shown, screen, answered :
         /\ rows = outbox[d] /\ now = outbox'[d] /\ shown = view[d] /\ screen = view'[d]
         /\ answered = DOMAIN receipts
  OBVIOUS
<1>3. PICK n : n = Len(outbox[d])
  OBVIOUS
<1>4. /\ n \in Nat /\ DOMAIN rows = 1 .. n /\ DOMAIN now = 1 .. n + 1
      /\ \A k \in 1 .. n : now[k] = rows[k] /\ rows[k] \in QueuedRow
      /\ now[n + 1] = row
  BY <1>1, <1>2, <1>3, EnqueueLengthens, PlacesAre DEF Lengthened
<1>5. /\ row.id[1] = e /\ Changes(row.id) = ItemOf[e] /\ ItemOf[e] \in Item
      /\ FieldOf[e] \in Field /\ row.payload \in Content
      /\ shown \in [Item -> Shown]
  BY <1>1, <1>2, FeedAssumption DEF Fresh, Changes, QueuedRow, SyncInv
<1>6. screen = [shown EXCEPT ![ItemOf[e]] = [revision |-> row.local, content |-> row.payload]]
  BY <1>1, <1>2, <1>5 DEF Enqueue, SyncInv
<1>7. /\ screen[ItemOf[e]].content = row.payload
      /\ \A i \in Item \ {ItemOf[e]} : screen[i] = shown[i]
  BY <1>5, <1>6
<1>8. Cardinality(row.base) = 2 \/
         /\ row.payload[FieldOf[e]] = e
         /\ \A f \in Field \ {FieldOf[e]} : row.payload[f] = shown[ItemOf[e]].content[f]
  <2>1. shown[ItemOf[e]].content \in Content
    BY <1>5 DEF Shown
  <2> QED
    BY <1>1, <1>2, <1>5, <2>1 DEF Edited, Content
<1>9. Displays(screen, now[n + 1])
  BY <1>4, <1>5, <1>7, <1>8 DEF Displays
<1>10. ASSUME NEW k \in 1 .. n, VisibleAt(shown, answered, rows, Writes[d], k)
       PROVE  VisibleAt(screen, answered, now, Writes[d], k)
  <2>1. /\ now[k] = rows[k] /\ k \in DOMAIN rows /\ n + 1 \in DOMAIN now /\ k < n + 1
        /\ Changes(rows[k].id) \in Item /\ FieldOf[rows[k].id[1]] \in Field
    <3>1. rows[k].id \in Mutation
      BY <1>4 DEF QueuedRow
    <3>2. rows[k].id[1] \in Edit
      BY <3>1, MutationIs
    <3> QED
      BY <1>4, <3>2, FeedAssumption DEF Changes
  <2>2. CASE Covers(row, rows[k])
    BY <1>4, <2>1, <2>2 DEF VisibleAt
  <2>3. CASE ~Covers(row, rows[k])
    <3>1. Displays(shown, rows[k]) => Displays(screen, rows[k])
      <4>1. CASE Changes(rows[k].id) # ItemOf[e]
        BY <1>7, <2>1, <4>1 DEF Displays
      <4>2. CASE Changes(rows[k].id) = ItemOf[e]
        <5>1. FieldOf[rows[k].id[1]] # FieldOf[e] /\ Cardinality(row.base) # 2
          BY <1>5, <2>3, <4>2 DEF Covers
        <5> QED
          BY <1>7, <1>8, <2>1, <4>2, <5>1 DEF Displays
      <4> QED
        BY <4>1, <4>2
    <3>2. \A j \in DOMAIN rows : j \in DOMAIN now /\ now[j] = rows[j]
      BY <1>4
    <3> QED
      BY <1>10, <2>1, <3>1, <3>2 DEF VisibleAt
  <2> QED
    BY <2>2, <2>3
<1>11. \A k \in DOMAIN rows : VisibleAt(shown, answered, rows, Writes[d], k)
  BY <1>2 DEF VisibleOK
<1>12. \A k \in 1 .. n : VisibleAt(screen, answered, now, Writes[d], k)
  BY <1>4, <1>10, <1>11
<1>13. VisibleAt(screen, answered, now, Writes[d], n + 1)
  BY <1>9 DEF VisibleAt
<1>14. \A k \in 1 .. n + 1 : k \in 1 .. n \/ k = n + 1
  BY <1>4
<1>15. DOMAIN receipts' = answered
  BY <1>1, <1>2 DEF feedVars
<1> QED
  BY <1>2, <1>4, <1>12, <1>13, <1>14, <1>15 DEF VisibleOK

(* A page is applied only where all that is queued is blocked.               *)
LEMMA ApplyVisible ==
    ASSUME SyncInv, NEW d \in Device, FlightOK(d), VisibleOK(d), Apply(d) \/ CrashApplying(d)
    PROVE  VisibleOK(d)'
<1>1. pass[d].phase = "apply" /\ outbox' = outbox /\ receipts' = receipts
  BY DEF Apply, CrashApplying, feedVars
<1>2. CASE Pending(outbox[d]) = {}
  <2>1. Underway(pass[d]) = << >> /\ Ids(<< >>) = {}
    BY <1>1 DEF Underway, Ids
  <2>2. \A row \in Rows(d) : row.status # "sending"
    BY <1>1, <2>1 DEF FlightOK, SendingOK
  <2>3. \A k \in DOMAIN outbox[d] : outbox[d][k].status = "blocked"
    <3>1. \A k \in DOMAIN outbox[d] : outbox[d][k] \in QueuedRow /\ outbox[d][k] \in Rows(d)
      BY PlacesAre
    <3>2. \A k \in DOMAIN outbox[d] : outbox[d][k].status # "pending"
      BY <1>2 DEF Pending
    <3> QED
      BY <2>2, <3>1, <3>2 DEF QueuedRow
  <2> QED
    BY <1>1, <2>3 DEF VisibleOK, VisibleAt
<1>3. CASE Pending(outbox[d]) # {}
  <2>1. view' = view
    BY <1>3 DEF Apply, CrashApplying
  <2> QED
    BY <1>1, <2>1, QuietVisible DEF SameScreen
<1> QED
  BY <1>2, <1>3

LEMMA StepVisible ==
    ASSUME SyncInv, NEW d \in Device, FlightOK(d), VisibleOK(d),
           DOMAIN receipts \subseteq DOMAIN receipts',
           MakeEdit(d) \/ Resolve(d) \/ Pass(d) \/ ServeLate(d) \/ Failure(d)
    PROVE  VisibleOK(d)'
<1>1. CASE MakeEdit(d) \/ Resolve(d)
  BY <1>1, EnqueueVisible
<1>2. CASE Begin(d) \/ Submit(d) \/ GiveUp(d)
  BY <1>2, MarkVisible
<1>3. CASE Settle(d)
  BY <1>3, SettleVisible
<1>4. CASE Apply(d) \/ CrashApplying(d)
  BY <1>4, ApplyVisible
<1>5. CASE Serve(d) \/ Answer(d) \/ List(d) \/ ServeLate(d) \/ Crash(d) \/ Offline(d)
  <2>1. outbox' = outbox /\ view' = view
    BY <1>5 DEF Serve, Answer, List, ServeLate, Crash, Offline
  <2> QED
    BY <2>1, QuietVisible DEF SameScreen
<1> QED
  BY <1>1, <1>2, <1>3, <1>4, <1>5 DEF Pass, Failure

-----------------------------------------------------------------------------
(* Queued work is on screen.                                                *)

LEMMA OthersWork ==
    ASSUME WorkInv, DOMAIN receipts \subseteq DOMAIN receipts',
           NEW o \in Device, outbox'[o] = outbox[o], view'[o] = view[o], pass'[o] = pass[o]
    PROVE  FlightOK(o)' /\ VisibleOK(o)'
<1>1. SyncInv /\ FlightOK(o) /\ VisibleOK(o)
  BY DEF WorkInv
<1>2. FlightOK(o)'
  BY <1>1, QuietFlight
<1>3. VisibleOK(o)'
  BY <1>1, QuietVisible DEF SameScreen
<1> QED
  BY <1>2, <1>3

LEMMA WorkKeeps ==
    ASSUME WorkInv, [SyncNext]_syncVars
    PROVE  WorkInv'
<1>1. SyncInv /\ SyncInv' /\ DOMAIN receipts \subseteq DOMAIN receipts'
  BY NextKeeps, ReceiptSteps DEF WorkInv
<1>2. ASSUME NEW d \in Device,
             MakeEdit(d) \/ Resolve(d) \/ Pass(d) \/ ServeLate(d) \/ Failure(d)
      PROVE  \A o \in Device : FlightOK(o)' /\ VisibleOK(o)'
  <2>1. FlightOK(d)' /\ VisibleOK(d)'
    <3>1. FlightOK(d) /\ VisibleOK(d)
      BY DEF WorkInv
    <3>2. FlightOK(d)'
      BY <1>1, <1>2, <3>1, StepFlight
    <3>3. VisibleOK(d)'
      BY <1>1, <1>2, <3>1, StepVisible
    <3> QED
      BY <3>2, <3>3
  <2>2. ASSUME NEW o \in Device \ {d}  PROVE FlightOK(o)' /\ VisibleOK(o)'
    <3>1. outbox'[o] = outbox[o] /\ view'[o] = view[o] /\ pass'[o] = pass[o]
      BY <1>1, <1>2, OthersStay
    <3> QED
      BY <1>1, <3>1, OthersWork
  <2> QED
    BY <2>1, <2>2
<1>3. UNCHANGED <<outbox, view, pass>> => \A o \in Device : FlightOK(o)' /\ VisibleOK(o)'
  BY <1>1, OthersWork
<1>4. (Command \/ UNCHANGED deviceVars \/ UNCHANGED syncVars) => UNCHANGED <<outbox, view, pass>>
  BY DEF Command, deviceVars, syncVars
<1>5. \A o \in Device : FlightOK(o)' /\ VisibleOK(o)'
  BY <1>2, <1>3, <1>4 DEF SyncNext
<1> QED
  BY <1>1, <1>5 DEF WorkInv

LEMMA WorkStarts ==
    ASSUME SyncInit
    PROVE  WorkInv
<1>1. SyncInv
  BY InitIsSound
<1>2. ASSUME NEW d \in Device  PROVE FlightOK(d) /\ VisibleOK(d)
  <2>1. outbox[d] = << >> /\ pass[d].phase = "idle"
    BY DEF SyncInit, Idle
  <2>2. Rows(d) = {} /\ DOMAIN outbox[d] = {}
    BY <2>1 DEF Rows, ToSet
  <2> QED
    BY <2>2 DEF FlightOK, SendingOK, BatchAhead, NamesOK, VisibleOK
<1> QED
  BY <1>1, <1>2 DEF WorkInv

(* The only queued work off the screen is what the server has blocked, which *)
(* the code lets a page of the feed overwrite.  Over any other row there is  *)
(* at most something of the same device: newer queued work that shows in its *)
(* place, or, for an edit that saveRebaseResult merged and queued again,     *)
(* other work of the device that the server answered in the meantime.        *)
THEOREM OnlyBlockedWorkIsHidden == SyncSpec => []OnlyBlockedIsHidden
<1>1. WorkInv => OnlyBlockedIsHidden
  <2> SUFFICES ASSUME WorkInv, NEW d \in Device, NEW k \in DOMAIN outbox[d],
                      outbox[d][k].status # "blocked"
               PROVE  LET row == outbox[d][k]
                          i == Changes(row.id)
                          f == FieldOf[row.id[1]]
                          resolution(r) == Cardinality(r.base) = 2
                      IN  \/ view[d][i].content[f] = IF resolution(row) THEN row.payload[f] ELSE row.id[1]
                          \/ \E j \in k + 1 .. Len(outbox[d]) :
                                LET over == outbox[d][j]
                                IN  Changes(over.id) = i /\ (FieldOf[over.id[1]] = f \/ resolution(over))
                          \/ /\ row.id[2] > 1 /\ ~resolution(row)
                             /\ \E m \in DOMAIN receipts :
                                   Changes(m) = i /\ m[1] \in Writes[d] \ {row.id[1]}
    BY DEF OnlyBlockedIsHidden
  <2>1. PICK rows : rows = outbox[d]
    OBVIOUS
  <2>2. VisibleAt(view[d], DOMAIN receipts, rows, Writes[d], k)
    BY <2>1 DEF WorkInv, VisibleOK
  <2>3. DOMAIN rows = 1 .. Len(rows) /\ Len(rows) \in Nat
    BY <2>1, PlacesAre DEF WorkInv
  <2>4. \A j \in DOMAIN rows : k < j => j \in k + 1 .. Len(rows)
    BY <2>1, <2>3
  <2>5. CASE Displays(view[d], rows[k])
    BY <2>1, <2>5 DEF Displays
  <2>6. CASE \E j \in DOMAIN rows : k < j /\ Covers(rows[j], rows[k])
    BY <2>1, <2>4, <2>6 DEF Covers
  <2>7. CASE Overtaken(Writes[d], DOMAIN receipts, rows[k])
    BY <2>1, <2>7 DEF Overtaken
  <2> QED
    BY <2>1, <2>2, <2>5, <2>6, <2>7 DEF VisibleAt
<1>2. SyncInit => WorkInv
  BY WorkStarts
<1>3. WorkInv /\ [SyncNext]_syncVars => WorkInv'
  BY WorkKeeps
<1> QED
  BY <1>1, <1>2, <1>3, PTL DEF SyncSpec

-----------------------------------------------------------------------------
(* The work of a device on an item nobody else touches.                     *)

\* The submissions of a device that the server may still take.
Sending(d) == IF pass[d].phase = "wait" THEN pass[d].todo ELSE << >>
Handed(d) == ToSet(late[d]) \cup ToSet(Sending(d))
Taken(d) == Opened \cup {s.id : s \in Handed(d)}

\* Nothing has changed an item but edits of the device that name their base, none
\* of its work on it was refused, and none is blocked.
Undisturbed(d, i) ==
    /\ \A q \in DOMAIN feed : Changes(feed[q]) = i => feed[q][1] \in Writes[d] \ Blind
    /\ \A m \in DOMAIN receipts : m[1] \in Writes[d] /\ Changes(m) = i => m \in Accepted
    /\ \A row \in Rows(d) : Changes(row.id) = i => row.status # "blocked"

\* The places of an item in a queue.
Of(rows, i) == {k \in DOMAIN rows : Changes(rows[k].id) = i}
First(places, k) == \A h \in places : ~ (h < k)
Before(places, h, k) == h < k /\ \A g \in places : g < k => g <= h
Final(places, k) == \A g \in places : g <= k

\* The first edit of an item builds on the revision the item has, or is that
\* revision; each other builds on the one queued before it, and is not on its way.
Links(rows, i, k, top, accepted, taken) ==
    \/ /\ First(Of(rows, i), k)
       /\ IF rows[k].id \in accepted THEN top = Canonical(rows[k].id) ELSE rows[k].base = {top}
    \/ /\ \E h \in Of(rows, i) : Before(Of(rows, i), h, k) /\ rows[k].base = {rows[h].local}
       /\ rows[k].id \notin accepted \cup taken

Linked(rows, i, top, accepted, taken) ==
    \A k \in Of(rows, i) : rows[k].id[1] \notin Blind => Links(rows, i, k, top, accepted, taken)

\* The screen shows the last of them, or the revision the item has.
ShownLast(rows, i, top, revision) ==
    \/ Of(rows, i) = {} /\ revision = top
    \/ \E k \in Of(rows, i) : Final(Of(rows, i), k) /\ revision = rows[k].local

OpenQueued(own, rows, i, opened) ==
    \A m \in opened : Changes(m) = i /\ m[1] \in own \ Blind => m \in Ids(rows)

HandedOnTop(rows, i, top, known, handed) ==
    \A s \in handed : Changes(s.id) = i /\ s.id[1] \notin Blind /\ s.id \notin known =>
        s.base = {top} /\ s.id \in Ids(rows)

FetchedOnTop(rows, i, top, p) ==
    p.phase = "apply" /\ i \in DOMAIN p.items /\ Of(rows, i) = {} => p.items[i].revision = top

Chained(d, i) ==
    /\ Linked(outbox[d], i, head[i], Accepted, Taken(d))
    /\ ShownLast(outbox[d], i, head[i], view[d][i].revision)
    /\ OpenQueued(Writes[d], outbox[d], i, Opened)
    /\ HandedOnTop(outbox[d], i, head[i], DOMAIN receipts, Handed(d))
    /\ FetchedOnTop(outbox[d], i, head[i], pass[d])

-----------------------------------------------------------------------------
(* A queue that keeps its work on an item.                                  *)

SameChain(rows, new, i, accepted, was) ==
    /\ DOMAIN rows \subseteq Nat /\ DOMAIN new \subseteq Nat
    /\ was \in [Of(new, i) -> Of(rows, i)]
    /\ \A j, k \in Of(new, i) : j < k => was[j] < was[k]
    /\ \A l \in Of(rows, i) : \E j \in Of(new, i) : was[j] = l
    /\ \A j \in Of(new, i) :
          /\ new[j].id = rows[was[j]].id /\ new[j].local = rows[was[j]].local
          /\ new[j].id[1] \notin Blind /\ new[j].id \notin accepted => new[j].base = rows[was[j]].base

LEMMA SameOrder ==
    ASSUME NEW rows, NEW new, NEW i, NEW accepted, NEW was, SameChain(rows, new, i, accepted, was)
    PROVE  /\ \A j, k \in Of(new, i) : j < k <=> was[j] < was[k]
           /\ \A k \in Of(new, i) : First(Of(rows, i), was[k]) <=> First(Of(new, i), k)
           /\ \A h, k \in Of(new, i) : Before(Of(rows, i), was[h], was[k]) => Before(Of(new, i), h, k)
           /\ \A k \in Of(new, i) : Final(Of(rows, i), was[k]) => Final(Of(new, i), k)
<1>1. PICK from, to : from = Of(rows, i) /\ to = Of(new, i)
  OBVIOUS
<1>2. /\ from \subseteq Nat /\ to \subseteq Nat /\ was \in [to -> from]
      /\ \A j, k \in to : j < k => was[j] < was[k]
      /\ \A l \in from : \E j \in to : was[j] = l
  BY <1>1 DEF SameChain, Of
<1>3. ASSUME NEW j \in to, NEW k \in to  PROVE j < k <=> was[j] < was[k]
  <2>1. j \in Nat /\ k \in Nat /\ was[j] \in Nat /\ was[k] \in Nat
    BY <1>2
  <2>2. j < k => was[j] < was[k]
    BY <1>2
  <2>3. k < j => was[k] < was[j]
    BY <1>2
  <2>4. j = k => was[j] = was[k]
    OBVIOUS
  <2> QED
    BY <2>1, <2>2, <2>3, <2>4
<1>4. ASSUME NEW k \in to  PROVE First(from, was[k]) <=> First(to, k)
  <2>1. ASSUME First(from, was[k]), NEW h \in to, h < k  PROVE FALSE
    BY <1>2, <1>3, <2>1 DEF First
  <2>2. ASSUME First(to, k), NEW l \in from, l < was[k]  PROVE FALSE
    <3>1. PICK h \in to : was[h] = l
      BY <1>2
    <3> QED
      BY <1>3, <2>2, <3>1 DEF First
  <2> QED
    BY <2>1, <2>2 DEF First
<1>5. ASSUME NEW h \in to, NEW k \in to, Before(from, was[h], was[k])  PROVE Before(to, h, k)
  <2>1. h < k
    BY <1>3, <1>5 DEF Before
  <2>2. ASSUME NEW g \in to, g < k  PROVE g <= h
    <3>1. was[g] <= was[h] /\ was[g] \in Nat /\ was[h] \in Nat /\ g \in Nat /\ h \in Nat
      BY <1>2, <1>3, <1>5, <2>2 DEF Before
    <3>2. ~ (h < g)
      BY <1>3, <3>1
    <3> QED
      BY <3>1, <3>2
  <2> QED
    BY <2>1, <2>2 DEF Before
<1>6. ASSUME NEW k \in to, Final(from, was[k])  PROVE Final(to, k)
  <2>1. ASSUME NEW g \in to  PROVE g <= k
    <3>1. was[g] <= was[k] /\ was[g] \in Nat /\ was[k] \in Nat /\ g \in Nat /\ k \in Nat
      BY <1>2, <1>6 DEF Final
    <3>2. ~ (k < g)
      BY <1>3, <3>1
    <3> QED
      BY <3>1, <3>2
  <2> QED
    BY <2>1 DEF Final
<1> QED
  BY <1>1, <1>3, <1>4, <1>5, <1>6

LEMMA LinkedMoves ==
    ASSUME NEW rows, NEW new, NEW i, NEW top, NEW accepted, NEW taken, NEW was,
           SameChain(rows, new, i, accepted, was), Linked(rows, i, top, accepted, taken),
           NEW now, NEW held,
           \A k \in Of(rows, i) : rows[k].id \in now <=> rows[k].id \in accepted,
           \A k \in Of(rows, i) : rows[k].id \in held /\ rows[k].id[1] \notin Blind => rows[k].id \in taken
    PROVE  Linked(new, i, top, now, held)
<1> SUFFICES ASSUME NEW k \in Of(new, i), new[k].id[1] \notin Blind
             PROVE  Links(new, i, k, top, now, held)
  BY DEF Linked
<1>1. /\ was[k] \in Of(rows, i) /\ new[k].id = rows[was[k]].id
      /\ new[k].id \notin accepted => new[k].base = rows[was[k]].base
  BY DEF SameChain
<1>2. Links(rows, i, was[k], top, accepted, taken)
  BY <1>1 DEF Linked
<1>3. CASE First(Of(rows, i), was[k])
           /\ IF rows[was[k]].id \in accepted THEN top = Canonical(rows[was[k]].id)
              ELSE rows[was[k]].base = {top}
  <2>1. First(Of(new, i), k)
    BY <1>3, SameOrder
  <2> QED
    BY <1>1, <1>3, <2>1 DEF Links
<1>4. CASE /\ \E h \in Of(rows, i) : Before(Of(rows, i), h, was[k]) /\ rows[was[k]].base = {rows[h].local}
           /\ rows[was[k]].id \notin accepted \cup taken
  <2>1. PICK h \in Of(rows, i) : Before(Of(rows, i), h, was[k]) /\ rows[was[k]].base = {rows[h].local}
    BY <1>4
  <2>2. PICK j \in Of(new, i) : was[j] = h
    BY DEF SameChain
  <2>3. Before(Of(new, i), j, k) /\ new[j].local = rows[h].local
    BY <2>1, <2>2, SameOrder DEF SameChain
  <2> QED
    BY <1>1, <1>4, <2>1, <2>3 DEF Links
<1> QED
  BY <1>2, <1>3, <1>4 DEF Links

LEMMA ShownMoves ==
    ASSUME NEW rows, NEW new, NEW i, NEW accepted, NEW was, SameChain(rows, new, i, accepted, was),
           NEW top, NEW revision, ShownLast(rows, i, top, revision)
    PROVE  ShownLast(new, i, top, revision)
<1>1. CASE Of(rows, i) = {} /\ revision = top
  BY <1>1 DEF SameChain, ShownLast
<1>2. CASE \E k \in Of(rows, i) : Final(Of(rows, i), k) /\ revision = rows[k].local
  <2>1. PICK k \in Of(rows, i) : Final(Of(rows, i), k) /\ revision = rows[k].local
    BY <1>2
  <2>2. PICK j \in Of(new, i) : was[j] = k
    BY DEF SameChain
  <2>3. Final(Of(new, i), j) /\ new[j].local = rows[k].local
    BY <2>1, <2>2, SameOrder DEF SameChain
  <2> QED
    BY <2>1, <2>3 DEF ShownLast
<1> QED
  BY <1>1, <1>2 DEF ShownLast

LEMMA IdsMove ==
    ASSUME NEW rows, NEW new, NEW i, NEW accepted, NEW was, SameChain(rows, new, i, accepted, was)
    PROVE  /\ \A m \in Ids(rows) : Changes(m) = i => m \in Ids(new)
           /\ Of(new, i) = {} => Of(rows, i) = {}
<1>1. ASSUME NEW m \in Ids(rows), Changes(m) = i  PROVE m \in Ids(new)
  <2>1. PICK k \in DOMAIN rows : m = rows[k].id
    BY DEF Ids
  <2>2. k \in Of(rows, i)
    BY <1>1, <2>1 DEF Of
  <2>3. PICK j \in Of(new, i) : was[j] = k
    BY <2>2 DEF SameChain
  <2>4. j \in DOMAIN new /\ new[j].id = m
    BY <2>1, <2>3 DEF SameChain, Of
  <2> QED
    BY <2>4 DEF Ids
<1> QED
  BY <1>1 DEF SameChain

\* What a step may do to the server and to what it was handed, as a chain sees it.
OpenGrows(d) ==
    \A m \in Opened' :
        m[1] \in Writes[d] =>
            \/ m \in Opened
            \/ /\ m \notin DOMAIN receipts
               /\ \E s \in Handed(d) : s.id = m

LEMMA ChainMoves ==
    ASSUME SyncInv, NEW d \in Device, NEW i \in Item, Chained(d, i),
           NEW was, SameChain(outbox[d], outbox'[d], i, Accepted, was),
           head'[i] = head[i], view'[d][i].revision = view[d][i].revision,
           \A m : Changes(m) = i => (m \in Accepted' <=> m \in Accepted),
           DOMAIN receipts \subseteq DOMAIN receipts', OpenGrows(d), Handed(d)' \subseteq Handed(d),
           pass'[d] = pass[d] \/ FetchedOnTop(outbox'[d], i, head'[i], pass'[d])
    PROVE  Chained(d, i)'
<1>1. PICK rows, new, top, accepted, now, taken, held :
         /\ rows = outbox[d] /\ new = outbox'[d] /\ top = head[i]
         /\ accepted = Accepted /\ now = Accepted' /\ taken = Taken(d) /\ held = Taken(d)'
  OBVIOUS
<1>2. SameChain(rows, new, i, accepted, was) /\ Linked(rows, i, top, accepted, taken)
  BY <1>1 DEF Chained
<1>3. \A k \in Of(rows, i) : Changes(rows[k].id) = i /\ rows[k].id[1] \in Writes[d]
  <2>1. \A k \in DOMAIN rows : rows[k] \in Rows(d)
    BY <1>1, PlacesAre
  <2>2. \A row \in Rows(d) : row.id[1] \in Writes[d]
    BY DeviceParts DEF RowOK
  <2> QED
    BY <2>1, <2>2 DEF Of
<1>4. \A k \in Of(rows, i) : rows[k].id \in held /\ rows[k].id[1] \notin Blind => rows[k].id \in taken
  BY <1>1, <1>3 DEF Taken, OpenGrows
<1>5. Linked(new, i, top, now, held)
  <2>1. \A k \in Of(rows, i) : rows[k].id \in now <=> rows[k].id \in accepted
    BY <1>1, <1>3
  <2> QED
    BY <1>2, <1>4, <2>1, LinkedMoves
<1>6. ShownLast(new, i, top, view[d][i].revision)
  BY <1>1, <1>2, ShownMoves DEF Chained
<1>7. \A m \in Ids(rows) : Changes(m) = i => m \in Ids(new)
  BY <1>2, IdsMove
<1>8. OpenQueued(Writes[d], new, i, Opened')
  <2> SUFFICES ASSUME NEW m \in Opened', Changes(m) = i, m[1] \in Writes[d] \ Blind
               PROVE  m \in Ids(rows)
    BY <1>7 DEF OpenQueued
  <2>1. CASE m \in Opened
    BY <1>1, <2>1 DEF Chained, OpenQueued
  <2>2. CASE m \notin DOMAIN receipts /\ \E s \in Handed(d) : s.id = m
    BY <1>1, <2>2 DEF Chained, HandedOnTop
  <2> QED
    BY <2>1, <2>2 DEF OpenGrows
<1>9. HandedOnTop(new, i, top, DOMAIN receipts', Handed(d)')
  <2>1. HandedOnTop(rows, i, top, DOMAIN receipts, Handed(d))
    BY <1>1 DEF Chained
  <2> QED
    BY <1>7, <2>1 DEF HandedOnTop
<1>10. FetchedOnTop(new, i, top, pass'[d])
  <2>1. CASE pass'[d] = pass[d]
    <3>1. FetchedOnTop(rows, i, top, pass[d]) /\ (Of(new, i) = {} => Of(rows, i) = {})
      BY <1>1, <1>2, IdsMove DEF Chained
    <3> QED
      BY <2>1, <3>1 DEF FetchedOnTop
  <2>2. CASE FetchedOnTop(outbox'[d], i, head'[i], pass'[d])
    BY <1>1, <2>2
  <2> QED
    BY <2>1, <2>2
<1> QED
  BY <1>1, <1>5, <1>6, <1>8, <1>9, <1>10 DEF Chained

-----------------------------------------------------------------------------
(* What a step does to the server and to the submissions of a device.       *)

OwnLate(d) == \A k \in DOMAIN late[d] : late[d][k].id[1] \in Writes[d]

(* What a device has handed over is its own.                                 *)
LEMMA HandedIsOwn ==
    ASSUME SyncInv, NEW d \in Device, OwnLate(d), NEW s \in Handed(d)
    PROVE  s \in Submission /\ s.id[1] \in Writes[d] /\ Issued(s.id)
<1>1. CASE s \in ToSet(late[d])
  <2>1. PICK k \in DOMAIN late[d] : s = late[d][k]
    BY <1>1 DEF ToSet
  <2>2. LateOK(d)
    BY DeviceParts
  <2>3. late[d][k] \in Submission
    BY <2>2, ElementOfSeq DEF LateOK
  <2> QED
    BY <2>1, <2>2, <2>3 DEF OwnLate, LateOK, Sound
<1>2. CASE s \in ToSet(Sending(d))
  <2>1. pass[d].phase = "wait"
    <3>1. DOMAIN << >> = {}
      OBVIOUS
    <3> QED
      BY <1>2, <3>1 DEF Sending, ToSet
  <2>2. PICK p : p = pass[d]
    OBVIOUS
  <2>3. PICK k \in DOMAIN p.todo : s = p.todo[k]
    BY <1>2, <2>1, <2>2 DEF Sending, ToSet
  <2>4. WaitOK(d) /\ p \in WaitPass
    BY <2>1, <2>2, WaitIs
  <2>5. /\ p.todo \in Seq(Submission) /\ p.results \in Seq(Verdict) /\ p.batch \in Seq(QueuedRow)
        /\ Len(p.batch) = Len(p.results) + Len(p.todo)
        /\ p.todo[k].id = p.batch[Len(p.results) + k].id /\ Sound(p.todo[k]) /\ BatchOK(d, p.batch)
    BY <2>2, <2>3, <2>4 DEF WaitOK, WaitPass
  <2>6. k \in 1 .. Len(p.todo) /\ p.todo[k] \in Submission
    BY <2>3, <2>5, ElementOfSeq, LenProperties
  <2>7. Len(p.results) + k \in DOMAIN p.batch
    <3>1. Len(p.results) \in Nat /\ Len(p.todo) \in Nat /\ DOMAIN p.batch = 1 .. Len(p.batch)
      BY <2>5, LenProperties
    <3>2. k \in Nat /\ 1 <= k /\ k <= Len(p.todo)
      BY <2>6, <3>1
    <3>3. ASSUME NEW a \in Nat, NEW b \in Nat, NEW c \in Nat, 1 <= c, c <= b
          PROVE  a + c \in 1 .. a + b
      BY <3>3
    <3>4. Len(p.results) + k \in 1 .. Len(p.results) + Len(p.todo)
      BY <3>1, <3>2, <3>3
    <3>5. Len(p.batch) = Len(p.results) + Len(p.todo)
      BY <2>5
    <3> QED
      BY <3>1, <3>4, <3>5
  <2>8. PICK row \in Rows(d) : row.id = p.batch[Len(p.results) + k].id
    BY <2>5, <2>7 DEF BatchOK
  <2>9. row.id[1] \in Writes[d]
    BY DeviceParts DEF RowOK
  <2> QED
    BY <2>3, <2>5, <2>6, <2>8, <2>9 DEF Sound
<1> QED
  BY <1>1, <1>2 DEF Handed

(* The head of what waits is handed over.                                    *)
LEMMA ServedIsHanded ==
    ASSUME SyncInv, NEW d \in Device
    PROVE  /\ pass[d].phase = "wait" /\ pass[d].todo # << >> =>
                 /\ Head(pass[d].todo) \in Handed(d)
                 /\ ToSet(Tail(pass[d].todo)) \subseteq ToSet(pass[d].todo)
           /\ late[d] # << >> => /\ Head(late[d]) \in Handed(d)
                                 /\ ToSet(Tail(late[d])) \subseteq ToSet(late[d])
<1>1. ASSUME NEW S, NEW seq \in Seq(S), seq # << >>
      PROVE  Head(seq) \in ToSet(seq) /\ ToSet(Tail(seq)) \subseteq ToSet(seq)
  <2>1. /\ Len(seq) \in Nat /\ Len(seq) >= 1 /\ DOMAIN seq = 1 .. Len(seq) /\ Head(seq) = seq[1]
        /\ DOMAIN Tail(seq) = 1 .. Len(seq) - 1
        /\ \A k \in 1 .. Len(seq) - 1 : Tail(seq)[k] = seq[k + 1]
    BY <1>1, HeadIsFirst, LenProperties
  <2>2. ASSUME NEW k \in 1 .. Len(seq) - 1  PROVE k + 1 \in DOMAIN seq /\ Tail(seq)[k] = seq[k + 1]
    BY <2>1
  <2> QED
    BY <2>1, <2>2 DEF ToSet
<1>2. late[d] \in Seq(Submission)
  BY DEF SyncInv
<1>3. pass[d].phase = "wait" => pass[d].todo \in Seq(Submission)
  BY WaitIs DEF WaitPass
<1> QED
  BY <1>1, <1>2, <1>3 DEF Handed, Sending

(* The server takes a submission, answers one, commits, or does nothing.     *)
LEMMA ServerSources ==
    ASSUME SyncInv, [SyncNext]_syncVars
    PROVE  \/ \E o \in Device : \E s \in Handed(o) : Accept(s)
           \/ \E s : s.id[1] \in Direct /\ Accept(s)
           \/ \E o \in Device : \E s \in Handed(o) : \E verdict \in Verdicts(s) : Answers(s, verdict)
           \/ \E i \in Item : Commit(i) /\ UNCHANGED deviceVars
           \/ UNCHANGED <<contents, head, receipts, feed, open>>
<1>1. ASSUME NEW d \in Device, MakeEdit(d) \/ Resolve(d) \/ Failure(d)
      PROVE  UNCHANGED <<contents, head, receipts, feed, open>>
  BY <1>1 DEF MakeEdit, Resolve, Failure, GiveUp, Crash, Offline, CrashApplying, feedVars
<1>2. ASSUME NEW d \in Device, Begin(d) \/ Submit(d) \/ Answer(d) \/ Settle(d) \/ List(d) \/ Apply(d)
      PROVE  UNCHANGED <<contents, head, receipts, feed, open>>
  BY <1>2 DEF Begin, Submit, Answer, Settle, List, Apply, feedVars
<1>3. ASSUME NEW d \in Device, Serve(d)
      PROVE  \E s \in Handed(d) : Accept(s) \/ \E verdict \in Verdicts(s) : Answers(s, verdict)
  BY <1>3, ServedIsHanded DEF Serve
<1>4. ASSUME NEW d \in Device, ServeLate(d)
      PROVE  \E s \in Handed(d) : Accept(s) \/ \E verdict \in Verdicts(s) : Answers(s, verdict)
  BY <1>4, ServedIsHanded DEF ServeLate
<1>5. ASSUME Command  PROVE \E s : s.id[1] \in Direct /\ Accept(s)
  <2>1. PICK e \in Direct :
           Accept([id |-> Fresh(e), base |-> {head[ItemOf[e]]},
                   payload |-> [contents[head[ItemOf[e]]] EXCEPT ![FieldOf[e]] = e]])
    BY <1>5 DEF Command
  <2> QED
    BY <2>1 DEF Fresh
<1>6. ToggleRefusing \/ UNCHANGED syncVars => UNCHANGED <<contents, head, receipts, feed, open>>
  BY DEF ToggleRefusing, syncVars, feedVars
<1> QED
  BY <1>1, <1>2, <1>3, <1>4, <1>5, <1>6 DEF SyncNext, Pass

\* Nothing the server has recorded is taken back.
Recording ==
    /\ \A m \in DOMAIN receipts : m \in DOMAIN receipts' /\ receipts'[m] = receipts[m]
    /\ \A q \in DOMAIN feed : q \in DOMAIN feed' /\ feed'[q] = feed[q]

LEMMA RecordingGoesOn ==
    ASSUME SyncInv, [SyncNext]_syncVars
    PROVE  Recording
<1>1. \A s : Accept(s) => Recording
  BY DEF Accept, Recording
<1>2. \A s, verdict : Answers(s, verdict) => Recording
  BY DEF Answers, Refuse, WriteBlocked, feedVars, Put, Known, Recording
<1>3. ASSUME NEW i \in Item, Commit(i)  PROVE Recording
  <2>1. /\ i \in DOMAIN open /\ open[i].id \notin DOMAIN receipts /\ open[i].sequence \notin DOMAIN feed
    BY <1>3 DEF Commit, SyncInv, ServerInv, OpenOK
  <2> QED
    BY <1>3, <2>1 DEF Commit, Put, Recording
<1>4. UNCHANGED <<contents, head, receipts, feed, open>> => Recording
  BY DEF Recording
<1> QED
  BY <1>1, <1>2, <1>3, <1>4, ServerSources

(* The server works on what its devices hand over, and on what has no queue. *)
LEMMA OpenSource ==
    ASSUME SyncInv, \A o \in Device : OwnLate(o), [SyncNext]_syncVars, NEW d \in Device
    PROVE  OpenGrows(d)
<1>1. ASSUME NEW s, Accept(s)  PROVE s.id \notin DOMAIN receipts /\ Opened' \subseteq Opened \cup {s.id}
  <2>1. PICK i, entry : /\ i = Changes(s.id)
                        /\ entry = [id |-> s.id, sequence |-> drawn + 1, content |-> Result(s)]
    OBVIOUS
  <2>2. open' = Put(open, i, entry) /\ s.id \notin DOMAIN receipts /\ entry.id = s.id
    BY <1>1, <2>1 DEF Accept, Known
  <2> QED
    BY <2>2 DEF Put, Opened
<1>2. \A s, verdict : Answers(s, verdict) => Opened' = Opened
  BY DEF Answers, Refuse, WriteBlocked, feedVars, Opened
<1>3. \A i : Commit(i) => Opened' \subseteq Opened
  BY DEF Commit, Opened
<1>4. CASE \E o \in Device : \E s \in Handed(o) : Accept(s)
  <2>1. PICK o \in Device : \E s \in Handed(o) : Accept(s)
    BY <1>4
  <2>2. PICK s \in Handed(o) : Accept(s)
    BY <2>1
  <2>3. s.id[1] \in Writes[d] => o = d
    BY HandedIsOwn, SyncAssumption
  <2> QED
    BY <1>1, <2>2, <2>3 DEF OpenGrows
<1>5. CASE \E s : s.id[1] \in Direct /\ Accept(s)
  BY <1>1, <1>5, SyncAssumption DEF OpenGrows
<1>6. CASE UNCHANGED <<contents, head, receipts, feed, open>>
  BY <1>6 DEF OpenGrows, Opened
<1> QED
  BY <1>2, <1>3, <1>4, <1>5, <1>6, ServerSources DEF OpenGrows

(* A refusal as a conflict is of a submission whose base the item has left.  *)
LEMMA RefusalSource ==
    ASSUME SyncInv, \A o \in Device : OwnLate(o), [SyncNext]_syncVars,
           NEW d \in Device, NEW m \in DOMAIN receipts' \ DOMAIN receipts,
           m[1] \in Writes[d], receipts'[m].verdict = "conflict"
    PROVE  \E s \in Handed(d) : s.id = m /\ m[1] \notin Blind /\ head[Changes(m)] \notin s.base
<1>1. \A s : Accept(s) => receipts' = receipts
  BY DEF Accept
<1>2. ASSUME NEW i \in Item, Commit(i)  PROVE receipts'[m].verdict = "accepted"
  BY <1>2 DEF Commit, Put
<1>3. ASSUME NEW o \in Device, NEW s \in Handed(o), NEW verdict, Answers(s, verdict)
      PROVE  s.id = m /\ o = d /\ m[1] \notin Blind /\ head[Changes(m)] \notin s.base
  <2>1. Refuse(s, verdict)
    BY <1>3 DEF Answers, WriteBlocked, feedVars
  <2>2. s.id = m /\ receipts'[m] = verdict /\ verdict \in Refusals(s)
    BY <2>1 DEF Refuse, Put
  <2>3. ~Founded(s)
    BY <2>2 DEF Refusals
  <2>4. o = d
    BY <2>2, HandedIsOwn, SyncAssumption
  <2> QED
    BY <2>2, <2>3, <2>4 DEF Founded
<1> QED
  BY <1>1, <1>2, <1>3, ServerSources

(* A device hands over more only when it submits.                            *)
LEMMA HandedStays ==
    ASSUME SyncInv, [SyncNext]_syncVars, NEW d \in Device, ~Submit(d)
    PROVE  /\ Handed(d)' \subseteq Handed(d)
           /\ ToSet(late'[d]) \subseteq Handed(d)
<1> USE DEF SyncInv
<1>1. ToSet(<< >>) = {}
  BY DEF ToSet
<1>2. CASE pass'[d] = pass[d] /\ late'[d] = late[d]
  BY <1>2 DEF Handed, Sending
<1>3. CASE pass'[d].phase # "wait" /\ late'[d] = late[d]
  BY <1>1, <1>3 DEF Handed, Sending
<1>4. ASSUME NEW o \in Device \ {d},
             MakeEdit(o) \/ Resolve(o) \/ Pass(o) \/ ServeLate(o) \/ Failure(o)
      PROVE  pass'[d] = pass[d] /\ late'[d] = late[d]
  <2>1. pass'[d] = pass[d]
    BY <1>4, OthersStay
  <2>2. late' = late \/ (\E value : late' = [late EXCEPT ![o] = value])
    BY <1>4 DEF MakeEdit, Resolve, Pass, Begin, Submit, Serve, Answer, Settle, List, Apply, ServeLate,
                Failure, GiveUp, Crash, Offline, CrashApplying, Abandon
  <2> QED
    BY <2>1, <2>2
<1>5. ASSUME MakeEdit(d) \/ Resolve(d)
      PROVE  late'[d] = late[d] /\ (pass'[d] = pass[d] \/ pass'[d].phase # "wait")
  <2>1. pass'[d] = pass[d] \/ pass'[d] = Idle
    BY <1>5, WorkIsQueued
  <2> QED
    BY <1>5, <2>1 DEF MakeEdit, Resolve, Idle
<1>6. ASSUME Begin(d) \/ Answer(d) \/ List(d) \/ Apply(d) \/ Offline(d) \/ CrashApplying(d)
      PROVE  late'[d] = late[d] /\ pass'[d].phase # "wait"
  BY <1>6 DEF Begin, Answer, List, Apply, Offline, CrashApplying, Submitting, Idle, Listing
<1>7. ASSUME Settle(d)  PROVE late'[d] = late[d] /\ pass'[d].phase # "wait"
  <2>1. PICK merged : Onward(d, merged)
    BY <1>7, ResultSettles
  <2>2. pass[d].phase = "settle" /\ pass[d] \in SettlePass
    BY <1>7, SettleIs DEF Settle
  <2>3. pass'[d] = Submitting(merged) \/ pass'[d].phase = pass[d].phase
    BY <2>1, <2>2 DEF Onward, SettlePass
  <2> QED
    BY <1>7, <2>2, <2>3 DEF Settle, Submitting
<1>8. ASSUME Serve(d) \/ ServeLate(d)  PROVE Handed(d)' \subseteq Handed(d) /\ ToSet(late'[d]) \subseteq Handed(d)
  <2>1. CASE Serve(d)
    <3>1. late'[d] = late[d] /\ pass[d].phase = "wait" /\ pass[d].todo # << >>
      BY <2>1 DEF Serve
    <3>2. pass' = pass \/ \E verdict : pass' = [pass EXCEPT ![d].todo = Tail(@), ![d].results = Append(@, verdict)]
      BY <2>1 DEF Serve
    <3>3. pass[d] \in WaitPass
      BY <3>1, WaitIs
    <3>4. pass'[d] = pass[d] \/ (pass'[d].phase = "wait" /\ pass'[d].todo = Tail(pass[d].todo))
      BY <3>1, <3>2, <3>3 DEF WaitPass
    <3> QED
      BY <3>1, <3>4, ServedIsHanded DEF Handed, Sending
  <2>2. CASE ServeLate(d)
    <3>1. pass'[d] = pass[d] /\ late[d] # << >> /\ (late'[d] = late[d] \/ late'[d] = Tail(late[d]))
      BY <2>2 DEF ServeLate
    <3> QED
      BY <3>1, ServedIsHanded DEF Handed, Sending
  <2> QED
    BY <1>8, <2>1, <2>2
<1>9. ASSUME GiveUp(d) \/ Crash(d)  PROVE Handed(d)' \subseteq Handed(d) /\ ToSet(late'[d]) \subseteq Handed(d)
  <2>1. pass'[d] = Idle /\ (late'[d] = late[d] \/ (pass[d].phase = "wait" /\ late'[d] = pass[d].todo))
    BY <1>9 DEF GiveUp, Crash, Abandon
  <2>2. pass'[d].phase # "wait"
    BY <2>1 DEF Idle
  <2> QED
    BY <1>1, <2>1, <2>2 DEF Handed, Sending
<1>10. ASSUME Command \/ UNCHANGED deviceVars \/ UNCHANGED syncVars
       PROVE  pass'[d] = pass[d] /\ late'[d] = late[d]
  BY <1>10 DEF Command, deviceVars, syncVars
<1>11. ASSUME pass'[d].phase # "wait" \/ pass'[d] = pass[d], late'[d] = late[d]
       PROVE  Handed(d)' \subseteq Handed(d) /\ ToSet(late'[d]) \subseteq Handed(d)
  BY <1>1, <1>11 DEF Handed, Sending
<1> QED
  BY <1>4, <1>5, <1>6, <1>7, <1>8, <1>9, <1>10, <1>11 DEF SyncNext, Pass, Failure

-----------------------------------------------------------------------------
(* What has disturbed an item stays.                                        *)

LEMMA BlockedStays ==
    ASSUME SyncInv, NEW d \in Device, FlightOK(d), [SyncNext]_syncVars,
           NEW old \in Rows(d), old.status = "blocked"
    PROVE  \E row \in Rows(d)' : row.id = old.id /\ row.status = "blocked"
<1>1. PICK rows, new : rows = outbox[d] /\ new = outbox'[d]
  OBVIOUS
<1>2. PICK l \in DOMAIN rows : rows[l] = old
  BY <1>1, PlacesAre
<1>3. /\ \A j, k \in DOMAIN rows : rows[j].id = rows[k].id => j = k
      /\ DOMAIN rows = 1 .. Len(rows)
  BY <1>1, PlacesAre
<1> SUFFICES \E j \in DOMAIN new : new[j].id = old.id /\ new[j].status = "blocked"
  <2>1. ASSUME NEW j \in DOMAIN new  PROVE new[j] \in Rows(d)'
    BY <1>1 DEF Rows, ToSet
  <2> QED
    BY <2>1
<1>4. CASE outbox'[d] = outbox[d]
  BY <1>1, <1>2, <1>4
<1>5. CASE \E ids, s : /\ Restated(d, ids, s)
                       /\ \A k \in DOMAIN outbox[d] : outbox[d][k].id \in ids => outbox[d][k].status # "blocked"
  BY <1>1, <1>2, <1>5 DEF Restated, SameWork
<1>6. CASE Settle(d)
  <2>1. PICK was : Settles(d, Head(pass[d].batch).id, was)
    BY <1>6, ResultSettles
  <2>2. Head(pass[d].batch).id \in Ids(Underway(pass[d]))
    <3>1. pass[d].phase = "settle" /\ Underway(pass[d]) = pass[d].batch
      BY <1>6 DEF Settle, Underway
    <3>2. pass[d].batch \in Seq(QueuedRow) /\ pass[d].batch # << >>
      BY <3>1, SettleIs
    <3>3. 1 \in DOMAIN pass[d].batch /\ Head(pass[d].batch) = pass[d].batch[1]
      BY <3>2, HeadIsFirst
    <3> QED
      BY <3>1, <3>3 DEF Ids
  <2>3. old.id # Head(pass[d].batch).id
    BY <2>2 DEF FlightOK, SendingOK
  <2>4. PICK j \in DOMAIN new : was[j] = l
    BY <1>1, <1>2, <2>1, <2>3 DEF Settles
  <2>5. Settling(d, rows[l], new[j], Head(pass[d].batch).id)
    BY <1>1, <2>1, <2>4 DEF Settles
  <2> QED
    BY <1>2, <2>3, <2>5 DEF Settling, Kin
<1>7. CASE MakeEdit(d) \/ Resolve(d)
  <2>1. PICK e \in Edit : \E row \in QueuedRow : Enqueue(d, row)
    BY <1>7, WorkIsQueued
  <2>2. PICK row \in QueuedRow : Lengthened(d, row)
    BY <2>1, EnqueueLengthens
  <2>3. Len(rows) \in Nat
    BY <1>1, PlacesAre
  <2>4. l \in 1 .. Len(rows) + 1
    BY <1>2, <1>3, <2>3
  <2> QED
    BY <1>1, <1>2, <2>2, <2>4 DEF Lengthened
<1>8. CASE Begin(d) \/ Submit(d) \/ GiveUp(d)
  BY <1>5, <1>8, MarkRestates
<1>9. ASSUME NEW o \in Device \ {d},
             MakeEdit(o) \/ Resolve(o) \/ Pass(o) \/ ServeLate(o) \/ Failure(o)
      PROVE  outbox'[d] = outbox[d]
  BY <1>9, OthersStay
<1>10. ASSUME \/ Serve(d) \/ Answer(d) \/ List(d) \/ Apply(d) \/ ServeLate(d)
              \/ Crash(d) \/ Offline(d) \/ CrashApplying(d)
       PROVE  outbox'[d] = outbox[d]
  BY <1>10 DEF Serve, Answer, List, Apply, ServeLate, Crash, Offline, CrashApplying
<1>11. ASSUME Command \/ UNCHANGED deviceVars \/ UNCHANGED syncVars
       PROVE  outbox'[d] = outbox[d]
  BY <1>11 DEF Command, deviceVars, syncVars
<1> QED
  BY <1>4, <1>6, <1>7, <1>8, <1>9, <1>10, <1>11 DEF SyncNext, Pass, Failure

LEMMA UndisturbedBefore ==
    ASSUME SyncInv, NEW d \in Device, FlightOK(d), [SyncNext]_syncVars, NEW i, Undisturbed(d, i)'
    PROVE  Undisturbed(d, i)
<1>1. Recording
  BY RecordingGoesOn
<1>2. ASSUME NEW q \in DOMAIN feed, Changes(feed[q]) = i  PROVE feed[q][1] \in Writes[d] \ Blind
  BY <1>1, <1>2 DEF Undisturbed, Recording
<1>3. ASSUME NEW m \in DOMAIN receipts, m[1] \in Writes[d], Changes(m) = i  PROVE m \in Accepted
  <2>1. m \in DOMAIN receipts' /\ receipts'[m] = receipts[m]
    BY <1>1 DEF Recording
  <2>2. m \in Accepted'
    BY <1>3, <2>1 DEF Undisturbed
  <2> QED
    BY <2>1, <2>2 DEF Accepted
<1>4. ASSUME NEW old \in Rows(d), Changes(old.id) = i, old.status = "blocked"  PROVE FALSE
  <2>1. PICK row \in Rows(d)' : row.id = old.id /\ row.status = "blocked"
    BY <1>4, BlockedStays
  <2> QED
    BY <1>4, <2>1 DEF Undisturbed
<1> QED
  BY <1>2, <1>3, <1>4 DEF Undisturbed

(* Nothing is accepted, and no head moves, but when a transaction commits.   *)
LEMMA HeadStays ==
    ASSUME SyncInv, [SyncNext]_syncVars, NEW i \in Item, ~Commit(i)
    PROVE  /\ head'[i] = head[i] /\ DOMAIN receipts \subseteq DOMAIN receipts'
           /\ \A m : Changes(m) = i => (m \in Accepted' <=> m \in Accepted)
<1>1. Recording /\ SyncInv'
  BY RecordingGoesOn, NextKeeps
<1>2. ChangesOK /\ ChangesOK'
  BY <1>1 DEF SyncInv, ServerInv
<1>3. \A m \in Accepted : m \in Accepted'
  BY <1>1 DEF Accepted, Recording
<1>4. CASE UNCHANGED <<feed, head>>
  <2>1. ASSUME NEW m \in Accepted'  PROVE m \in Accepted
    <3>1. PICK q \in DOMAIN feed' : feed'[q] = m
      BY <1>2 DEF ChangesOK
    <3> QED
      BY <1>2, <1>4, <3>1 DEF ChangesOK
  <2> QED
    BY <1>1, <1>3, <1>4, <2>1 DEF Recording
<1>5. CASE \E j \in Item : Commit(j) /\ UNCHANGED deviceVars
  <2>1. PICK j \in Item : Commit(j)
    BY <1>5
  <2>2. j # i /\ Changes(open[j].id) = j
    BY <2>1 DEF Commit, SyncInv, ServerInv, OpenOK
  <2>3. head'[i] = head[i]
    BY <2>1, <2>2 DEF Commit, SyncInv, ServerInv, ContentsOK
  <2>4. ASSUME NEW m \in Accepted', m # open[j].id  PROVE m \in Accepted
    <3>1. receipts' = Put(receipts, open[j].id, [verdict |-> "accepted", competing |-> {}])
      BY <2>1 DEF Commit
    <3> QED
      BY <2>4, <3>1 DEF Put, Accepted
  <2> QED
    BY <1>1, <1>3, <2>2, <2>3, <2>4 DEF Recording
<1> QED
  BY <1>4, <1>5, FeedSteps

-----------------------------------------------------------------------------
(* Steps that leave the work of a device as it is.                          *)

Alike(d) ==
    /\ DOMAIN outbox'[d] = DOMAIN outbox[d]
    /\ \A k \in DOMAIN outbox[d] : SameWork(outbox[d][k], outbox'[d][k])

LEMMA AlikeChain ==
    ASSUME SyncInv, \A o \in Device : OwnLate(o), [SyncNext]_syncVars,
           NEW d \in Device, NEW i \in Item, Chained(d, i), ~Commit(i), ~Submit(d), Alike(d),
           view'[d][i].revision = view[d][i].revision,
           pass'[d] = pass[d] \/ FetchedOnTop(outbox'[d], i, head'[i], pass'[d])
    PROVE  Chained(d, i)'
<1>1. PICK rows, new, was : /\ rows = outbox[d] /\ new = outbox'[d]
                            /\ was = [j \in Of(new, i) |-> j]
  OBVIOUS
<1>2. /\ DOMAIN new = DOMAIN rows /\ DOMAIN rows \subseteq Nat
      /\ \A k \in DOMAIN rows : SameWork(rows[k], new[k])
  <2>1. DOMAIN rows = 1 .. Len(rows) /\ Len(rows) \in Nat
    BY <1>1, PlacesAre
  <2> QED
    BY <1>1, <2>1 DEF Alike
<1>3. Of(new, i) = Of(rows, i)
  BY <1>2 DEF Of, SameWork
<1>4. SameChain(rows, new, i, Accepted, was)
  BY <1>1, <1>2, <1>3 DEF SameChain, SameWork, Of
<1>5. /\ head'[i] = head[i] /\ DOMAIN receipts \subseteq DOMAIN receipts'
      /\ \A m : Changes(m) = i => (m \in Accepted' <=> m \in Accepted)
  BY HeadStays
<1>6. OpenGrows(d)
  BY OpenSource
<1>7. Handed(d)' \subseteq Handed(d)
  BY HandedStays
<1> QED
  BY <1>1, <1>4, <1>5, <1>6, <1>7, ChainMoves

(* A page shows each of its items as it is when the page is read.            *)
LEMMA ListFetches ==
    ASSUME NEW d \in Device, SyncInv, List(d), NEW i \in Item
    PROVE  FetchedOnTop(outbox'[d], i, head'[i], pass'[d])
<1>1. PICK page, more :
        pass' = [pass EXCEPT ![d] =
                   [phase |-> "apply", page |-> page,
                    items |-> [j \in {Changes(feed[q]) : q \in page} |->
                                 [revision |-> head[j], content |-> contents[head[j]]]],
                    more |-> more]]
  BY DEF List
<1>2. head' = head
  BY DEF List, feedVars
<1>3. i \in DOMAIN pass'[d].items => pass'[d].items[i].revision = head[i]
  BY <1>1 DEF SyncInv
<1> QED
  BY <1>2, <1>3 DEF FetchedOnTop

\* The screen shows the same revision of an item.
Shows(d, i) == view'[d][i].revision = view[d][i].revision

LEMMA QuietChain ==
    ASSUME SyncInv, \A o \in Device : OwnLate(o), [SyncNext]_syncVars,
           NEW d \in Device, NEW i \in Item, FlightOK(d), Chained(d, i), ~Commit(i),
           ~MakeEdit(d), ~Resolve(d), ~Submit(d), ~Settle(d),
           (Apply(d) \/ CrashApplying(d)) => Shows(d, i)
    PROVE  Chained(d, i)'
<1>1. CASE Alike(d) /\ Shows(d, i) /\ pass'[d] = pass[d]
  BY <1>1, AlikeChain DEF Shows
<1>2. CASE Alike(d) /\ Shows(d, i) /\ pass'[d].phase # "apply"
  BY <1>2, AlikeChain DEF FetchedOnTop, Shows
<1>3. CASE Alike(d) /\ Shows(d, i) /\ FetchedOnTop(outbox'[d], i, head'[i], pass'[d])
  BY <1>3, AlikeChain DEF Shows
<1>4. outbox'[d] = outbox[d] => Alike(d)
  BY DEF Alike, SameWork
<1>5. ASSUME Begin(d) \/ GiveUp(d)
      PROVE  Alike(d) /\ Shows(d, i) /\ pass'[d].phase # "apply"
  <2>1. Alike(d)
    BY <1>5, MarkRestates DEF Alike, Restated
  <2> QED
    BY <1>5, <2>1 DEF Begin, GiveUp, Submitting, Idle, SyncInv, Shows
<1>6. ASSUME Serve(d) \/ Answer(d) \/ Crash(d) \/ Offline(d)
      PROVE  Alike(d) /\ Shows(d, i) /\ pass'[d].phase # "apply"
  <2>1. outbox' = outbox /\ view' = view
    BY <1>6 DEF Serve, Answer, Crash, Offline
  <2>2. ASSUME Answer(d) \/ Crash(d) \/ Offline(d)  PROVE pass'[d].phase # "apply"
    BY <2>2 DEF Answer, Crash, Offline, Idle, SyncInv
  <2>3. ASSUME Serve(d)  PROVE pass'[d].phase # "apply"
    <3>1. pass[d].phase = "wait" /\ pass \in [Device -> PassState]
      BY <2>3 DEF Serve, SyncInv
    <3>2. pass' = pass \/ \E verdict : pass' = [pass EXCEPT ![d].todo = Tail(@), ![d].results = Append(@, verdict)]
      BY <2>3 DEF Serve
    <3>3. pass[d] \in WaitPass
      BY <3>1, WaitIs
    <3>4. pass'[d].phase = "wait"
      BY <3>1, <3>2, <3>3 DEF WaitPass
    <3> QED
      BY <3>4
  <2> QED
    BY <1>4, <1>6, <2>1, <2>2, <2>3 DEF Shows
<1>7. ASSUME Apply(d) \/ CrashApplying(d)
      PROVE  Alike(d) /\ Shows(d, i) /\ pass'[d].phase # "apply"
  <2>1. outbox'[d] = outbox[d] /\ \E next \in {Idle, Listing} : pass' = [pass EXCEPT ![d] = next]
    BY <1>7 DEF Apply, CrashApplying
  <2>2. pass'[d] \in {Idle, Listing}
    BY <2>1 DEF SyncInv
  <2> QED
    BY <1>4, <1>7, <2>1, <2>2 DEF Idle, Listing
<1>8. ASSUME List(d)
      PROVE  /\ Alike(d) /\ Shows(d, i)
             /\ FetchedOnTop(outbox'[d], i, head'[i], pass'[d])
  BY <1>4, <1>8, ListFetches DEF List, Shows
<1>9. ASSUME NEW o \in Device \ {d},
             MakeEdit(o) \/ Resolve(o) \/ Pass(o) \/ ServeLate(o) \/ Failure(o)
      PROVE  Alike(d) /\ Shows(d, i) /\ pass'[d] = pass[d]
  BY <1>4, <1>9, OthersStay DEF Shows
<1>10. ASSUME ServeLate(d) \/ Command \/ UNCHANGED deviceVars \/ UNCHANGED syncVars
       PROVE  Alike(d) /\ Shows(d, i) /\ pass'[d] = pass[d]
  BY <1>4, <1>10 DEF ServeLate, Command, deviceVars, syncVars, Shows
<1> QED
  BY <1>1, <1>2, <1>3, <1>5, <1>6, <1>7, <1>8, <1>9, <1>10 DEF SyncNext, Pass, Failure

-----------------------------------------------------------------------------
(* A device's work on an item is committed.                                 *)

LEMMA CommitChain ==
    ASSUME SyncInv, NEW d \in Device, NEW i \in Item, Commit(i), UNCHANGED deviceVars,
           Chained(d, i), Undisturbed(d, i)'
    PROVE  Chained(d, i)'
<1>1. PICK m, rows, top, accepted, taken :
         /\ m = open[i].id /\ rows = outbox[d] /\ top = head[i]
         /\ accepted = Accepted /\ taken = Taken(d)
  OBVIOUS
<1>2. /\ outbox'[d] = rows /\ view'[d] = view[d] /\ pass'[d] = pass[d] /\ late'[d] = late[d]
  BY <1>1 DEF deviceVars
<1>3. /\ i \in DOMAIN open /\ m \in Mutation /\ Changes(m) = i /\ m \notin DOMAIN receipts
      /\ m \in Opened
  BY <1>1 DEF Commit, SyncInv, ServerInv, OpenOK, Opened
<1>4. /\ head'[i] = Canonical(m)
      /\ DOMAIN receipts' = DOMAIN receipts \cup {m} /\ Accepted' = accepted \cup {m}
  <2>1. head'[i] = Canonical(m)
    BY <1>1, <1>3 DEF Commit, SyncInv, ServerInv, ContentsOK
  <2>2. receipts' = Put(receipts, m, [verdict |-> "accepted", competing |-> {}])
    BY <1>1 DEF Commit
  <2>3. DOMAIN receipts' = DOMAIN receipts \cup {m}
    BY <2>2 DEF Put
  <2>4. receipts'[m].verdict = "accepted" /\ \A n \in DOMAIN receipts : n # m => receipts'[n] = receipts[n]
    BY <2>2 DEF Put
  <2>5. Accepted' = {n \in DOMAIN receipts' : receipts'[n].verdict = "accepted"}
    BY DEF Accepted
  <2> QED
    BY <1>1, <1>3, <2>1, <2>3, <2>4, <2>5 DEF Accepted
<1>5. m[1] \in Writes[d] \ Blind
  <2>1. PICK q : q = open[i].sequence
    OBVIOUS
  <2>2. feed' = Put(feed, q, m)
    BY <1>1, <2>1 DEF Commit
  <2>3. q \in DOMAIN feed' /\ feed'[q] = m
    BY <2>2 DEF Put
  <2> QED
    BY <1>3, <2>3 DEF Undisturbed
<1>6. PICK top0 \in Of(rows, i) : rows[top0].id = m
  <2>1. m \in Ids(rows)
    BY <1>1, <1>3, <1>5 DEF Chained, OpenQueued
  <2> QED
    BY <1>3, <2>1 DEF Ids, Of
<1>7. /\ Of(rows, i) \subseteq DOMAIN rows /\ DOMAIN rows \subseteq Nat
      /\ \A j, k \in DOMAIN rows : rows[j].id = rows[k].id => j = k
  <2>1. DOMAIN rows = 1 .. Len(rows) /\ Len(rows) \in Nat
    BY <1>1, PlacesAre
  <2> QED
    BY <1>1, <2>1, PlacesAre DEF Of
<1>8. ASSUME NEW k \in Of(rows, i), rows[k].id[1] \notin Blind
      PROVE  /\ Links(rows, i, k, top, accepted, taken)
             /\ First(Of(rows, i), k) => k = top0
             /\ rows[k].id \in taken => k = top0
  <2>1. /\ Links(rows, i, k, top, accepted, taken)
        /\ Links(rows, i, top0, top, accepted, taken)
    BY <1>1, <1>5, <1>6, <1>8 DEF Chained, Linked
  <2>2. m \in taken
    BY <1>1, <1>3 DEF Taken
  <2>3. First(Of(rows, i), top0)
    BY <1>6, <2>1, <2>2 DEF Links
  <2>4. First(Of(rows, i), k) => k = top0
    <3>1. k \in Nat /\ top0 \in Nat
      BY <1>7
    <3> QED
      BY <1>6, <2>3, <3>1 DEF First
  <2> QED
    BY <2>1, <2>4 DEF Links
<1>9. Taken(d)' \subseteq taken
  <2>1. Opened' \subseteq Opened
    BY DEF Commit, Opened
  <2>2. Handed(d)' = Handed(d)
    BY <1>2 DEF Handed, Sending
  <2> QED
    BY <1>1, <2>1, <2>2 DEF Taken
<1>10. Linked(rows, i, Canonical(m), accepted \cup {m}, Taken(d)')
  <2> SUFFICES ASSUME NEW k \in Of(rows, i), rows[k].id[1] \notin Blind
               PROVE  Links(rows, i, k, Canonical(m), accepted \cup {m}, Taken(d)')
    BY DEF Linked
  <2>1. CASE First(Of(rows, i), k)
    BY <1>6, <1>8, <2>1 DEF Links
  <2>2. CASE ~First(Of(rows, i), k)
    <3>1. /\ \E h \in Of(rows, i) : Before(Of(rows, i), h, k) /\ rows[k].base = {rows[h].local}
          /\ rows[k].id \notin accepted \cup taken
      BY <1>8, <2>2 DEF Links
    <3>2. m \in taken
      BY <1>1, <1>3 DEF Taken
    <3> QED
      BY <1>9, <3>1, <3>2 DEF Links
  <2> QED
    BY <2>1, <2>2
<1>11. ShownLast(rows, i, Canonical(m), view[d][i].revision)
  BY <1>1, <1>6 DEF Chained, ShownLast
<1>12. OpenQueued(Writes[d], rows, i, Opened')
  <2>1. Opened' \subseteq Opened
    BY DEF Commit, Opened
  <2> QED
    BY <1>1, <2>1 DEF Chained, OpenQueued
<1>13. HandedOnTop(rows, i, Canonical(m), DOMAIN receipts', Handed(d)')
  <2> SUFFICES ASSUME NEW s \in Handed(d), Changes(s.id) = i, s.id[1] \notin Blind,
                      s.id \notin DOMAIN receipts'
               PROVE  FALSE
    <3>1. Handed(d)' = Handed(d)
      BY <1>2 DEF Handed, Sending
    <3> QED
      BY <3>1 DEF HandedOnTop
  <2>1. s.id \in Ids(rows) /\ s.id # m
    BY <1>1, <1>4 DEF Chained, HandedOnTop
  <2>2. PICK k \in Of(rows, i) : rows[k].id = s.id
    BY <2>1 DEF Ids, Of
  <2>3. s.id \in taken
    BY <1>1 DEF Taken
  <2> QED
    BY <1>6, <1>8, <2>1, <2>2, <2>3
<1>14. FetchedOnTop(rows, i, Canonical(m), pass[d])
  BY <1>6 DEF FetchedOnTop
<1> QED
  BY <1>2, <1>4, <1>10, <1>11, <1>12, <1>13, <1>14 DEF Chained

(* What a batch takes of an item is its first edit: one that builds on       *)
(* another waits for it.                                                     *)
LEMMA SubmitChain ==
    ASSUME SyncInv, NEW d \in Device, NEW i \in Item, FlightOK(d), Submit(d),
           Chained(d, i), Undisturbed(d, i)
    PROVE  Chained(d, i)'
<1>1. PICK rows, new, top, accepted, taken, handed :
         /\ rows = outbox[d] /\ new = outbox'[d] /\ top = head[i]
         /\ accepted = Accepted /\ taken = Taken(d) /\ handed = Handed(d)
  OBVIOUS
<1>2. PICK batch \in Seq(QueuedRow) : \E place :
         /\ Batched(d, batch, place) /\ Restated(d, Ids(batch), "sending")
         /\ pass'[d] = [phase |-> "wait", merged |-> pass[d].merged, batch |-> batch,
                        todo |-> [k \in DOMAIN batch |-> Sent(batch[k])], results |-> << >>]
  BY SubmitIs
<1>3. PICK place : Batched(d, batch, place)
  BY <1>2
<1>4. /\ UNCHANGED <<head, receipts, open>> /\ view'[d] = view[d] /\ late'[d] = late[d]
      /\ pass[d].phase = "submit"
  BY DEF Submit, feedVars
<1>5. /\ DOMAIN rows \subseteq Nat
      /\ \A k \in DOMAIN rows : rows[k] \in Rows(d) /\ rows[k] \in QueuedRow
      /\ \A j, k \in DOMAIN rows : rows[j].id = rows[k].id => j = k
  <2>1. DOMAIN rows = 1 .. Len(rows) /\ Len(rows) \in Nat
    BY <1>1, PlacesAre
  <2> QED
    BY <1>1, <2>1, PlacesAre
<1>6. DOMAIN new = DOMAIN rows /\ \A k \in DOMAIN rows : SameWork(rows[k], new[k])
  BY <1>1, <1>2 DEF Restated
<1>7. Of(new, i) = Of(rows, i) /\ Of(rows, i) \subseteq DOMAIN rows
  BY <1>6 DEF Of, SameWork
<1>8. ASSUME NEW h \in Of(rows, i)  PROVE h \in Pending(rows)
  <2>1. rows[h].status # "blocked"
    BY <1>5, <1>7, <1>8 DEF Undisturbed, Of
  <2>2. Underway(pass[d]) = << >> /\ Ids(<< >>) = {}
    BY <1>4 DEF Underway, Ids
  <2>3. rows[h].status # "sending"
    BY <1>4, <1>5, <1>7, <2>2 DEF FlightOK, SendingOK
  <2>4. rows[h].status \in {"pending", "sending", "blocked"}
    BY <1>5, <1>7 DEF QueuedRow
  <2> QED
    BY <1>7, <2>1, <2>3, <2>4 DEF Pending
<1>9. ASSUME NEW k \in Of(rows, i), rows[k].id[1] \notin Blind, rows[k].id \in Ids(batch)
      PROVE  First(Of(rows, i), k)
  <2>1. PICK b \in DOMAIN batch : batch[b].id = rows[k].id
    BY <1>9 DEF Ids
  <2>2. /\ place[b] \in DOMAIN rows /\ batch[b] = rows[place[b]]
        /\ \A h \in Pending(rows) : h < place[b] => rows[h].local \notin batch[b].base
    BY <1>1, <1>3 DEF Batched
  <2>3. place[b] = k
    BY <1>5, <1>7, <2>1, <2>2
  <2>4. ASSUME NEW h \in Of(rows, i), Before(Of(rows, i), h, k), rows[k].base = {rows[h].local}
        PROVE  FALSE
    BY <1>8, <2>2, <2>3, <2>4 DEF Before
  <2>5. Links(rows, i, k, top, accepted, taken)
    BY <1>1, <1>9 DEF Chained, Linked
  <2> QED
    BY <2>4, <2>5 DEF Links
<1>10. ASSUME NEW s \in Handed(d)'
       PROVE  s \in handed \/ \E b \in DOMAIN batch : s = Sent(batch[b])
  <2>1. Sending(d)' = [k \in DOMAIN batch |-> Sent(batch[k])]
    BY <1>2 DEF Sending
  <2> QED
    BY <1>1, <1>4, <1>10, <2>1 DEF Handed, ToSet
<1>11. Linked(new, i, top, accepted, Taken(d)')
  <2> SUFFICES ASSUME NEW k \in Of(rows, i), rows[k].id[1] \notin Blind
               PROVE  Links(new, i, k, top, accepted, Taken(d)')
    BY <1>6, <1>7 DEF Linked, SameWork
  <2>1. Links(rows, i, k, top, accepted, taken)
    BY <1>1 DEF Chained, Linked
  <2>2. CASE First(Of(rows, i), k) /\ IF rows[k].id \in accepted THEN top = Canonical(rows[k].id)
                                      ELSE rows[k].base = {top}
    BY <1>6, <1>7, <2>2 DEF Links, SameWork
  <2>3. CASE ~First(Of(rows, i), k)
    <3>1. PICK h \in Of(rows, i) : Before(Of(rows, i), h, k) /\ rows[k].base = {rows[h].local}
      BY <2>1, <2>3 DEF Links
    <3>2. rows[k].id \notin accepted \cup taken \cup Ids(batch)
      BY <1>9, <2>1, <2>3 DEF Links
    <3>3. rows[k].id \notin Taken(d)'
      <4>1. Opened' = Opened
        BY <1>4 DEF Opened
      <4>2. ASSUME NEW s \in Handed(d)', s.id = rows[k].id  PROVE FALSE
        BY <1>1, <1>10, <3>2, <4>2 DEF Taken, Sent, Ids
      <4> QED
        BY <1>1, <3>2, <4>1, <4>2 DEF Taken
    <3>4. new[k].base = {new[h].local} /\ new[k].id = rows[k].id
      BY <1>6, <1>7, <3>1 DEF SameWork
    <3> QED
      BY <1>7, <3>1, <3>2, <3>3, <3>4 DEF Links
  <2>4. ASSUME NEW h \in Of(rows, i), Before(Of(rows, i), h, k)  PROVE ~First(Of(rows, i), k)
    BY <2>4 DEF First, Before
  <2> QED
    BY <2>1, <2>2, <2>3, <2>4 DEF Links
<1>12. ShownLast(new, i, top, view[d][i].revision)
  <2>1. ShownLast(rows, i, top, view[d][i].revision)
    BY <1>1 DEF Chained
  <2> QED
    BY <1>6, <1>7, <2>1 DEF ShownLast, SameWork
<1>13. Ids(new) = Ids(rows)
  BY <1>6 DEF Ids, SameWork
<1>14. HandedOnTop(new, i, top, DOMAIN receipts, Handed(d)')
  <2> SUFFICES ASSUME NEW s \in Handed(d)', Changes(s.id) = i, s.id[1] \notin Blind,
                      s.id \notin DOMAIN receipts
               PROVE  s.base = {top} /\ s.id \in Ids(rows)
    BY <1>13 DEF HandedOnTop
  <2>1. CASE s \in handed
    BY <1>1, <2>1 DEF Chained, HandedOnTop
  <2>2. ASSUME NEW b \in DOMAIN batch, s = Sent(batch[b])  PROVE s.base = {top} /\ s.id \in Ids(rows)
    <3>1. place[b] \in DOMAIN rows /\ batch[b] = rows[place[b]]
      BY <1>1, <1>3 DEF Batched
    <3>2. s.id = rows[place[b]].id /\ s.base = rows[place[b]].base
      BY <2>2, <3>1 DEF Sent
    <3>3. place[b] \in Of(rows, i) /\ rows[place[b]].id \in Ids(batch)
      BY <3>1, <3>2 DEF Of, Ids
    <3>4. First(Of(rows, i), place[b]) /\ Links(rows, i, place[b], top, accepted, taken)
      BY <1>1, <1>9, <3>2, <3>3 DEF Chained, Linked
    <3>5. s.id \notin accepted
      BY <1>1 DEF Accepted
    <3>6. rows[place[b]].base = {top}
      <4>1. ASSUME NEW h \in Of(rows, i), Before(Of(rows, i), h, place[b])  PROVE FALSE
        BY <3>4, <4>1 DEF First, Before
      <4> QED
        BY <3>2, <3>4, <3>5, <4>1 DEF Links
    <3> QED
      BY <3>1, <3>2, <3>6 DEF Ids
  <2> QED
    BY <1>10, <2>1, <2>2
<1>15. OpenQueued(Writes[d], new, i, Opened)
  BY <1>1, <1>13 DEF Chained, OpenQueued
<1>16. FetchedOnTop(new, i, top, pass'[d])
  BY <1>2 DEF FetchedOnTop
<1>17. Accepted' = accepted /\ Opened' = Opened /\ head'[i] = top
  BY <1>1, <1>4 DEF Accepted, Opened
<1> QED
  BY <1>1, <1>4, <1>11, <1>12, <1>14, <1>15, <1>16, <1>17 DEF Chained

-----------------------------------------------------------------------------
(* The owner works on an item.                                              *)

\* An identity that has not been given out.
Unheard(d, m) == m \notin Accepted /\ m \notin Taken(d)

LEMMA NewIsUnheard ==
    ASSUME SyncInv, NEW d \in Device, OwnLate(d), NEW e \in Edit
    PROVE  Unheard(d, Fresh(e))
<1>1. tries[e] \in Nat
  BY DEF SyncInv, ServerInv, TriesOK
<1>2. ~Issued(Fresh(e))
  BY <1>1 DEF Issued, Fresh
<1>3. Fresh(e) \notin Accepted
  BY <1>2 DEF SyncInv, ServerInv, ReceiptsOK, Accepted
<1>4. Fresh(e) \notin Opened
  BY <1>2 DEF SyncInv, ServerInv, OpenOK, Opened
<1>5. \A s \in Handed(d) : s.id # Fresh(e)
  BY <1>2, HandedIsOwn
<1> QED
  BY <1>3, <1>4, <1>5 DEF Unheard, Taken

(* Work that is added on the item builds on what the screen shows of it.     *)
LEMMA AddedChain ==
    ASSUME SyncInv, NEW d \in Device, NEW i \in Item, Chained(d, i),
           NEW row \in QueuedRow, Changes(row.id) = i, Unheard(d, row.id), Lengthened(d, row),
           row.id[1] \notin Blind => row.base = {view[d][i].revision},
           view'[d][i].revision = row.local,
           UNCHANGED <<head, receipts, open, pass, late>>
    PROVE  Chained(d, i)'
<1>1. PICK rows, new, top, accepted, taken, n :
         /\ rows = outbox[d] /\ new = outbox'[d] /\ top = head[i]
         /\ accepted = Accepted /\ taken = Taken(d) /\ n = Len(outbox[d]) + 1
  OBVIOUS
<1>2. /\ n \in Nat /\ DOMAIN rows = 1 .. n - 1 /\ DOMAIN new = 1 .. n
      /\ \A k \in DOMAIN rows : new[k] = rows[k] /\ k \in Nat /\ k < n
      /\ new[n] = row /\ n \in DOMAIN new /\ n \notin DOMAIN rows
  <2>1. Len(rows) \in Nat /\ DOMAIN rows = 1 .. Len(rows)
    BY <1>1, PlacesAre
  <2>2. /\ DOMAIN new = 1 .. Len(rows) + 1 /\ \A k \in DOMAIN rows : new[k] = rows[k]
        /\ new[Len(rows) + 1] = row
    BY <1>1 DEF Lengthened
  <2> QED
    BY <1>1, <2>1, <2>2
<1>3. Of(new, i) = Of(rows, i) \cup {n} /\ Of(rows, i) \subseteq DOMAIN rows
  <2>1. DOMAIN new = DOMAIN rows \cup {n}
    BY <1>2
  <2> QED
    BY <1>2, <2>1 DEF Of
<1>4. /\ \A k \in Of(rows, i) : First(Of(rows, i), k) <=> First(Of(new, i), k)
      /\ \A h, k \in Of(rows, i) : Before(Of(rows, i), h, k) => Before(Of(new, i), h, k)
  <2>1. \A k \in Of(rows, i) : ~ (n < k)
    BY <1>2, <1>3
  <2> QED
    BY <1>3, <2>1 DEF First, Before
<1>5. Taken(d)' = taken /\ Accepted' = accepted /\ Handed(d)' = Handed(d)
  BY <1>1 DEF Taken, Accepted, Opened, Handed, Sending
<1>6. ShownLast(rows, i, top, view[d][i].revision) /\ Linked(rows, i, top, accepted, taken)
  BY <1>1 DEF Chained
<1>7. row.id[1] \notin Blind => Links(new, i, n, top, accepted, taken)
  <2> SUFFICES ASSUME row.id[1] \notin Blind  PROVE Links(new, i, n, top, accepted, taken)
    OBVIOUS
  <2>1. row.base = {view[d][i].revision} /\ row.id \notin accepted \cup taken
    BY <1>1 DEF Unheard
  <2>2. CASE Of(rows, i) = {} /\ view[d][i].revision = top
    <3>1. First(Of(new, i), n)
      BY <1>2, <1>3, <2>2 DEF First
    <3> QED
      BY <1>2, <2>1, <2>2, <3>1 DEF Links
  <2>3. CASE \E k \in Of(rows, i) : Final(Of(rows, i), k) /\ view[d][i].revision = rows[k].local
    <3>1. PICK k \in Of(rows, i) : Final(Of(rows, i), k) /\ view[d][i].revision = rows[k].local
      BY <2>3
    <3>2. Before(Of(new, i), k, n)
      BY <1>2, <1>3, <3>1 DEF Final, Before
    <3>3. new[n].base = {new[k].local} /\ k \in Of(new, i) /\ new[n].id = row.id
      BY <1>2, <1>3, <2>1, <3>1
    <3> QED
      BY <2>1, <3>2, <3>3 DEF Links
  <2> QED
    BY <1>6, <2>2, <2>3 DEF ShownLast
<1>8. Linked(new, i, top, accepted, taken)
  <2>1. ASSUME NEW k \in Of(rows, i), rows[k].id[1] \notin Blind
        PROVE  Links(new, i, k, top, accepted, taken)
    <3>1. Links(rows, i, k, top, accepted, taken)
      BY <1>6, <2>1 DEF Linked
    <3>2. new[k] = rows[k] /\ \A h \in Of(rows, i) : new[h] = rows[h] /\ h \in Of(new, i)
      BY <1>2, <1>3
    <3> QED
      BY <1>4, <3>1, <3>2 DEF Links
  <2> QED
    BY <1>2, <1>3, <1>7, <2>1 DEF Linked
<1>9. ShownLast(new, i, top, row.local)
  <2>1. Final(Of(new, i), n)
    BY <1>2, <1>3 DEF Final
  <2> QED
    BY <1>2, <1>3, <2>1 DEF ShownLast
<1>10. Ids(rows) \subseteq Ids(new)
  <2>1. ASSUME NEW k \in DOMAIN rows  PROVE rows[k].id \in Ids(new)
    <3>1. k \in DOMAIN new /\ new[k] = rows[k]
      BY <1>2
    <3> QED
      BY <3>1 DEF Ids
  <2> QED
    BY <2>1 DEF Ids
<1>11. OpenQueued(Writes[d], new, i, Opened) /\ Opened' = Opened
  BY <1>1, <1>10 DEF Chained, OpenQueued, Opened
<1>12. HandedOnTop(new, i, top, DOMAIN receipts, Handed(d))
  BY <1>1, <1>10 DEF Chained, HandedOnTop
<1>13. FetchedOnTop(new, i, top, pass[d])
  BY <1>3 DEF FetchedOnTop
<1> QED
  BY <1>1, <1>5, <1>8, <1>9, <1>11, <1>12, <1>13 DEF Chained

(* Work that is added elsewhere leaves the item alone.                       *)
LEMMA AddedElsewhere ==
    ASSUME SyncInv, \A o \in Device : OwnLate(o), [SyncNext]_syncVars,
           NEW d \in Device, NEW i \in Item, Chained(d, i), ~Commit(i), ~Submit(d),
           NEW row \in QueuedRow, Changes(row.id) # i, Lengthened(d, row),
           view'[d][i] = view[d][i], pass'[d] = pass[d] \/ pass'[d] = Idle
    PROVE  Chained(d, i)'
<1>1. PICK rows, new, n, was :
         /\ rows = outbox[d] /\ new = outbox'[d] /\ n = Len(outbox[d])
         /\ was = [j \in Of(new, i) |-> j]
  OBVIOUS
<1>2. /\ n \in Nat /\ DOMAIN rows = 1 .. n /\ DOMAIN new = DOMAIN rows \cup {n + 1}
      /\ DOMAIN rows \subseteq Nat /\ DOMAIN new \subseteq Nat
      /\ \A k \in DOMAIN rows : new[k] = rows[k]
      /\ new[n + 1] = row
  <2>1. n \in Nat /\ DOMAIN rows = 1 .. n
    BY <1>1, PlacesAre
  <2>2. DOMAIN new = 1 .. n + 1
    BY <1>1 DEF Lengthened
  <2> QED
    BY <1>1, <2>1, <2>2 DEF Lengthened
<1>3. Of(new, i) = Of(rows, i)
  BY <1>2 DEF Of
<1>4. SameChain(rows, new, i, Accepted, was)
  BY <1>1, <1>2, <1>3 DEF SameChain, Of
<1>5. /\ head'[i] = head[i] /\ DOMAIN receipts \subseteq DOMAIN receipts'
      /\ \A m : Changes(m) = i => (m \in Accepted' <=> m \in Accepted)
  BY HeadStays
<1>6. OpenGrows(d) /\ Handed(d)' \subseteq Handed(d)
  BY OpenSource, HandedStays
<1>7. pass'[d] = Idle => FetchedOnTop(outbox'[d], i, head'[i], pass'[d])
  BY DEF FetchedOnTop, Idle
<1> QED
  BY <1>1, <1>4, <1>5, <1>6, <1>7, ChainMoves

(* An item with a refused edit has been disturbed; the owner edits, or       *)
(* resolves a conflict elsewhere.                                            *)
LEMMA EnqueueChain ==
    ASSUME SyncInv, \A o \in Device : OwnLate(o), [SyncNext]_syncVars,
           NEW d \in Device, NEW i \in Item, Chained(d, i), Undisturbed(d, i),
           MakeEdit(d) \/ Resolve(d)
    PROVE  Chained(d, i)'
<1>1. ~Submit(d) /\ ~Commit(i)
  <2>1. UNCHANGED feedVars /\ UNCHANGED late
    BY DEF MakeEdit, Resolve
  <2>2. tries' # tries
    <3>1. PICK e \in Edit : \E row \in QueuedRow : row.id = Fresh(e) /\ Enqueue(d, row)
      BY WorkIsQueued
    <3>2. tries' = [tries EXCEPT ![e] = @ + 1]
      BY <3>1 DEF Enqueue, Fresh
    <3>3. tries \in [Edit -> Nat]
      BY DEF SyncInv, ServerInv, TriesOK
    <3> QED
      BY <3>2, <3>3
  <2>3. ~Submit(d)
    BY <2>2 DEF Submit
  <2>4. ASSUME Commit(i)  PROVE FALSE
    <3>1. open' = open /\ open' = [j \in DOMAIN open \ {i} |-> open[j]] /\ i \in DOMAIN open
      BY <2>1, <2>4 DEF Commit, feedVars
    <3> QED
      BY <3>1
  <2> QED
    BY <2>3, <2>4
<1>2. ASSUME MakeEdit(d)  PROVE Chained(d, i)'
  <2>1. PICK e \in Writes[d] :
           Enqueue(d, Row(Fresh(e), IF e \in Blind THEN {} ELSE {view[d][ItemOf[e]].revision},
                          Edited(d, e)))
    BY <1>2 DEF MakeEdit, Edited
  <2>2. PICK row : row = Row(Fresh(e), IF e \in Blind THEN {} ELSE {view[d][ItemOf[e]].revision},
                             Edited(d, e))
    OBVIOUS
  <2>3. /\ row.id = Fresh(e) /\ row.local = Local(row.id) /\ Changes(row.id) = ItemOf[e]
        /\ row.id[1] = e /\ e \in Edit
        /\ row.id[1] \notin Blind => row.base = {view[d][ItemOf[e]].revision}
    BY <2>2, SyncAssumption DEF Row, Fresh, Changes
  <2>4. Enqueue(d, row)
    BY <2>1, <2>2
  <2>5. row \in QueuedRow
    <3>1. PICK f \in Edit : \E other \in QueuedRow : other.id = Fresh(f) /\ Enqueue(d, other)
      BY WorkIsQueued
    <3>2. PICK other \in QueuedRow : Enqueue(d, other)
      BY <3>1
    <3>3. Append(outbox[d], row) = Append(outbox[d], other) /\ outbox[d] \in Seq(QueuedRow)
      BY <2>4, <3>2 DEF Enqueue, SyncInv
    <3> QED
      BY <3>3
  <2>6. Lengthened(d, row) /\ Unheard(d, row.id)
    BY <2>3, <2>4, <2>5, EnqueueLengthens, NewIsUnheard
  <2>7. UNCHANGED <<head, receipts, open, pass, late>>
    BY <1>2 DEF MakeEdit, feedVars
  <2>8. view'[d][i] = IF Changes(row.id) = i THEN [revision |-> row.local, content |-> row.payload]
                      ELSE view[d][i]
    BY <2>4 DEF Enqueue, SyncInv
  <2>9. CASE Changes(row.id) = i
    BY <2>3, <2>5, <2>6, <2>7, <2>8, <2>9, AddedChain
  <2>10. CASE Changes(row.id) # i
    BY <1>1, <2>5, <2>6, <2>7, <2>8, <2>10, AddedElsewhere
  <2> QED
    BY <2>9, <2>10
<1>3. ASSUME Resolve(d)  PROVE Chained(d, i)'
  <2>1. PICK c \in conflicts[d] : \E row : row.id = Fresh(c.id[1]) /\ Enqueue(d, row)
    BY <1>3 DEF Resolve, Row
  <2>2. ConflictOK(d, c) /\ c \in ConflictRecord
    BY DEF SyncInv, DeviceOK, ConflictsOK
  <2>3. Changes(c.id) # i
    BY <2>2 DEF ConflictOK, Undisturbed, Refused, Accepted
  <2>4. PICK row : row.id = Fresh(c.id[1]) /\ Enqueue(d, row)
    BY <2>1
  <2>5. PICK f \in Edit : \E other \in QueuedRow :
           /\ other.id = Fresh(f) /\ Enqueue(d, other)
           /\ pass'[d] = pass[d] \/ pass'[d] = Idle
    BY <1>3, WorkIsQueued
  <2>6. PICK other \in QueuedRow : Enqueue(d, other) /\ (pass'[d] = pass[d] \/ pass'[d] = Idle)
    BY <2>5
  <2>7. Changes(other.id) # i
    <3>1. tries' = [tries EXCEPT ![row.id[1]] = @ + 1] /\ tries' = [tries EXCEPT ![other.id[1]] = @ + 1]
      BY <2>4, <2>6 DEF Enqueue
    <3>2. tries \in [Edit -> Nat] /\ row.id[1] = c.id[1] /\ c.id[1] \in Edit /\ other.id[1] \in Edit
      BY <2>2, <2>4, MutationIs DEF SyncInv, ServerInv, TriesOK, Fresh, ConflictRecord, QueuedRow
    <3>3. row.id[1] = other.id[1]
      BY <3>1, <3>2
    <3> QED
      BY <2>3, <3>2, <3>3 DEF Changes
  <2>8. Lengthened(d, other)
    BY <2>6, EnqueueLengthens
  <2>9. view'[d][i] = view[d][i]
    BY <2>6, <2>7 DEF Enqueue, SyncInv
  <2> QED
    BY <1>1, <2>6, <2>7, <2>8, <2>9, AddedElsewhere
<1> QED
  BY <1>2, <1>3

-----------------------------------------------------------------------------
(* A result is settled.                                                     *)

(* The revision a row stands for is that of no other edit, and what is made  *)
(* of one edit of an item stands in the queue once until it is refused.      *)
LEMMA LocalsApart ==
    ASSUME SyncInv, NEW d \in Device, FlightOK(d), NEW i, Undisturbed(d, i),
           NEW r \in Rows(d), NEW q \in Rows(d), r.local = q.local
    PROVE  Changes(r.id) = Changes(q.id) /\ (Changes(r.id) = i => r.id = q.id)
<1>1. PICK m \in Mutation : m[1] = r.id[1] /\ r.local = Local(m)
  BY DEF FlightOK, NamesOK
<1>2. PICK n \in Mutation : n[1] = q.id[1] /\ q.local = Local(n)
  BY DEF FlightOK, NamesOK
<1>3. r.id[1] = q.id[1]
  <2>1. Local(m)[2] = m /\ Local(n)[2] = n
    BY DEF Local
  <2>2. Local(m) = Local(n)
    BY <1>1, <1>2
  <2>3. m = n
    BY <2>1, <2>2
  <2> QED
    BY <1>1, <1>2, <2>3
<1>4. ASSUME Changes(r.id) = i  PROVE r.id = q.id
  <2>1. PICK e : e = r.id[1]
    OBVIOUS
  <2>2. /\ r.id \in Mutation /\ q.id \in Mutation /\ e \in Writes[d]
        /\ Issued(r.id) /\ Issued(q.id)
    BY <2>1, DeviceParts DEF RowOK, Sound, QueuedRow
  <2>3. /\ e \in Edit /\ r.id[2] \in Nat /\ r.id[2] >= 1 /\ q.id[2] \in Nat /\ q.id[2] >= 1
        /\ r.id = <<e, r.id[2]>> /\ q.id = <<e, q.id[2]>> /\ tries[e] \in Nat
    BY <1>3, <2>1, <2>2, MutationIs DEF SyncInv, ServerInv, TriesOK
  <2>4. tries[e] <= 1
    <3>1. SUFFICES ASSUME tries[e] > 1  PROVE FALSE
      BY <2>3
    <3>2. Refused(<<e, 1>>)
      BY <2>3, <3>1 DEF SyncInv, ServerInv, TriesOK
    <3>3. Changes(<<e, 1>>) = i
      BY <1>4, <2>1 DEF Changes
    <3> QED
      BY <2>2, <3>2, <3>3 DEF Undisturbed, Refused, Accepted
  <2>5. r.id[2] = 1 /\ q.id[2] = 1
    BY <1>3, <2>1, <2>2, <2>3, <2>4 DEF Issued
  <2> QED
    BY <2>3, <2>5
<1> QED
  BY <1>3, <1>4 DEF Changes

(* The row goes, and the others keep what they are but for a base that names *)
(* it.                                                                       *)
AcknowledgedRows(d, k, row) ==
    LET rows == outbox[d]
        new == outbox'[d]
    IN  /\ DOMAIN new = 1 .. Len(rows) - 1
        /\ \A j \in 1 .. Len(rows) - 1 :
              /\ From(k, j) \in DOMAIN rows
              /\ new[j].id = rows[From(k, j)].id /\ new[j].local = rows[From(k, j)].local
              /\ new[j].base = Renamed(rows[From(k, j)].base, row.local, Canonical(row.id))

LEMMA AcknowledgeIs ==
    ASSUME SyncInv, NEW d \in Device, NEW row, NEW k, NEW verdict, Answered(d, row, k, verdict),
           Acknowledge(d, row)
    PROVE  AcknowledgedRows(d, k, row)
<1>1. k \in DOMAIN outbox[d] /\ outbox[d][k].id = row.id
  BY DEF Answered
<1>2. PICK rows : rows = outbox[d]
  OBVIOUS
<1>3. PICK rest : rest = Without(rows, rows[k].id)
  OBVIOUS
<1> DEFINE new == [j \in DOMAIN rest |->
                     [rest[j] EXCEPT !.base = Renamed(rest[j].base, row.local, Canonical(row.id))]]
<1>4. outbox'[d] = new
  BY <1>1, <1>2, <1>3 DEF Acknowledge, Renamed, SyncInv
<1>5. rows \in Seq(QueuedRow) /\ Distinct(rows) /\ k \in DOMAIN rows
  BY <1>1, <1>2, DeviceParts DEF RowsOK
<1>6. /\ DOMAIN rest = 1 .. Len(rows) - 1
      /\ \A j \in 1 .. Len(rows) - 1 : rest[j] = rows[From(k, j)]
  BY <1>3, <1>5, WithoutFrom
<1>7. Len(rows) \in Nat /\ DOMAIN rows = 1 .. Len(rows)
  BY <1>5, LenProperties
<1>8. ASSUME NEW j \in 1 .. Len(rows) - 1
      PROVE  /\ From(k, j) \in DOMAIN rows
             /\ new[j].id = rows[From(k, j)].id /\ new[j].local = rows[From(k, j)].local
             /\ new[j].base = Renamed(rows[From(k, j)].base, row.local, Canonical(row.id))
  <2>1. From(k, j) \in DOMAIN rows
    BY <1>5, <1>7, FromIs
  <2>2. PICK old \in QueuedRow : old = rows[From(k, j)]
    BY <1>5, <2>1, ElementOfSeq
  <2>3. new[j] = [old EXCEPT !.base = Renamed(old.base, row.local, Canonical(row.id))]
    BY <1>6, <2>2
  <2> HIDE DEF new
  <2> QED
    BY <2>1, <2>2, <2>3 DEF QueuedRow
<1>9. DOMAIN new = 1 .. Len(rows) - 1
  BY <1>6
<1> HIDE DEF new
<1> QED
  BY <1>2, <1>4, <1>8, <1>9 DEF AcknowledgedRows

SettledAs(d, row, verdict) ==
    \/ verdict.verdict = "accepted" /\ Acknowledge(d, row)
    \/ verdict.verdict = "conflict" /\ Requeue(d, row, verdict)
    \/ verdict.verdict \in {"conflict", "rejected"} /\ CaptureConflict(d, row, verdict)
    \/ verdict.verdict = "blocked" /\ MarkBlocked(d, row)

(* The bases of rows on other items stay, but for the name of what is        *)
(* accepted.                                                                 *)
LEMMA BasesKept ==
    ASSUME SyncInv, NEW d \in Device, NEW row, NEW k, NEW verdict, Answered(d, row, k, verdict),
           SettledAs(d, row, verdict),
           NEW j \in DOMAIN outbox'[d], NEW l \in DOMAIN outbox[d],
           outbox'[d][j].id = outbox[d][l].id, Changes(outbox[d][l].id) # Changes(row.id)
    PROVE  \/ outbox'[d][j].base = outbox[d][l].base
           \/ outbox'[d][j].base = Renamed(outbox[d][l].base, row.local, Canonical(row.id))
<1>1. PICK rows, new : rows = outbox[d] /\ new = outbox'[d]
  OBVIOUS
<1>2. /\ rows \in Seq(QueuedRow) /\ Distinct(rows) /\ k \in DOMAIN rows /\ rows[k].id = row.id
      /\ Len(rows) \in Nat /\ DOMAIN rows = 1 .. Len(rows)
      /\ \A g, h \in DOMAIN rows : rows[g].id = rows[h].id => g = h
      /\ outbox \in [Device -> Seq(QueuedRow)]
  BY <1>1, PlacesAre, DeviceParts DEF Answered, RowsOK, SyncInv
<1>3. CASE Acknowledge(d, row)
  <2>1. AcknowledgedRows(d, k, row)
    BY <1>3, AcknowledgeIs
  <2>2. /\ From(k, j) \in DOMAIN rows /\ new[j].id = rows[From(k, j)].id
        /\ new[j].base = Renamed(rows[From(k, j)].base, row.local, Canonical(row.id))
    BY <1>1, <2>1 DEF AcknowledgedRows
  <2>3. From(k, j) = l
    BY <1>1, <1>2, <2>2
  <2> QED
    BY <1>1, <2>2, <2>3
<1>4. CASE Requeue(d, row, verdict)
  <2>1. PICK pair : outbox' = [outbox EXCEPT ![d] =
                                 [h \in DOMAIN @ |->
                                    IF @[h].id # row.id THEN @[h]
                                    ELSE [@[h] EXCEPT !.id = Fresh(row.id[1]), !.status = "pending",
                                            !.payload = Merge(contents[pair[1]], row.payload, contents[pair[2]]),
                                            !.base = {pair[2]}]]]
    BY <1>4 DEF Requeue
  <2>2. new = [h \in DOMAIN rows |->
                 IF rows[h].id # row.id THEN rows[h]
                 ELSE [rows[h] EXCEPT !.id = Fresh(row.id[1]), !.status = "pending",
                         !.payload = Merge(contents[pair[1]], row.payload, contents[pair[2]]),
                         !.base = {pair[2]}]]
    BY <1>1, <1>2, <2>1
  <2>3. j \in DOMAIN rows /\ rows[j] \in QueuedRow
    BY <1>1, <1>2, <2>2, ElementOfSeq
  <2>4. CASE rows[j].id # row.id
    <3>1. new[j] = rows[j]
      BY <2>2, <2>3, <2>4
    <3> QED
      BY <1>1, <1>2, <2>3, <3>1
  <2>5. CASE rows[j].id = row.id
    <3>1. PICK old \in QueuedRow : old = rows[j]
      BY <2>3
    <3>2. new[j].id = Fresh(row.id[1])
      BY <2>2, <2>3, <2>5, <3>1 DEF QueuedRow
    <3>3. Changes(new[j].id) = Changes(row.id)
      BY <3>2 DEF Fresh, Changes
    <3> QED
      BY <1>1, <3>3
  <2> QED
    BY <2>4, <2>5
<1>5. CASE CaptureConflict(d, row, verdict)
  <2>1. new = Without(rows, rows[k].id)
    BY <1>1, <1>2, <1>5 DEF CaptureConflict
  <2>2. /\ DOMAIN new = 1 .. Len(rows) - 1
        /\ \A h \in 1 .. Len(rows) - 1 : new[h] = rows[From(k, h)]
    <3>1. rows \in Seq(QueuedRow) /\ Distinct(rows) /\ k \in DOMAIN rows
      BY <1>2
    <3> QED
      BY <2>1, <3>1, WithoutFrom
  <2>3. From(k, j) \in DOMAIN rows
    BY <1>1, <1>2, <2>2, FromIs
  <2>4. From(k, j) = l
    BY <1>1, <1>2, <2>2, <2>3
  <2> QED
    BY <1>1, <2>2, <2>4
<1>6. CASE MarkBlocked(d, row)
  <2>1. Restated(d, {row.id}, "blocked")
    BY <1>2, <1>6, MarkedRestates DEF MarkBlocked
  <2>2. j \in DOMAIN rows /\ SameWork(rows[j], new[j])
    BY <1>1, <2>1 DEF Restated
  <2> QED
    BY <1>1, <1>2, <2>2 DEF SameWork
<1> QED
  BY <1>3, <1>4, <1>5, <1>6 DEF SettledAs

(* The screen keeps its revisions, but for the name of what is accepted.     *)
LEMMA AcknowledgedView ==
    ASSUME SyncInv, NEW d \in Device, NEW row, Acknowledge(d, row), NEW i \in Item
    PROVE  view'[d][i].revision = IF view[d][i].revision = row.local THEN Canonical(row.id)
                                  ELSE view[d][i].revision
<1>1. PICK shown : shown = view[d]
  OBVIOUS
<1>2. view'[d] = [j \in Item |->
                    [shown[j] EXCEPT !.revision =
                       IF shown[j].revision = row.local THEN Canonical(row.id) ELSE shown[j].revision]]
  BY <1>1 DEF Acknowledge, SyncInv
<1>3. shown[i] \in Shown
  BY <1>1 DEF SyncInv
<1> QED
  BY <1>1, <1>2, <1>3 DEF Shown

LEMMA ViewSettles ==
    ASSUME SyncInv, NEW d \in Device, NEW row, NEW verdict, SettledAs(d, row, verdict), NEW i \in Item,
           view[d][i].revision # row.local
    PROVE  view'[d][i].revision = view[d][i].revision
<1>1. CASE Acknowledge(d, row)
  BY <1>1, AcknowledgedView
<1>2. CASE Requeue(d, row, verdict) \/ CaptureConflict(d, row, verdict) \/ MarkBlocked(d, row)
  BY <1>2 DEF Requeue, CaptureConflict, MarkBlocked
<1> QED
  BY <1>1, <1>2 DEF SettledAs

(* A pass goes on with the next result, or looks for more to submit.         *)
LEMMA SettleGoesOn ==
    ASSUME SyncInv, NEW d \in Device, Settle(d)
    PROVE  pass'[d].phase \in {"settle", "submit"}
<1>1. PICK merged : Onward(d, merged)
  BY ResultSettles
<1>2. pass[d].phase = "settle" /\ pass[d] \in SettlePass
  BY SettleIs DEF Settle
<1>3. pass'[d] = Submitting(merged) \/ pass'[d].phase = pass[d].phase
  BY <1>1, <1>2 DEF Onward, SettlePass, SyncInv
<1> QED
  BY <1>2, <1>3 DEF Submitting

LEMMA SettleIsAs ==
    ASSUME SyncInv, NEW d \in Device, Settle(d)
    PROVE  \E row, k, verdict :
              /\ row = Head(pass[d].batch) /\ Answered(d, row, k, verdict) /\ SettledAs(d, row, verdict)
<1>1. pass[d].phase = "settle"
  BY DEF Settle
<1>2. PICK row, verdict : row = Head(pass[d].batch) /\ verdict = Head(pass[d].results)
  OBVIOUS
<1>3. PICK k \in DOMAIN outbox[d] : Answered(d, row, k, verdict)
  BY <1>1, <1>2, HeadIsAnswered
<1>4. SettledAs(d, row, verdict)
  BY <1>2 DEF Settle, SettledAs
<1> QED
  BY <1>2, <1>3, <1>4

(* The name of a row in the batch is that of the row in the queue, which is  *)
(* no revision of the server.                                                *)
LEMMA SettledName ==
    ASSUME SyncInv, NEW d \in Device, FlightOK(d), pass[d].phase = "settle",
           NEW row, row = Head(pass[d].batch), NEW k, NEW verdict, Answered(d, row, k, verdict)
    PROVE  /\ row.local = outbox[d][k].local /\ outbox[d][k].id = row.id
           /\ k \in DOMAIN outbox[d] /\ outbox[d][k] \in Rows(d)
           /\ row.local \notin DOMAIN contents
<1>1. k \in DOMAIN outbox[d] /\ outbox[d][k].id = row.id /\ outbox[d][k] \in Rows(d)
  BY PlacesAre DEF Answered
<1>2. pass[d].batch \in Seq(QueuedRow) /\ pass[d].batch # << >> /\ Underway(pass[d]) = pass[d].batch
  BY SettleIs DEF Underway
<1>3. 1 \in DOMAIN pass[d].batch /\ row = pass[d].batch[1]
  BY <1>2, HeadIsFirst
<1>4. row.local = outbox[d][k].local
  BY <1>1, <1>2, <1>3 DEF FlightOK, NamesOK
<1>5. row.local \notin DOMAIN contents
  <2>1. \E m : row.local = Local(m)
    BY <1>1, <1>4 DEF FlightOK, NamesOK
  <2>2. DOMAIN contents \subseteq {Origin(i) : i \in Item} \cup {Canonical(n) : n \in Accepted}
    BY DEF SyncInv, ServerInv, ContentsOK
  <2> QED
    BY <2>1, <2>2, RevisionsApart
<1> QED
  BY <1>1, <1>4, <1>5

LEMMA SettleElsewhere ==
    ASSUME SyncInv, \A o \in Device : OwnLate(o), [SyncNext]_syncVars,
           NEW d \in Device, NEW i \in Item, FlightOK(d), Undisturbed(d, i), Chained(d, i),
           Settle(d), ~Commit(i), ~Submit(d),
           NEW row, NEW k, NEW verdict, row = Head(pass[d].batch),
           Answered(d, row, k, verdict), SettledAs(d, row, verdict), Changes(row.id) # i
    PROVE  Chained(d, i)'
<1>1. PICK rows, new, top, accepted : /\ rows = outbox[d] /\ new = outbox'[d] /\ top = head[i]
                                      /\ accepted = Accepted
  OBVIOUS
<1>2. PICK old : Settles(d, row.id, old)
  BY ResultSettles
<1> DEFINE was == [j \in Of(new, i) |-> old[j]]
<1>3. /\ DOMAIN rows \subseteq Nat /\ DOMAIN new \subseteq Nat
      /\ \A j, l \in DOMAIN rows : rows[j].id = rows[l].id => j = l
      /\ \A l \in DOMAIN rows : rows[l] \in Rows(d)
  <2>1. DOMAIN rows = 1 .. Len(rows) /\ Len(rows) \in Nat
    BY <1>1, PlacesAre
  <2>2. new \in Seq(QueuedRow)
    <3>1. SyncInv'
      BY SettleKeeps
    <3>2. (outbox \in [Device -> Seq(QueuedRow)])'
      BY <3>1 DEF SyncInv
    <3> QED
      BY <1>1, <3>2
  <2>3. DOMAIN new = 1 .. Len(new) /\ Len(new) \in Nat
    BY <2>2, LenProperties
  <2> QED
    BY <1>1, <2>1, <2>3, PlacesAre
<1>4. ASSUME NEW j \in Of(new, i)
      PROVE  /\ old[j] \in Of(rows, i) /\ new[j].id = rows[old[j]].id
             /\ new[j].local = rows[old[j]].local
  <2>1. j \in DOMAIN new /\ old[j] \in DOMAIN rows /\ Settling(d, rows[old[j]], new[j], row.id)
    BY <1>1, <1>2 DEF Settles, Of
  <2>2. Changes(rows[old[j]].id) = i
    BY <2>1 DEF Of, Settling, Changes
  <2>3. Kin(rows[old[j]], new[j])
    BY <2>1, <2>2 DEF Settling
  <2> QED
    BY <2>1, <2>2, <2>3 DEF Of, Kin
<1>5. ASSUME NEW l \in Of(rows, i)  PROVE \E j \in Of(new, i) : old[j] = l
  <2>1. l \in DOMAIN rows /\ rows[l].id # row.id
    BY DEF Of
  <2>2. PICK j \in DOMAIN new : old[j] = l
    BY <1>1, <1>2, <2>1 DEF Settles
  <2>3. Settling(d, rows[l], new[j], row.id)
    BY <1>1, <1>2, <2>2 DEF Settles
  <2>4. Changes(new[j].id) = i
    BY <2>3 DEF Of, Settling, Changes
  <2> QED
    BY <2>2, <2>4 DEF Of
<1>6. /\ row.local = rows[k].local /\ rows[k].id = row.id /\ k \in DOMAIN rows
      /\ row.local \notin DOMAIN contents
  BY <1>1, SettledName DEF Settle
<1>7. ASSUME NEW l \in Of(rows, i)  PROVE rows[l].local # row.local
  <2>1. rows[l] \in Rows(d) /\ Changes(rows[l].id) = i /\ rows[k] \in Rows(d)
    BY <1>3, <1>6 DEF Of
  <2> QED
    BY <1>6, <2>1, LocalsApart
<1>8. top \in DOMAIN contents
  BY <1>1 DEF SyncInv, ServerInv, ContentsOK
<1>9. ASSUME NEW j \in Of(new, i), new[j].id[1] \notin Blind, new[j].id \notin accepted
      PROVE  new[j].base = rows[old[j]].base
  <2>1. PICK l \in Of(rows, i) : l = old[j] /\ new[j].id = rows[l].id
    BY <1>4
  <2>2. Links(rows, i, l, top, accepted, Taken(d))
    BY <1>1, <1>9, <2>1 DEF Chained, Linked
  <2>3. PICK r : rows[l].base = {r} /\ r # row.local
    BY <1>6, <1>7, <1>8, <1>9, <2>1, <2>2 DEF Links
  <2>4. j \in DOMAIN new /\ l \in DOMAIN rows /\ Changes(rows[l].id) # Changes(row.id)
    BY DEF Of
  <2>5. new[j].base = rows[l].base \/ new[j].base = Renamed(rows[l].base, row.local, Canonical(row.id))
    BY <1>1, <2>1, <2>4, BasesKept
  <2>6. Renamed({r}, row.local, Canonical(row.id)) = {r}
    <3>1. r # row.local
      BY <2>3
    <3> QED
      BY <3>1 DEF Renamed
  <2> QED
    BY <2>1, <2>3, <2>5, <2>6
<1>10. SameChain(rows, new, i, accepted, was)
  <2>1. was \in [Of(new, i) -> Of(rows, i)] /\ \A j \in Of(new, i) : was[j] = old[j]
    BY <1>4
  <2>2. \A j, l \in Of(new, i) : j < l => old[j] < old[l]
    BY <1>1, <1>2 DEF Settles, Of
  <2> HIDE DEF was
  <2> QED
    BY <1>3, <1>4, <1>5, <1>9, <2>1, <2>2 DEF SameChain
<1>11. view'[d][i].revision = view[d][i].revision
  <2>1. view[d][i].revision # row.local
    BY <1>1, <1>6, <1>7, <1>8 DEF Chained, ShownLast
  <2> QED
    BY <2>1, ViewSettles
<1>12. FetchedOnTop(outbox'[d], i, head'[i], pass'[d])
  BY SettleGoesOn DEF FetchedOnTop
<1>13. /\ head'[i] = head[i] /\ DOMAIN receipts \subseteq DOMAIN receipts'
       /\ \A m : Changes(m) = i => (m \in Accepted' <=> m \in Accepted)
  BY HeadStays
<1>14. OpenGrows(d) /\ Handed(d)' \subseteq Handed(d)
  BY OpenSource, HandedStays
<1> HIDE DEF was
<1> QED
  BY <1>1, <1>10, <1>11, <1>12, <1>13, <1>14, ChainMoves

(* The first edit of an item is acknowledged: the next one now builds on the *)
(* revision it has become.                                                   *)
LEMMA AcknowledgeChain ==
    ASSUME SyncInv, \A o \in Device : OwnLate(o), [SyncNext]_syncVars,
           NEW d \in Device, NEW i \in Item, FlightOK(d), Undisturbed(d, i), Chained(d, i),
           Settle(d), ~Commit(i), ~Submit(d),
           NEW row, NEW k, NEW verdict, row = Head(pass[d].batch),
           Answered(d, row, k, verdict), Acknowledge(d, row), verdict.verdict = "accepted",
           Changes(row.id) = i
    PROVE  Chained(d, i)'
<1>1. PICK rows, new, top, accepted, taken, n :
         /\ rows = outbox[d] /\ new = outbox'[d] /\ top = head[i]
         /\ accepted = Accepted /\ taken = Taken(d) /\ n = Len(outbox[d])
  OBVIOUS
<1>2. /\ n \in Nat /\ DOMAIN rows = 1 .. n /\ DOMAIN new = 1 .. n - 1
      /\ \A j, l \in DOMAIN rows : rows[j].id = rows[l].id => j = l
      /\ \A l \in DOMAIN rows : rows[l] \in Rows(d)
      /\ \A j \in DOMAIN new :
            /\ From(k, j) \in DOMAIN rows
            /\ new[j].id = rows[From(k, j)].id /\ new[j].local = rows[From(k, j)].local
            /\ new[j].base = Renamed(rows[From(k, j)].base, row.local, Canonical(row.id))
  <2>1. /\ n \in Nat /\ DOMAIN rows = 1 .. n
        /\ \A j, l \in DOMAIN rows : rows[j].id = rows[l].id => j = l
        /\ \A l \in DOMAIN rows : rows[l] \in Rows(d)
    BY <1>1, PlacesAre
  <2>2. AcknowledgedRows(d, k, row)
    BY AcknowledgeIs
  <2>3. /\ DOMAIN new = 1 .. n - 1
        /\ \A j \in 1 .. n - 1 :
              /\ From(k, j) \in DOMAIN rows
              /\ new[j].id = rows[From(k, j)].id /\ new[j].local = rows[From(k, j)].local
              /\ new[j].base = Renamed(rows[From(k, j)].base, row.local, Canonical(row.id))
    BY <1>1, <2>2 DEF AcknowledgedRows
  <2> QED
    BY <2>1, <2>3
<1>3. /\ row.local = rows[k].local /\ rows[k].id = row.id /\ k \in DOMAIN rows
      /\ row.local \notin DOMAIN contents
  BY <1>1, SettledName DEF Settle
<1>4. /\ \A j \in DOMAIN new : From(k, j) # k
      /\ \A g, j \in DOMAIN new : g < j <=> From(k, g) < From(k, j)
      /\ \A l \in DOMAIN rows : l # k => \E j \in DOMAIN new : From(k, j) = l
  <2>1. n \in Nat /\ k \in 1 .. n
    BY <1>2, <1>3
  <2>2. /\ \A j \in 1 .. n - 1 : From(k, j) \in 1 .. n /\ From(k, j) # k
        /\ \A g, j \in 1 .. n - 1 : g < j <=> From(k, g) < From(k, j)
        /\ \A l \in 1 .. n : l # k => \E j \in 1 .. n - 1 : From(k, j) = l
    BY <2>1, FromIs
  <2> QED
    BY <1>2, <2>2
<1>5. /\ \A j \in Of(new, i) : j \in DOMAIN new /\ From(k, j) \in Of(rows, i)
      /\ \A l \in Of(rows, i) : l # k => \E j \in Of(new, i) : From(k, j) = l
      /\ k \in Of(rows, i)
  BY <1>2, <1>3, <1>4 DEF Of
<1>6. ASSUME NEW l \in Of(rows, i), l # k  PROVE rows[l].local # row.local
  <2>1. rows[l] \in Rows(d) /\ Changes(rows[l].id) = i /\ rows[k] \in Rows(d) /\ l \in DOMAIN rows
    BY <1>2, <1>3 DEF Of
  <2>2. rows[l].id # rows[k].id
    BY <1>2, <1>3, <1>6, <2>1
  <2> QED
    BY <1>3, <2>1, <2>2, LocalsApart
<1>7. row.id \in accepted /\ row.id \in DOMAIN receipts
  BY <1>1, AcceptedIs DEF Answered, Blocked
<1>8. row.id[1] \notin Blind
  <2>1. PICK q \in DOMAIN feed : feed[q] = row.id
    BY <1>1, <1>7 DEF SyncInv, ServerInv, ChangesOK
  <2> QED
    BY <2>1 DEF Undisturbed
<1>9. First(Of(rows, i), k) /\ top = Canonical(row.id)
  <2>1. Links(rows, i, k, top, accepted, taken)
    BY <1>1, <1>3, <1>5, <1>8 DEF Chained, Linked
  <2> QED
    BY <1>3, <1>7, <2>1 DEF Links
<1>10. /\ head'[i] = top /\ DOMAIN receipts \subseteq DOMAIN receipts'
       /\ \A m : Changes(m) = i => (m \in Accepted' <=> m \in accepted)
  BY <1>1, HeadStays
<1>11. Opened' = Opened /\ Handed(d)' \subseteq Handed(d) /\ Taken(d)' \subseteq taken
  <2>1. Opened' = Opened
    BY DEF Settle, feedVars, Opened
  <2>2. Handed(d)' \subseteq Handed(d)
    BY HandedStays
  <2> QED
    BY <1>1, <2>1, <2>2 DEF Taken
<1>12. ASSUME NEW j \in Of(new, i), new[j].id[1] \notin Blind
       PROVE  Links(new, i, j, top, Accepted', Taken(d)')
  <2>1. PICK l \in Of(rows, i) : l = From(k, j) /\ l # k /\ l \in DOMAIN rows
    BY <1>2, <1>4, <1>5
  <2>2. /\ new[j].id = rows[l].id /\ Changes(rows[l].id) = i
        /\ new[j].base = Renamed(rows[l].base, row.local, top)
    BY <1>2, <1>5, <1>9, <2>1 DEF Of
  <2>3. l \in Nat /\ k \in Nat
    BY <1>2, <1>3, <2>1
  <2>4. ~First(Of(rows, i), l)
    BY <1>5, <1>9, <2>1, <2>3 DEF First
  <2>5. Links(rows, i, l, top, accepted, taken)
    BY <1>1, <1>12, <2>2 DEF Chained, Linked
  <2>6. rows[l].id \notin accepted \cup taken
    BY <2>4, <2>5 DEF Links
  <2>7. new[j].id \notin Accepted' \cup Taken(d)'
    BY <1>10, <1>11, <2>2, <2>6
  <2>8. PICK h \in Of(rows, i) : Before(Of(rows, i), h, l) /\ rows[l].base = {rows[h].local}
    BY <2>4, <2>5 DEF Links
  <2>9. CASE h = k
    <3>1. new[j].base = {top}
      <4>1. rows[l].base = {row.local}
        BY <1>3, <2>8, <2>9
      <4>2. Renamed({row.local}, row.local, top) = {top}
        BY DEF Renamed
      <4> QED
        BY <2>2, <4>1, <4>2
    <3>2. ASSUME NEW g \in Of(new, i), g < j  PROVE FALSE
      <4>1. From(k, g) < l /\ From(k, g) \in Of(rows, i) /\ From(k, g) # k /\ From(k, g) \in DOMAIN rows
        BY <1>2, <1>4, <1>5, <2>1, <3>2
      <4>2. From(k, g) <= k /\ From(k, g) \in Nat
        BY <1>2, <2>8, <2>9, <4>1 DEF Before
      <4>3. From(k, g) < k
        BY <2>3, <4>1, <4>2
      <4> QED
        BY <1>9, <4>1, <4>3 DEF First
    <3> QED
      BY <2>7, <3>1, <3>2 DEF Links, First
  <2>10. CASE h # k
    <3>1. PICK g \in Of(new, i) : From(k, g) = h
      BY <1>5, <2>10
    <3>2. new[j].base = {rows[h].local}
      <4>1. PICK r : r = rows[h].local /\ rows[l].base = {r}
        BY <2>8
      <4>2. r # row.local
        BY <1>6, <2>10, <4>1
      <4>3. Renamed({r}, row.local, top) = {r}
        BY <4>2 DEF Renamed
      <4> QED
        BY <2>2, <4>1, <4>3
    <3>3. new[g].local = rows[h].local
      BY <1>2, <1>5, <3>1
    <3>4. Before(Of(new, i), g, j)
      <4>1. g < j
        BY <1>4, <1>5, <2>1, <2>8, <3>1 DEF Before
      <4>2. ASSUME NEW f \in Of(new, i), f < j  PROVE f <= g
        <5>1. From(k, f) < l /\ From(k, f) \in Of(rows, i)
          BY <1>4, <1>5, <2>1, <4>2
        <5>2. From(k, f) <= h
          BY <2>8, <5>1 DEF Before
        <5>3. f \in DOMAIN new /\ g \in DOMAIN new /\ From(k, f) \in DOMAIN rows /\ h \in DOMAIN rows
          BY <1>2, <1>5 DEF Of
        <5>4. f \in Nat /\ g \in Nat /\ From(k, f) \in Nat /\ h \in Nat
          BY <1>2, <5>3
        <5>5. ~(From(k, g) < From(k, f))
          BY <3>1, <5>2, <5>4
        <5>6. ~(g < f)
          BY <1>4, <5>3, <5>5
        <5> QED
          BY <5>4, <5>6
      <4> QED
        BY <4>1, <4>2 DEF Before
    <3> QED
      BY <2>7, <3>2, <3>3, <3>4 DEF Links
  <2> QED
    BY <2>9, <2>10
<1>13. Linked(new, i, top, Accepted', Taken(d)')
  BY <1>12 DEF Linked
<1>14. ShownLast(new, i, top, view'[d][i].revision)
  <2>1. PICK l \in Of(rows, i) : Final(Of(rows, i), l) /\ view[d][i].revision = rows[l].local
    BY <1>1, <1>5 DEF Chained, ShownLast
  <2>2. CASE l = k
    <3>1. view'[d][i].revision = top
      BY <1>3, <1>9, <2>1, <2>2, AcknowledgedView
    <3>2. ASSUME NEW j \in Of(new, i)  PROVE FALSE
      <4>1. /\ From(k, j) \in Of(rows, i) /\ From(k, j) # k /\ From(k, j) <= k
            /\ From(k, j) \in DOMAIN rows
        BY <1>2, <1>4, <1>5, <2>1, <2>2 DEF Final
      <4>2. From(k, j) \in Nat /\ k \in Nat
        BY <1>2, <1>3, <4>1
      <4>3. From(k, j) < k
        BY <4>1, <4>2
      <4> QED
        BY <1>9, <4>1, <4>3 DEF First
    <3> QED
      BY <3>1, <3>2 DEF ShownLast
  <2>3. CASE l # k
    <3>1. view'[d][i].revision = rows[l].local
      BY <1>6, <2>1, <2>3, AcknowledgedView
    <3>2. PICK j \in Of(new, i) : From(k, j) = l
      BY <1>5, <2>3
    <3>3. new[j].local = rows[l].local
      BY <1>2, <1>5, <3>2
    <3>4. Final(Of(new, i), j)
      <4>1. ASSUME NEW g \in Of(new, i)  PROVE g <= j
        <5>1. From(k, g) <= l /\ g \in DOMAIN new /\ j \in DOMAIN new
          BY <1>5, <2>1 DEF Final
        <5>2. From(k, g) \in DOMAIN rows /\ l \in DOMAIN rows
          BY <1>2, <3>2, <5>1
        <5>3. g \in Nat /\ j \in Nat /\ From(k, g) \in Nat /\ l \in Nat
          BY <1>2, <5>1, <5>2
        <5>4. ~(From(k, j) < From(k, g))
          BY <3>2, <5>1, <5>3
        <5>5. ~(j < g)
          BY <1>4, <5>1, <5>4
        <5> QED
          BY <5>3, <5>5
      <4> QED
        BY <4>1 DEF Final
    <3> QED
      BY <3>1, <3>2, <3>3, <3>4 DEF ShownLast
  <2> QED
    BY <2>2, <2>3
<1>15. ASSUME NEW m \in Ids(rows), m # row.id, Changes(m) = i  PROVE m \in Ids(new)
  <2>1. PICK l \in DOMAIN rows : rows[l].id = m
    BY DEF Ids
  <2>2. PICK j \in DOMAIN new : From(k, j) = l
    BY <1>3, <1>4, <1>15, <2>1
  <2> QED
    BY <1>2, <2>1, <2>2 DEF Ids
<1>16. OpenQueued(Writes[d], new, i, Opened')
  <2>1. row.id \notin Opened
    BY <1>7 DEF SyncInv, ServerInv, OpenOK, Opened
  <2> QED
    BY <1>1, <1>11, <1>15, <2>1 DEF Chained, OpenQueued
<1>17. HandedOnTop(new, i, top, DOMAIN receipts', Handed(d)')
  <2> SUFFICES ASSUME NEW s \in Handed(d), Changes(s.id) = i, s.id[1] \notin Blind,
                      s.id \notin DOMAIN receipts'
               PROVE  s.base = {top} /\ s.id \in Ids(new)
    BY <1>11 DEF HandedOnTop
  <2>1. s.base = {top} /\ s.id \in Ids(rows) /\ s.id # row.id
    BY <1>1, <1>7, <1>10 DEF Chained, HandedOnTop
  <2> QED
    BY <1>15, <2>1
<1>18. FetchedOnTop(new, i, top, pass'[d])
  BY SettleGoesOn DEF FetchedOnTop
<1> QED
  BY <1>1, <1>10, <1>13, <1>14, <1>16, <1>17, <1>18 DEF Chained

(* On an item that stays undisturbed the only result is that the first edit  *)
(* is accepted.                                                              *)
LEMMA SettleChain ==
    ASSUME SyncInv, \A o \in Device : OwnLate(o), [SyncNext]_syncVars,
           NEW d \in Device, NEW i \in Item, FlightOK(d), Undisturbed(d, i), Undisturbed(d, i)',
           Chained(d, i), ~Commit(i), Settle(d)
    PROVE  Chained(d, i)'
<1>1. PICK row, k, verdict :
         /\ row = Head(pass[d].batch) /\ Answered(d, row, k, verdict) /\ SettledAs(d, row, verdict)
  BY SettleIsAs
<1>2. ~Submit(d)
  BY DEF Settle, Submit
<1>3. CASE Changes(row.id) # i
  BY <1>1, <1>2, <1>3, SettleElsewhere
<1>4. CASE Changes(row.id) = i /\ verdict.verdict = "accepted" /\ Acknowledge(d, row)
  BY <1>1, <1>2, <1>4, AcknowledgeChain
<1>5. /\ row.id[1] \in Writes[d] /\ k \in DOMAIN outbox[d] /\ outbox[d][k].id = row.id
      /\ verdict = Blocked \/ (row.id \in DOMAIN receipts /\ verdict = receipts[row.id])
  <2>1. outbox[d][k] \in Rows(d)
    BY <1>1, PlacesAre DEF Answered
  <2> QED
    BY <1>1, <2>1, DeviceParts DEF Answered, RowOK
<1>6. ASSUME Changes(row.id) = i, verdict.verdict \in {"conflict", "rejected"}  PROVE FALSE
  <2>1. row.id \in DOMAIN receipts /\ verdict = receipts[row.id]
    BY <1>5, <1>6 DEF Blocked
  <2> QED
    BY <1>5, <1>6, <2>1 DEF Undisturbed, Accepted
<1>7. ASSUME Changes(row.id) = i, MarkBlocked(d, row)  PROVE FALSE
  <2>1. Restated(d, {row.id}, "blocked")
    BY <1>7, MarkedRestates DEF MarkBlocked, SyncInv
  <2>2. k \in DOMAIN outbox'[d] /\ outbox'[d][k].id = row.id /\ outbox'[d][k].status = "blocked"
    BY <1>5, <2>1 DEF Restated, SameWork
  <2>3. outbox'[d][k] \in Rows(d)'
    BY <2>2 DEF Rows, ToSet
  <2> QED
    BY <1>7, <2>2, <2>3 DEF Undisturbed
<1> QED
  BY <1>1, <1>3, <1>4, <1>6, <1>7 DEF SettledAs

(* A page is applied over no work, and brings the revision the item has.     *)
LEMMA ApplyShows ==
    ASSUME SyncInv, NEW d \in Device, NEW i \in Item, FlightOK(d), Undisturbed(d, i), Chained(d, i),
           Apply(d) \/ CrashApplying(d)
    PROVE  Shows(d, i)
<1>1. CASE view' = view
  BY <1>1 DEF Shows
<1>2. CASE Pending(outbox[d]) = {} /\ pass[d].phase = "apply"
           /\ \E part \in SUBSET pass[d].page : Install(d, part)
  <2>1. PICK rows : rows = outbox[d]
    OBVIOUS
  <2>2. \A l \in DOMAIN rows : rows[l] \in Rows(d) /\ rows[l] \in QueuedRow
    BY <2>1, PlacesAre
  <2>3. Underway(pass[d]) = << >> /\ Ids(<< >>) = {}
    BY <1>2 DEF Underway, Ids
  <2>4. ASSUME NEW l \in Of(rows, i)  PROVE FALSE
    <3>1. l \in DOMAIN rows /\ rows[l] \in Rows(d) /\ rows[l] \in QueuedRow /\ Changes(rows[l].id) = i
      BY <2>2 DEF Of
    <3>2. rows[l].status # "pending"
      BY <1>2, <2>1, <3>1 DEF Pending
    <3>3. rows[l].status # "sending"
      BY <1>2, <2>3, <3>1 DEF FlightOK, SendingOK
    <3>4. rows[l].status = "blocked"
      BY <3>1, <3>2, <3>3 DEF QueuedRow
    <3> QED
      BY <3>1, <3>4 DEF Undisturbed
  <2>5. Of(outbox[d], i) = {}
    BY <2>1, <2>4
  <2>6. view[d][i].revision = head[i]
    BY <2>5 DEF Chained, ShownLast
  <2>7. i \in DOMAIN pass[d].items => pass[d].items[i].revision = head[i]
    BY <1>2, <2>5 DEF Chained, FetchedOnTop
  <2>8. PICK part \in SUBSET pass[d].page : Install(d, part)
    BY <1>2
  <2>9. view'[d][i] = IF \E q \in part : Changes(feed[q]) = i THEN pass[d].items[i] ELSE view[d][i]
    BY <2>8 DEF Install, Refreshed, SyncInv
  <2>10. \A q \in part : Changes(feed[q]) = i => i \in DOMAIN pass[d].items
    BY <1>2, <2>8, DeviceParts DEF PassOK, ApplyOK
  <2> QED
    BY <2>6, <2>7, <2>9, <2>10 DEF Shows
<1>3. Apply(d) => \/ view' = view
                  \/ Pending(outbox[d]) = {} /\ pass[d].phase = "apply" /\ Install(d, pass[d].page)
  BY DEF Apply
<1>4. CrashApplying(d) => /\ Pending(outbox[d]) = {} /\ pass[d].phase = "apply"
                          /\ \E next \in pass[d].page : Install(d, {q \in pass[d].page : q < next})
  BY DEF CrashApplying
<1> QED
  BY <1>1, <1>2, <1>3, <1>4

LEMMA StepChain ==
    ASSUME SyncInv, \A o \in Device : OwnLate(o), [SyncNext]_syncVars,
           NEW d \in Device, NEW i \in Item, FlightOK(d),
           Undisturbed(d, i) => Chained(d, i), Undisturbed(d, i)'
    PROVE  Chained(d, i)'
<1>1. Undisturbed(d, i) /\ Chained(d, i)
  BY UndisturbedBefore
<1>2. CASE Commit(i)
  <2>1. UNCHANGED deviceVars
    <3>1. SUFFICES ASSUME UNCHANGED <<feed, head>>  PROVE FALSE
      BY FeedSteps
    <3>2. i \in DOMAIN open /\ open[i].sequence \notin DOMAIN feed
      BY <1>2 DEF Commit, SyncInv, ServerInv, OpenOK
    <3>3. feed' = Put(feed, open[i].sequence, open[i].id)
      BY <1>2 DEF Commit
    <3> QED
      BY <3>1, <3>2, <3>3 DEF Put
  <2> QED
    BY <1>1, <1>2, <2>1, CommitChain
<1>3. CASE ~Commit(i) /\ (MakeEdit(d) \/ Resolve(d))
  BY <1>1, <1>3, EnqueueChain
<1>4. CASE ~Commit(i) /\ Submit(d)
  BY <1>1, <1>4, SubmitChain
<1>5. CASE ~Commit(i) /\ Settle(d)
  BY <1>1, <1>5, SettleChain
<1>6. CASE ~Commit(i) /\ ~MakeEdit(d) /\ ~Resolve(d) /\ ~Submit(d) /\ ~Settle(d)
  <2>1. Apply(d) \/ CrashApplying(d) => Shows(d, i)
    BY <1>1, ApplyShows
  <2> QED
    BY <1>1, <1>6, <2>1, QuietChain
<1> QED
  BY <1>2, <1>3, <1>4, <1>5, <1>6

-----------------------------------------------------------------------------
(* The records of refused work.                                             *)

\* A record has the verdict the server keeps, and its edit has left the queue.
Recorded(d) ==
    \A c \in conflicts[d] :
        /\ c.id \in DOMAIN receipts /\ receipts[c.id].verdict = c.verdict
        /\ \A row \in Rows(d) : row.id # c.id

(* A queue takes up identities that were not given out.                      *)
LEMMA SettledIds ==
    ASSUME SyncInv, NEW d \in Device, Settle(d), NEW row \in Rows(d)'
    PROVE  (\E old \in Rows(d) : old.id = row.id) \/ ~Issued(row.id)
<1>1. PICK first, k, verdict : Answered(d, first, k, verdict) /\ SettledAs(d, first, verdict)
  BY SettleIsAs
<1>2. PICK rows, new : rows = outbox[d] /\ new = outbox'[d]
  OBVIOUS
<1>3. /\ rows \in Seq(QueuedRow) /\ Distinct(rows) /\ k \in DOMAIN rows /\ rows[k].id = first.id
      /\ \A l \in DOMAIN rows : rows[l] \in Rows(d) /\ rows[l] \in QueuedRow
      /\ outbox \in [Device -> Seq(QueuedRow)]
  BY <1>1, <1>2, PlacesAre, DeviceParts DEF Answered, RowsOK, SyncInv
<1>4. PICK j \in DOMAIN new : row = new[j]
  BY <1>2 DEF Rows, ToSet
<1>5. CASE Acknowledge(d, first)
  <2>1. AcknowledgedRows(d, k, first)
    BY <1>1, <1>5, AcknowledgeIs
  <2>2. From(k, j) \in DOMAIN rows /\ new[j].id = rows[From(k, j)].id
    BY <1>2, <1>4, <2>1 DEF AcknowledgedRows
  <2> QED
    BY <1>3, <1>4, <2>2
<1>6. CASE Requeue(d, first, verdict)
  <2>1. PICK pair : outbox' = [outbox EXCEPT ![d] =
                                 [h \in DOMAIN @ |->
                                    IF @[h].id # first.id THEN @[h]
                                    ELSE [@[h] EXCEPT !.id = Fresh(first.id[1]), !.status = "pending",
                                            !.payload = Merge(contents[pair[1]], first.payload, contents[pair[2]]),
                                            !.base = {pair[2]}]]]
    BY <1>6 DEF Requeue
  <2>2. new = [h \in DOMAIN rows |->
                 IF rows[h].id # first.id THEN rows[h]
                 ELSE [rows[h] EXCEPT !.id = Fresh(first.id[1]), !.status = "pending",
                         !.payload = Merge(contents[pair[1]], first.payload, contents[pair[2]]),
                         !.base = {pair[2]}]]
    BY <1>2, <1>3, <2>1
  <2>3. j \in DOMAIN rows /\ rows[j] \in QueuedRow /\ rows[j] \in Rows(d)
    BY <1>3, <1>4, <2>2
  <2>4. CASE rows[j].id # first.id
    BY <1>4, <2>2, <2>3, <2>4
  <2>5. CASE rows[j].id = first.id
    <3>1. PICK old \in QueuedRow : old = rows[j]
      BY <2>3
    <3>2. row.id = Fresh(first.id[1])
      BY <1>4, <2>2, <2>3, <2>5, <3>1 DEF QueuedRow
    <3>3. first.id[1] \in Edit
      BY <2>3, <2>5, MutationIs DEF QueuedRow
    <3>4. tries[first.id[1]] \in Nat
      BY <3>3 DEF SyncInv, ServerInv, TriesOK
    <3> QED
      BY <3>2, <3>4 DEF Fresh, Issued
  <2> QED
    BY <2>4, <2>5
<1>7. CASE CaptureConflict(d, first, verdict)
  <2>1. new = Without(rows, first.id)
    BY <1>2, <1>3, <1>7 DEF CaptureConflict
  <2>2. \A r \in ToSet(new) : r \in Rows(d)
    BY <1>2, <1>3, <2>1, RowGoes
  <2> QED
    BY <1>4, <2>2 DEF ToSet
<1>8. CASE MarkBlocked(d, first)
  <2>1. Restated(d, {first.id}, "blocked")
    BY <1>3, <1>8, MarkedRestates DEF MarkBlocked
  <2> QED
    BY <2>1, RestatedRows DEF SameWork
<1> QED
  BY <1>1, <1>5, <1>6, <1>7, <1>8 DEF SettledAs

LEMMA RowIds ==
    ASSUME SyncInv, NEW d \in Device, FlightOK(d), [SyncNext]_syncVars, NEW row \in Rows(d)'
    PROVE  (\E old \in Rows(d) : old.id = row.id) \/ ~Issued(row.id)
<1>1. CASE outbox'[d] = outbox[d]
  BY <1>1 DEF Rows
<1>2. CASE Begin(d) \/ Submit(d) \/ GiveUp(d)
  <2>1. PICK ids, s : Restated(d, ids, s)
    BY <1>2, MarkRestates
  <2> QED
    BY <2>1, RestatedRows DEF SameWork
<1>3. CASE Settle(d)
  BY <1>3, SettledIds
<1>4. CASE MakeEdit(d) \/ Resolve(d)
  <2>1. PICK e \in Edit : \E new \in QueuedRow : new.id = Fresh(e) /\ Enqueue(d, new)
    BY <1>4, WorkIsQueued
  <2>2. PICK new \in QueuedRow : new.id = Fresh(e) /\ Lengthened(d, new)
    BY <2>1, EnqueueLengthens
  <2>3. PICK j \in DOMAIN outbox'[d] : row = outbox'[d][j]
    BY DEF Rows, ToSet
  <2>4. /\ Len(outbox[d]) \in Nat /\ DOMAIN outbox[d] = 1 .. Len(outbox[d])
        /\ \A k \in DOMAIN outbox[d] : outbox[d][k] \in Rows(d)
    BY PlacesAre
  <2>5. j \in DOMAIN outbox[d] \/ j = Len(outbox[d]) + 1
    BY <2>2, <2>3, <2>4 DEF Lengthened
  <2>6. CASE j \in DOMAIN outbox[d]
    BY <2>2, <2>3, <2>4, <2>6 DEF Lengthened
  <2>7. CASE j = Len(outbox[d]) + 1
    <3>1. row.id = Fresh(e) /\ tries[e] \in Nat
      BY <2>2, <2>3, <2>7 DEF Lengthened, SyncInv, ServerInv, TriesOK
    <3> QED
      BY <3>1 DEF Fresh, Issued
  <2> QED
    BY <2>5, <2>6, <2>7
<1>5. ASSUME NEW o \in Device \ {d},
             MakeEdit(o) \/ Resolve(o) \/ Pass(o) \/ ServeLate(o) \/ Failure(o)
      PROVE  outbox'[d] = outbox[d]
  BY <1>5, OthersStay
<1>6. ASSUME \/ Serve(d) \/ Answer(d) \/ List(d) \/ Apply(d) \/ ServeLate(d)
             \/ Crash(d) \/ Offline(d) \/ CrashApplying(d)
      PROVE  outbox'[d] = outbox[d]
  BY <1>6 DEF Serve, Answer, List, Apply, ServeLate, Crash, Offline, CrashApplying
<1>7. ASSUME Command \/ UNCHANGED deviceVars \/ UNCHANGED syncVars
      PROVE  outbox'[d] = outbox[d]
  BY <1>7 DEF Command, deviceVars, syncVars
<1> QED
  BY <1>1, <1>2, <1>3, <1>4, <1>5, <1>6, <1>7 DEF SyncNext, Pass, Failure

(* A conflict is recorded when its row goes.                                 *)
Captured(d, c) ==
    /\ Settle(d)
    /\ \E row, k, verdict :
          /\ Answered(d, row, k, verdict) /\ verdict.verdict \in {"conflict", "rejected"}
          /\ CaptureConflict(d, row, verdict)
          /\ c.id = row.id /\ c.verdict = verdict.verdict

LEMMA ConflictSource ==
    ASSUME SyncInv, NEW d \in Device, [SyncNext]_syncVars, NEW c \in conflicts'[d]
    PROVE  c \in conflicts[d] \/ Captured(d, c)
<1>1. ASSUME NEW o \in Device, MakeEdit(o) \/ Pass(o) \/ ServeLate(o) \/ Failure(o), ~Settle(o)
      PROVE  conflicts' = conflicts
  BY <1>1 DEF MakeEdit, Pass, Begin, Submit, Serve, Answer, List, Apply, ServeLate,
              Failure, GiveUp, Crash, Offline, CrashApplying
<1>2. ASSUME NEW o \in Device, Resolve(o)  PROVE conflicts'[d] \subseteq conflicts[d]
  <2>1. conflicts' = conflicts \/ \E r : conflicts' = [conflicts EXCEPT ![o] = @ \ {r}]
    BY <1>2 DEF Resolve
  <2> QED
    BY <2>1 DEF SyncInv
<1>3. ASSUME NEW o \in Device, Settle(o)  PROVE c \in conflicts[d] \/ Captured(d, c)
  <2>1. PICK row, k, verdict : Answered(o, row, k, verdict) /\ SettledAs(o, row, verdict)
    BY <1>3, SettleIsAs
  <2>2. CASE Acknowledge(o, row) \/ Requeue(o, row, verdict) \/ MarkBlocked(o, row)
    BY <2>2 DEF Acknowledge, Requeue, MarkBlocked
  <2>3. CASE verdict.verdict \in {"conflict", "rejected"} /\ CaptureConflict(o, row, verdict)
    <3>1. PICK r : /\ r.id = row.id /\ r.verdict = verdict.verdict
                   /\ conflicts' = [conflicts EXCEPT ![o] = @ \cup {r}]
      <4>1. PICK r : r = [id |-> row.id, base |-> row.base, payload |-> row.payload,
                          verdict |-> verdict.verdict, competing |-> verdict.competing]
        OBVIOUS
      <4> QED
        BY <2>3, <4>1 DEF CaptureConflict
    <3>2. c \in conflicts[d] \/ (o = d /\ c = r)
      BY <3>1 DEF SyncInv
    <3> QED
      BY <1>3, <2>1, <2>3, <3>1, <3>2 DEF Captured
  <2> QED
    BY <2>1, <2>2, <2>3 DEF SettledAs
<1>4. ASSUME Command \/ UNCHANGED deviceVars \/ UNCHANGED syncVars
      PROVE  conflicts' = conflicts
  BY <1>4 DEF Command, deviceVars, syncVars
<1> QED
  BY <1>1, <1>2, <1>3, <1>4 DEF SyncNext

LEMMA RecordedStays ==
    ASSUME SyncInv, NEW d \in Device, FlightOK(d), Recorded(d), [SyncNext]_syncVars
    PROVE  Recorded(d)'
<1> SUFFICES ASSUME NEW c \in conflicts'[d]
             PROVE  /\ c.id \in DOMAIN receipts' /\ receipts'[c.id].verdict = c.verdict
                    /\ \A row \in Rows(d)' : row.id # c.id
  BY DEF Recorded
<1>1. Recording
  BY RecordingGoesOn
<1>2. CASE c \in conflicts[d]
  <2>1. /\ c.id \in DOMAIN receipts /\ receipts[c.id].verdict = c.verdict
        /\ \A row \in Rows(d) : row.id # c.id
    BY <1>2 DEF Recorded
  <2>2. Issued(c.id)
    BY <1>2 DEF SyncInv, DeviceOK, ConflictsOK, ConflictOK
  <2> QED
    BY <1>1, <2>1, <2>2, RowIds DEF Recording
<1>3. CASE Captured(d, c)
  <2>1. PICK row, k, verdict :
           /\ Answered(d, row, k, verdict) /\ verdict.verdict \in {"conflict", "rejected"}
           /\ CaptureConflict(d, row, verdict)
           /\ c.id = row.id /\ c.verdict = verdict.verdict
    BY <1>3 DEF Captured
  <2>2. row.id \in DOMAIN receipts /\ verdict = receipts[row.id]
    BY <2>1 DEF Answered, Blocked
  <2>3. outbox'[d] = Without(outbox[d], row.id)
    BY <2>1 DEF CaptureConflict, SyncInv
  <2>4. /\ outbox[d] \in Seq(QueuedRow) /\ Distinct(outbox[d])
        /\ k \in DOMAIN outbox[d] /\ outbox[d][k].id = row.id
    BY <2>1, DeviceParts DEF RowsOK, Answered
  <2>5. \A r \in ToSet(Without(outbox[d], row.id)) : r.id # row.id
    BY <2>4, RowGoes
  <2>6. \A r \in Rows(d)' : r.id # row.id
    BY <2>3, <2>5 DEF Rows
  <2> QED
    BY <1>1, <2>1, <2>2, <2>6 DEF Recording
<1> QED
  BY <1>2, <1>3, ConflictSource

-----------------------------------------------------------------------------
(* Conflicts are real.                                                      *)

\* What is wrong with an item other than the edit itself.
Troubled(d, m) ==
    \/ \E q \in DOMAIN feed :
          /\ Changes(feed[q]) = Changes(m)
          /\ feed[q][1] \notin Writes[d] \/ feed[q][1] \in Blind
    \/ \E n \in Mutation \ {m} :
          /\ n[1] \in Writes[d] /\ Changes(n) = Changes(m)
          /\ Refused(n) \/ \E r \in Rows(d) : r.id = n /\ r.status = "blocked"

\* An edit found in conflict has been troubled, or waits for a write block to end.
Grounded(d) ==
    \A m \in DOMAIN receipts :
        m[1] \in Writes[d] /\ receipts[m].verdict = "conflict" =>
            \/ Troubled(d, m)
            \/ \E r \in Rows(d) : r.id = m /\ r.status = "blocked"

ChainInv ==
    /\ WorkInv
    /\ \A d \in Device :
          /\ OwnLate(d) /\ Recorded(d) /\ Grounded(d)
          /\ \A i \in Item : Undisturbed(d, i) => Chained(d, i)

LEMMA TroubleStays ==
    ASSUME SyncInv, NEW d \in Device, FlightOK(d), [SyncNext]_syncVars, NEW m, Troubled(d, m)
    PROVE  Troubled(d, m)'
<1>1. Recording
  BY RecordingGoesOn
<1>2. CASE \E q \in DOMAIN feed :
              /\ Changes(feed[q]) = Changes(m)
              /\ feed[q][1] \notin Writes[d] \/ feed[q][1] \in Blind
  BY <1>1, <1>2 DEF Recording, Troubled
<1>3. CASE \E n \in Mutation \ {m} :
              /\ n[1] \in Writes[d] /\ Changes(n) = Changes(m)
              /\ Refused(n) \/ \E r \in Rows(d) : r.id = n /\ r.status = "blocked"
  <2>1. PICK n \in Mutation \ {m} :
           /\ n[1] \in Writes[d] /\ Changes(n) = Changes(m)
           /\ Refused(n) \/ \E r \in Rows(d) : r.id = n /\ r.status = "blocked"
    BY <1>3
  <2>2. Refused(n) => Refused(n)'
    BY <1>1 DEF Refused, Recording
  <2>3. (\E r \in Rows(d) : r.id = n /\ r.status = "blocked") =>
           \E r \in Rows(d)' : r.id = n /\ r.status = "blocked"
    BY BlockedStays
  <2> QED
    BY <2>1, <2>2, <2>3 DEF Troubled
<1> QED
  BY <1>2, <1>3 DEF Troubled

(* What has disturbed an item troubles an edit the server has no verdict on. *)
LEMMA DisturbedIsTroubled ==
    ASSUME SyncInv, NEW d \in Device, NEW m, m \notin DOMAIN receipts,
           ~Undisturbed(d, Changes(m))
    PROVE  Troubled(d, m) \/ \E r \in Rows(d) : r.id = m /\ r.status = "blocked"
<1>1. CASE \E q \in DOMAIN feed : Changes(feed[q]) = Changes(m) /\ feed[q][1] \notin Writes[d] \ Blind
  BY <1>1 DEF Troubled
<1>2. CASE \E n \in DOMAIN receipts : n[1] \in Writes[d] /\ Changes(n) = Changes(m) /\ n \notin Accepted
  <2>1. PICK n \in DOMAIN receipts : n[1] \in Writes[d] /\ Changes(n) = Changes(m) /\ n \notin Accepted
    BY <1>2
  <2>2. n \in Mutation \ {m} /\ Refused(n)
    BY <2>1 DEF Refused, Accepted, SyncInv, ServerInv, ReceiptsOK
  <2> QED
    BY <2>1, <2>2 DEF Troubled
<1>3. CASE \E row \in Rows(d) : Changes(row.id) = Changes(m) /\ row.status = "blocked"
  <2>1. PICK row \in Rows(d) : Changes(row.id) = Changes(m) /\ row.status = "blocked"
    BY <1>3
  <2>2. row.id \in Mutation /\ row.id[1] \in Writes[d]
    BY <2>1, DeviceParts DEF RowOK, QueuedRow
  <2> QED
    BY <2>1, <2>2 DEF Troubled
<1> QED
  BY <1>1, <1>2, <1>3 DEF Undisturbed

LEMMA GroundedStays ==
    ASSUME SyncInv, NEW d \in Device, FlightOK(d), \A o \in Device : OwnLate(o),
           \A i \in Item : Undisturbed(d, i) => Chained(d, i), Grounded(d), [SyncNext]_syncVars
    PROVE  Grounded(d)'
<1> SUFFICES ASSUME NEW m \in DOMAIN receipts', m[1] \in Writes[d], receipts'[m].verdict = "conflict"
             PROVE  Troubled(d, m)' \/ \E r \in Rows(d)' : r.id = m /\ r.status = "blocked"
  BY DEF Grounded
<1>1. SUFFICES Troubled(d, m) \/ \E r \in Rows(d) : r.id = m /\ r.status = "blocked"
  BY TroubleStays, BlockedStays
<1>2. CASE m \in DOMAIN receipts
  <2>1. receipts[m] = receipts'[m]
    BY <1>2, RecordingGoesOn DEF Recording
  <2> QED
    BY <1>2, <2>1 DEF Grounded
<1>3. CASE m \notin DOMAIN receipts
  <2>1. PICK s \in Handed(d) : s.id = m /\ m[1] \notin Blind /\ head[Changes(m)] \notin s.base
    BY <1>3, RefusalSource
  <2>2. Changes(m) \in Item
    BY <2>1, HandedIsOwn, MutationIs DEF Submission
  <2>3. ~Chained(d, Changes(m))
    BY <1>3, <2>1 DEF Chained, HandedOnTop
  <2> QED
    BY <1>3, <2>2, <2>3, DisturbedIsTroubled
<1> QED
  BY <1>2, <1>3

LEMMA OwnLateStays ==
    ASSUME SyncInv, NEW d \in Device, OwnLate(d), [SyncNext]_syncVars
    PROVE  OwnLate(d)'
<1>1. CASE Submit(d)
  BY <1>1 DEF Submit, OwnLate
<1>2. CASE ~Submit(d)
  <2>1. ToSet(late'[d]) \subseteq Handed(d)
    BY <1>2, HandedStays
  <2> QED
    BY <2>1, HandedIsOwn DEF OwnLate, ToSet
<1> QED
  BY <1>1, <1>2

LEMMA ChainKeeps ==
    ASSUME ChainInv, [SyncNext]_syncVars
    PROVE  ChainInv'
<1>1. WorkInv /\ WorkInv' /\ SyncInv /\ \A o \in Device : FlightOK(o) /\ OwnLate(o)
  BY WorkKeeps DEF ChainInv, WorkInv
<1>2. ASSUME NEW d \in Device  PROVE OwnLate(d)' /\ Recorded(d)' /\ Grounded(d)'
  <2>1. Recorded(d) /\ Grounded(d) /\ \A i \in Item : Undisturbed(d, i) => Chained(d, i)
    BY DEF ChainInv
  <2>2. OwnLate(d)'
    BY <1>1, OwnLateStays
  <2>3. Recorded(d)'
    BY <1>1, <2>1, RecordedStays
  <2>4. Grounded(d)'
    BY <1>1, <2>1, GroundedStays
  <2> QED
    BY <2>2, <2>3, <2>4
<1>3. ASSUME NEW d \in Device, NEW i \in Item, Undisturbed(d, i)'  PROVE Chained(d, i)'
  <2>1. Undisturbed(d, i) => Chained(d, i)
    BY DEF ChainInv
  <2> QED
    BY <1>1, <1>3, <2>1, StepChain
<1> QED
  BY <1>1, <1>2, <1>3 DEF ChainInv

LEMMA ChainStarts ==
    ASSUME SyncInit
    PROVE  ChainInv
<1>1. WorkInv
  BY WorkStarts
<1>2. ASSUME NEW d \in Device
      PROVE  /\ outbox[d] = << >> /\ late[d] = << >> /\ conflicts[d] = {} /\ pass[d] = Idle
             /\ receipts = << >> /\ open = << >>
             /\ \A i \in Item : view[d][i].revision = head[i]
  BY DEF SyncInit, FeedInit
<1>3. /\ DOMAIN << >> = {} /\ ToSet(<< >>) = {}
  BY DEF ToSet
<1>4. ASSUME NEW d \in Device  PROVE OwnLate(d) /\ Recorded(d) /\ Grounded(d)
  BY <1>2, <1>3, <1>4 DEF OwnLate, Recorded, Grounded
<1>5. ASSUME NEW d \in Device, NEW i \in Item  PROVE Chained(d, i)
  <2>1. Of(outbox[d], i) = {}
    BY <1>2, <1>3 DEF Of
  <2>2. Opened = {} /\ Handed(d) = {}
    BY <1>2, <1>3 DEF Opened, Handed, Sending, Idle
  <2>3. pass[d].phase # "apply"
    BY <1>2 DEF Idle
  <2> QED
    BY <1>2, <2>1, <2>2, <2>3 DEF Chained, Linked, ShownLast, OpenQueued, HandedOnTop, FetchedOnTop
<1> QED
  BY <1>1, <1>4, <1>5 DEF ChainInv

(* A device that is merely behind itself is never in conflict: for a record  *)
(* of a conflict there is a change of another client to the item in the      *)
(* feed, an edit of the device that names no base, or other work of the      *)
(* device on the item that was refused or is blocked.  An item none of that  *)
(* has happened to has its queued edits chained, each on the one before it,  *)
(* so that the server only gets to see the first one, on the head.           *)
THEOREM ConflictsAreFounded == SyncSpec => []ConflictsAreReal
<1>1. SyncInit => ChainInv
  BY ChainStarts
<1>2. ChainInv /\ [SyncNext]_syncVars => ChainInv'
  BY ChainKeeps
<1>3. ChainInv => ConflictsAreReal
  <2> SUFFICES ASSUME ChainInv, NEW d \in Device, NEW c \in conflicts[d], c.verdict = "conflict"
               PROVE  Troubled(d, c.id)
    BY DEF ConflictsAreReal, Troubled
  <2>1. SyncInv /\ Recorded(d) /\ Grounded(d)
    BY DEF ChainInv, WorkInv
  <2>2. c.id[1] \in Writes[d]
    BY <2>1 DEF SyncInv, DeviceOK, ConflictsOK, ConflictOK
  <2> QED
    BY <2>1, <2>2 DEF Recorded, Grounded
<1> QED
  BY <1>1, <1>2, <1>3, PTL DEF SyncSpec

================================================================================
