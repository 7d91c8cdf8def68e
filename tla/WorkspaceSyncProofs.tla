--------------------------- MODULE WorkspaceSyncProofs ---------------------------
(***************************************************************************)
(* Proofs about the reconciliation of a workspace, for any devices, edits, *)
(* items, limits and failures.                                             *)
(***************************************************************************)
EXTENDS WorkspaceSync, FiniteSetTheorems, SequenceTheorems,
        WellFoundedInduction, NaturalsInduction, TLAPS

-----------------------------------------------------------------------------
(* Types.                                                                   *)

Revision ==
    {Origin(i) : i \in Item} \cup {Local(m) : m \in Mutation} \cup {Canonical(m) : m \in Mutation}
Verdict ==
    [verdict : {"accepted", "conflict", "rejected", "blocked"}, competing : SUBSET Revision]
QueuedRow ==
    [id : Mutation, base : SUBSET Revision, payload : Content,
     local : {Local(m) : m \in Mutation}, status : {"pending", "sending", "blocked"}]
Submission == [id : Mutation, base : SUBSET Revision, payload : Content]
ConflictRecord ==
    [id : Mutation, base : SUBSET Revision, payload : Content,
     verdict : {"conflict", "rejected"}, competing : SUBSET Revision]
Shown == [revision : Revision, content : Content]

SubmitPass == [phase : {"submit"}, merged : SUBSET Mutation]
WaitPass == [phase : {"wait"}, merged : SUBSET Mutation, batch : Seq(QueuedRow),
             todo : Seq(Submission), results : Seq(Verdict)]
SettlePass == [phase : {"settle"}, merged : SUBSET Mutation, batch : Seq(QueuedRow),
               results : Seq(Verdict)]
ApplyPass == [phase : {"apply"}, page : SUBSET Nat, items : UNION {[I -> Shown] : I \in SUBSET Item},
              more : BOOLEAN]
PassState == {Idle, Listing} \cup SubmitPass \cup WaitPass \cup SettlePass \cup ApplyPass

-----------------------------------------------------------------------------
(* The server: one identity of an edit is accepted at most, and only the   *)
(* revisions of accepted identities exist.                                  *)

Issued(m) == m[2] <= tries[m[1]]
Opened == {open[i].id : i \in DOMAIN open}

TriesOK ==
    /\ tries \in [Edit -> Nat]
    /\ \A e \in Edit :
          /\ tries[e] <= MaxTries[e]
          /\ e \in Blind => tries[e] <= 1
          /\ tries[e] > 1 => Refused(<<e, 1>>)

ContentsOK ==
    /\ contents \in [DOMAIN contents -> Content]
    /\ DOMAIN contents \subseteq {Origin(i) : i \in Item} \cup {Canonical(m) : m \in Accepted}
    /\ \A m \in Accepted : Canonical(m) \in DOMAIN contents
    /\ head \in [Item -> DOMAIN contents]
    /\ refusing \in BOOLEAN

ReceiptsOK ==
    /\ receipts \in [DOMAIN receipts -> Verdict] /\ DOMAIN receipts \subseteq Mutation
    /\ \A m \in DOMAIN receipts :
          /\ Issued(m)
          /\ receipts[m].verdict # "blocked"
          /\ receipts[m].competing \subseteq DOMAIN contents
          /\ receipts[m].competing # {} => m[1] \notin Blind
    /\ \A m, n \in Accepted : m[1] = n[1] => m = n

ChangesOK ==
    /\ drawn \in Nat /\ DOMAIN feed \subseteq 1 .. drawn
    /\ feed \in [DOMAIN feed -> Accepted]
    /\ \A m \in Accepted : \E q \in DOMAIN feed : feed[q] = m
    /\ \A p, q \in DOMAIN feed : feed[p] = feed[q] => p = q

OpenOK ==
    /\ DOMAIN open \subseteq Item
    /\ open \in [DOMAIN open -> [id : Mutation, sequence : Nat, content : Content]]
    /\ \A i \in DOMAIN open :
          /\ Issued(open[i].id) /\ Changes(open[i].id) = i
          /\ open[i].id \notin DOMAIN receipts
          /\ \A m \in Accepted : m[1] # open[i].id[1]
          /\ open[i].sequence \in (1 .. drawn) \ DOMAIN feed
    /\ \A i, j \in DOMAIN open : open[i].sequence = open[j].sequence => i = j

ServerInv == TriesOK /\ ContentsOK /\ ReceiptsOK /\ ChangesOK /\ OpenOK

-----------------------------------------------------------------------------
(* The devices.                                                             *)

\* A revision the server does not know is one of the device's own.
Named(base) == \A r \in base : r \in DOMAIN contents \/ r[1] = "local"

\* An edit that is submitted again rests on revisions of the server, and can no
\* longer be founded once the server has accepted the edit.
Sound(s) ==
    /\ Issued(s.id)
    /\ s.id[2] > 1 => s.base \subseteq DOMAIN contents
    /\ s.id \notin DOMAIN receipts /\ (\E m \in Accepted : m[1] = s.id[1]) =>
          head[Changes(s.id)] \notin s.base

\* An edit names one base or none, a resolution two that the server knows.  A row
\* that can be rebased stands alone for its edit: every other identity of
\* it has been refused.
Rebasable(s) == Cardinality(s.base) = 1

RowOK(d, row) ==
    /\ row.id[1] \in Writes[d]
    /\ Sound(row) /\ Named(row.base) /\ IsFiniteSet(row.base)
    /\ Rebasable(row) \/ row.base = {} \/ row.base \subseteq DOMAIN contents
    /\ Rebasable(row) =>
          \A n \in 1 .. tries[row.id[1]] : n # row.id[2] => Refused(<<row.id[1], n>>)

Distinct(rows) == \A j, k \in DOMAIN rows : rows[j].id = rows[k].id => j = k

RowsOK(d) ==
    /\ outbox[d] \in Seq(QueuedRow)
    /\ Distinct(outbox[d])
    /\ \A row \in Rows(d) : RowOK(d, row)
    /\ \A row, other \in Rows(d) : Rebasable(row) /\ other.id[1] = row.id[1] => other.id = row.id

\* A conflict the owner can still resolve is about revisions that an acceptance
\* of the edit has left behind.
ConflictOK(d, c) ==
    /\ c.id[1] \in Writes[d]
    /\ Issued(c.id) /\ Named(c.base)
    /\ Refused(c.id) /\ c.competing = receipts[c.id].competing
    /\ Rebasable(c) /\ (\E m \in Accepted : m[1] = c.id[1]) =>
          head[Changes(c.id)] \notin c.base \cup c.competing

ConflictsOK(d) ==
    /\ conflicts[d] \subseteq ConflictRecord
    /\ \A c \in conflicts[d] : ConflictOK(d, c)
    /\ \A c \in conflicts[d] : \A row \in Rows(d) : Rebasable(row) => row.id[1] # c.id[1]

Displayable(shown) ==
    shown \in Shown /\ (shown.revision \in DOMAIN contents \/ shown.revision[1] = "local")

ViewOK(d) ==
    /\ view[d] \in [Item -> Shown]
    /\ \A i \in Item : Displayable(view[d][i])
    /\ cursor[d] \in 0 .. drawn

LateOK(d) ==
    /\ late[d] \in Seq(Submission)
    /\ \A k \in DOMAIN late[d] : Sound(late[d][k])

\* What a batch holds is still queued, and its results are the receipts.
BatchOK(d, batch) ==
    /\ Distinct(batch)
    /\ \A k \in DOMAIN batch :
          /\ Named(batch[k].base)
          /\ \E row \in Rows(d) : row.id = batch[k].id /\ (Rebasable(batch[k]) => Rebasable(row))

ResultsOK(batch, results) ==
    \A k \in DOMAIN results :
        \/ results[k] = Blocked
        \/ batch[k].id \in DOMAIN receipts /\ results[k] = receipts[batch[k].id]

WaitOK(d) ==
    LET p == pass[d]
    IN  /\ Len(p.batch) = Len(p.results) + Len(p.todo) /\ p.batch # << >>
        /\ BatchOK(d, p.batch) /\ ResultsOK(p.batch, p.results)
        /\ \A k \in DOMAIN p.todo :
              p.todo[k].id = p.batch[Len(p.results) + k].id /\ Sound(p.todo[k])

SettleOK(d) ==
    LET p == pass[d]
    IN  /\ Len(p.batch) = Len(p.results) /\ p.batch # << >>
        /\ BatchOK(d, p.batch) /\ ResultsOK(p.batch, p.results)

ApplyOK(d) ==
    LET p == pass[d]
    IN  /\ p.page \subseteq DOMAIN feed
        /\ DOMAIN p.items = {Changes(feed[q]) : q \in p.page}
        /\ \A i \in DOMAIN p.items : p.items[i].revision \in DOMAIN contents

PassOK(d) ==
    /\ pass[d] \in PassState
    /\ pass[d].phase = "wait" => WaitOK(d)
    /\ pass[d].phase = "settle" => SettleOK(d)
    /\ pass[d].phase = "apply" => ApplyOK(d)

KeptOK(d) ==
    \A e \in Writes[d] :
        tries[e] > 0 => \/ \E m \in Kept(d) : m[1] = e
                        \/ \E m \in Accepted : m[1] = e

DeviceOK(d) ==
    RowsOK(d) /\ ConflictsOK(d) /\ ViewOK(d) /\ LateOK(d) /\ PassOK(d) /\ KeptOK(d)

SyncInv ==
    /\ ServerInv
    /\ outbox \in [Device -> Seq(QueuedRow)] /\ conflicts \in [Device -> SUBSET ConflictRecord]
    /\ view \in [Device -> [Item -> Shown]] /\ cursor \in [Device -> Nat]
    /\ pass \in [Device -> PassState] /\ late \in [Device -> Seq(Submission)]
    /\ \A d \in Device : DeviceOK(d)

-----------------------------------------------------------------------------
(* Names.                                                                   *)

(* The three kinds of revisions never share a name.                         *)
LEMMA RevisionsApart ==
    /\ \A i : Origin(i)[1] = "origin"
    /\ \A m : Local(m)[1] = "local" /\ Canonical(m)[1] = "server"
    /\ \A m, n : Local(m) # Canonical(n)
    /\ \A m, i : Canonical(m) # Origin(i) /\ Local(m) # Origin(i)
    /\ \A m, n : Canonical(m) = Canonical(n) => m = n
BY DEF Origin, Local, Canonical

LEMMA MutationIs ==
    /\ \A m \in Mutation : /\ m[1] \in Edit /\ m[2] \in 1 .. MaxTries[m[1]]
                           /\ m = <<m[1], m[2]>> /\ m[2] \in Nat /\ m[2] >= 1
                           /\ Changes(m) \in Item /\ FieldOf[m[1]] \in Field
    /\ \A e \in Edit : \A n \in 1 .. MaxTries[e] : <<e, n>> \in Mutation
    /\ \A m : <<m>>[1] = m
BY FeedAssumption DEF Mutation, Changes

LEMMA NamesAreRevisions ==
    ASSUME NEW m \in Mutation
    PROVE  Local(m) \in Revision /\ Canonical(m) \in Revision
BY DEF Revision

-----------------------------------------------------------------------------
(* Sets of numbers.                                                         *)

(* A set of numbers has a least element.                                    *)
LEMMA HasLeast ==
    ASSUME NEW S \in SUBSET Nat, S # {}
    PROVE  \E m \in S : \A x \in S : m <= x
<1> DEFINE R == OpToRel(<, Nat)
<1>1. IsWellFoundedOn(R, Nat)
  BY NatLessThanWellFounded
<1>2. \A x, y \in Nat : x < y => <<x, y>> \in R
  BY Zenon DEF OpToRel
<1> HIDE DEF R
<1>3. PICK m \in S : \A x \in S : <<x, m>> \notin R
  BY <1>1, WFMin
<1>4. \A x \in S : ~(x < m)
  BY <1>2, <1>3
<1> QED
  BY <1>4

(* A bounded set of numbers has a last element.                             *)
LEMMA MaxIsIn ==
    ASSUME NEW n \in Nat, NEW S \in SUBSET (0 .. n), S # {}
    PROVE  Max(S) \in S /\ \A x \in S : x <= Max(S)
<1> DEFINE T == {n - x : x \in S}
<1>1. \A x \in S : x \in 0 .. n
  OBVIOUS
<1>2. \A x \in 0 .. n : n - x \in Nat
  OBVIOUS
<1>3. T \in SUBSET Nat /\ T # {}
  BY <1>1, <1>2
<1>4. PICK m \in T : \A t \in T : m <= t
  BY <1>3, HasLeast
<1>5. PICK y \in S : m = n - y
  BY <1>4
<1>6. \A x \in S : y >= x
  BY <1>1, <1>4, <1>5
<1> QED
  BY <1>6 DEF Max

-----------------------------------------------------------------------------
(* Sequences of rows.                                                       *)

(* Another status is all that changes.                                      *)
LEMMA MarkedIs ==
    ASSUME NEW rows \in Seq(QueuedRow), NEW ids, NEW s \in {"pending", "sending", "blocked"}
    PROVE  /\ Marked(rows, ids, s) \in Seq(QueuedRow)
           /\ DOMAIN Marked(rows, ids, s) = DOMAIN rows
           /\ \A k \in DOMAIN rows : /\ Marked(rows, ids, s)[k].id = rows[k].id
                                     /\ Marked(rows, ids, s)[k].base = rows[k].base
<1> DEFINE new == Marked(rows, ids, s)
           row(k) == IF rows[k].id \in ids THEN [rows[k] EXCEPT !.status = s] ELSE rows[k]
<1>1. \A k \in DOMAIN rows : rows[k] \in QueuedRow
  BY ElementOfSeq
<1>2. \A k \in DOMAIN rows : row(k) \in QueuedRow /\ row(k).id = rows[k].id /\ row(k).base = rows[k].base
  BY <1>1 DEF QueuedRow
<1>3. new = [k \in 1 .. Len(rows) |-> row(k)] /\ DOMAIN rows = 1 .. Len(rows) /\ Len(rows) \in Nat
  BY LenProperties DEF Marked
<1> HIDE DEF row
<1>4. new \in Seq(QueuedRow)
  BY <1>2, <1>3
<1> QED
  BY <1>2, <1>3, <1>4

\* Where the rows of a queue were before the row in place p went.
From(p, j) == IF j < p THEN j ELSE j + 1

(* One row goes, the others stay in their order.                            *)
LEMMA WithoutFrom ==
    ASSUME NEW R, NEW rows \in Seq(R), Distinct(rows), NEW p \in DOMAIN rows
    PROVE  LET new == Without(rows, rows[p].id)
           IN  /\ new \in Seq(R) /\ Len(new) = Len(rows) - 1 /\ DOMAIN new = 1 .. Len(rows) - 1
               /\ \A j \in 1 .. Len(rows) - 1 : new[j] = rows[From(p, j)]
<1> DEFINE new == Without(rows, rows[p].id)
           n == Len(rows)
<1>1. (CHOOSE k \in DOMAIN rows : rows[k].id = rows[p].id) = p
  BY DEF Distinct
<1>2. new = SubSeq(rows, 1, p - 1) \o SubSeq(rows, p + 1, n)
  BY <1>1 DEF Without, RemoveAt
<1>3. n \in Nat /\ DOMAIN rows = 1 .. n /\ p \in 1 .. n
  BY LenProperties
<1>4. \A k \in 1 .. n : rows[k] \in R
  BY <1>3, ElementOfSeq
<1>5. /\ SubSeq(rows, 1, p - 1) \in Seq(R) /\ Len(SubSeq(rows, 1, p - 1)) = p - 1
      /\ \A j \in 1 .. p - 1 : SubSeq(rows, 1, p - 1)[j] = rows[j]
  BY <1>3, <1>4, SubSeqProperties
<1>6. /\ SubSeq(rows, p + 1, n) \in Seq(R) /\ Len(SubSeq(rows, p + 1, n)) = n - p
      /\ \A j \in 1 .. n - p : SubSeq(rows, p + 1, n)[j] = rows[p + j]
  BY <1>3, <1>4, SubSeqProperties
<1> DEFINE front == SubSeq(rows, 1, p - 1)
           back == SubSeq(rows, p + 1, n)
<1> HIDE DEF front, back, new
<1>7. /\ new \in Seq(R) /\ Len(new) = n - 1
      /\ \A j \in 1 .. n - 1 : new[j] = IF j < p THEN front[j] ELSE back[j - (p - 1)]
  <2>1. /\ front \in Seq(R) /\ Len(front) = p - 1 /\ back \in Seq(R) /\ Len(back) = n - p
        /\ new = front \o back
    BY <1>2, <1>5, <1>6 DEF front, back
  <2>2. /\ new \in Seq(R) /\ Len(new) = Len(front) + Len(back)
        /\ \A j \in 1 .. Len(front) + Len(back) :
              new[j] = IF j <= Len(front) THEN front[j] ELSE back[j - Len(front)]
    BY <2>1, ConcatProperties
  <2>3. (p - 1) + (n - p) = n - 1
    BY <1>3
  <2>4. \A j \in 1 .. n - 1 : j <= p - 1 <=> j < p
    BY <1>3
  <2> QED
    BY <2>1, <2>2, <2>3, <2>4
<1>8. \A j \in 1 .. n - 1 : new[j] = rows[From(p, j)]
  <2> TAKE j \in 1 .. n - 1
  <2>1. CASE j < p
    <3>1. new[j] = front[j] /\ j \in 1 .. p - 1
      BY <2>1, <1>3, <1>7
    <3> QED
      BY <3>1, <2>1, <1>5 DEF front, From
  <2>2. CASE ~(j < p)
    <3>1. new[j] = back[j - (p - 1)]
      BY <2>2, <1>7
    <3>2. j - (p - 1) \in 1 .. n - p /\ p + (j - (p - 1)) = j + 1
      BY <2>2, <1>3
    <3> QED
      BY <3>1, <3>2, <2>2, <1>6 DEF back, From
  <2> QED
    BY <2>1, <2>2
<1>9. DOMAIN new = 1 .. n - 1
  BY <1>7, LenProperties
<1> QED
  BY <1>7, <1>8, <1>9 DEF new

LEMMA WithoutIs ==
    ASSUME NEW R, NEW rows \in Seq(R), Distinct(rows), NEW p \in DOMAIN rows
    PROVE  LET new == Without(rows, rows[p].id)
           IN  /\ new \in Seq(R) /\ Distinct(new)
               /\ \A j \in DOMAIN new : \E k \in DOMAIN rows : k # p /\ new[j] = rows[k]
               /\ \A k \in DOMAIN rows : k # p => \E j \in DOMAIN new : new[j] = rows[k]
<1> DEFINE new == Without(rows, rows[p].id)
           n == Len(rows)
           from(j) == IF j < p THEN j ELSE j + 1
<1>3. n \in Nat /\ DOMAIN rows = 1 .. n /\ p \in 1 .. n
  BY LenProperties
<1> HIDE DEF new
<1>7. /\ new \in Seq(R) /\ Len(new) = n - 1 /\ DOMAIN new = 1 .. n - 1
      /\ \A j \in 1 .. n - 1 : new[j] = rows[from(j)]
  BY WithoutFrom DEF new, From
<1>8. \A j \in 1 .. n - 1 : new[j] = rows[from(j)]
  BY <1>7
<1>9. DOMAIN new = 1 .. n - 1
  BY <1>7
<1>10. \A j \in 1 .. n - 1 : from(j) \in 1 .. n /\ from(j) # p
  BY <1>3
<1>11. \A j, k \in 1 .. n - 1 : from(j) = from(k) => j = k
  BY <1>3
<1>12. \A k \in 1 .. n : k # p => \E j \in 1 .. n - 1 : from(j) = k
  <2> SUFFICES ASSUME NEW k \in 1 .. n, k # p  PROVE \E j \in 1 .. n - 1 : from(j) = k
    OBVIOUS
  <2>1. CASE k < p
    <3>1. k \in 1 .. n - 1 /\ from(k) = k
      BY <2>1, <1>3
    <3> QED
      BY <3>1
  <2>2. CASE k > p
    <3>1. k - 1 \in 1 .. n - 1 /\ from(k - 1) = k
      BY <2>2, <1>3
    <3> QED
      BY <3>1
  <2> QED
    BY <2>1, <2>2, <1>3
<1> HIDE DEF from
<1>13. Distinct(new)
  BY <1>3, <1>8, <1>9, <1>10, <1>11 DEF Distinct
<1> HIDE DEF n
<1>14. /\ \A j \in DOMAIN new : \E k \in DOMAIN rows : k # p /\ new[j] = rows[k]
       /\ \A k \in DOMAIN rows : k # p => \E j \in DOMAIN new : new[j] = rows[k]
  BY <1>3, <1>8, <1>9, <1>10, <1>12
<1> QED
  BY <1>7, <1>13, <1>14 DEF new

(* A batch takes places of the queue, each once, and is never empty.        *)
LEMMA BatchIs ==
    ASSUME NEW rows \in Seq(QueuedRow), Pending(rows) # {},
           NEW order \in InOrder(CausalBatch(rows))
    PROVE  LET batch == [k \in DOMAIN order |-> rows[order[k]]]
           IN  /\ batch \in Seq(QueuedRow) /\ batch # << >>
               /\ DOMAIN order = DOMAIN batch
               /\ \A k \in DOMAIN order : order[k] \in DOMAIN rows
               /\ \A j, k \in DOMAIN order : order[j] = order[k] => j = k
<1> DEFINE places == CausalBatch(rows)
           n == Cardinality(places)
           batch == [k \in DOMAIN order |-> rows[order[k]]]
<1>1. Len(rows) \in Nat /\ DOMAIN rows = 1 .. Len(rows)
  BY LenProperties
<1>2. places \subseteq 1 .. Len(rows) /\ Pending(rows) \subseteq 1 .. Len(rows)
  BY <1>1 DEF CausalBatch, Pending
<1>3. IsFiniteSet(places) /\ n \in Nat
  <2>1. IsFiniteSet(1 .. Len(rows))
    BY <1>1, FS_Interval
  <2>2. IsFiniteSet(places)
    BY <2>1, <1>2, FS_Subset
  <2> QED
    BY <2>2, FS_CardinalityType
<1>4. places # {}
  <2>1. PICK k \in Pending(rows) : \A j \in Pending(rows) : k <= j
    BY <1>2, HasLeast
  <2>2. Through(rows, k) = {k}
    BY <2>1, <1>2 DEF Through
  <2>3. Cardinality(Through(rows, k)) = 1
    BY <2>2, FS_Singleton
  <2>4. BatchLimit >= 1
    BY SyncAssumption
  <2> QED
    BY <2>1, <2>2, <2>3, <2>4 DEF CausalBatch
<1>5. n # 0
  BY <1>3, <1>4, FS_EmptySet
<1>6. order \in [1 .. n -> places] /\ \A j, k \in 1 .. n : j < k => order[j] < order[k]
  BY DEF InOrder
<1>7. DOMAIN order = 1 .. n /\ \A k \in 1 .. n : order[k] \in 1 .. Len(rows)
  BY <1>2, <1>6
<1>8. \A k \in 1 .. n : rows[order[k]] \in QueuedRow
  BY <1>1, <1>7, ElementOfSeq
<1>9. batch \in Seq(QueuedRow) /\ DOMAIN batch = 1 .. n
  BY <1>3, <1>7, <1>8
<1>10. batch # << >>
  BY <1>3, <1>5, <1>9
<1>11. \A j, k \in 1 .. n : order[j] = order[k] => j = k
  BY <1>3, <1>6, <1>7
<1> QED
  BY <1>1, <1>7, <1>9, <1>10, <1>11

-----------------------------------------------------------------------------
(* What a step of the server leaves true of the devices.                    *)

ServerMoves ==
    /\ DOMAIN contents \subseteq DOMAIN contents'
    /\ \A m \in DOMAIN receipts : m \in DOMAIN receipts' /\ receipts'[m] = receipts[m]
    /\ \A q \in DOMAIN feed : q \in DOMAIN feed' /\ feed'[q] = feed[q]
    /\ drawn \in Nat /\ drawn' \in Nat /\ drawn' >= drawn
    /\ \A i \in Item :
          head'[i] = head[i] \/ (head'[i] \notin DOMAIN contents /\ head'[i][1] = "server")
    /\ \A m \in Accepted' : m \in Accepted \/ (m \in Opened /\ head'[Changes(m)] # head[Changes(m)])

TriesGrow == tries' \in [Edit -> Nat] /\ \A e \in Edit : tries[e] <= tries'[e]

\* The queue of a device keeps its rows, but for their status.
RowsStay(d) ==
    /\ outbox'[d] \in Seq(QueuedRow)
    /\ DOMAIN outbox'[d] = DOMAIN outbox[d]
    /\ \A k \in DOMAIN outbox[d] : /\ outbox'[d][k].id = outbox[d][k].id
                                   /\ outbox'[d][k].base = outbox[d][k].base

RowsRemain(d) ==
    \A old \in Rows(d) : \E row \in Rows(d)' : row.id = old.id /\ row.base = old.base

LEMMA RowsStayRemain ==
    ASSUME NEW d \in Device, RowsStay(d)
    PROVE  RowsRemain(d)
BY DEF Rows, ToSet, RowsStay, RowsRemain

(* A verdict stands.                                                        *)
LEMMA VerdictsStand ==
    ASSUME ServerMoves
    PROVE  /\ \A m : Refused(m) => Refused(m)'
           /\ \A m \in Accepted : m \in Accepted'
           /\ \A m : Refused(m) => m \notin Accepted'
BY DEF ServerMoves, Refused, Accepted

(* The server's own state, when it does nothing.                            *)
LEMMA ServerIdle ==
    ASSUME ServerInv, UNCHANGED feedVars
    PROVE  /\ ServerMoves /\ Accepted' = Accepted
           /\ ContentsOK' /\ ChangesOK'
<1>1. Accepted' = Accepted
  BY DEF feedVars, Accepted
<1>2. drawn \in Nat
  BY DEF ServerInv, ChangesOK
<1> QED
  BY <1>1, <1>2 DEF feedVars, ServerMoves, ServerInv, ContentsOK, ChangesOK

(* More identities are given out, and nothing else.                         *)
LEMMA ServerKept ==
    ASSUME ServerInv, UNCHANGED feedVars, TriesOK', TriesGrow
    PROVE  ServerInv' /\ ServerMoves /\ Accepted' = Accepted
<1>1. ServerMoves /\ Accepted' = Accepted /\ ContentsOK' /\ ChangesOK'
  BY ServerIdle
<1>2. \A m \in Mutation : Issued(m) => Issued(m)'
  <2> TAKE m \in Mutation
  <2>1. m[1] \in Edit /\ m[2] \in Nat
    BY MutationIs
  <2> QED
    BY <2>1 DEF Issued, TriesGrow, ServerInv, TriesOK
<1>3. ReceiptsOK'
  BY <1>1, <1>2 DEF ServerInv, ReceiptsOK, feedVars
<1>4. OpenOK'
  <2>1. \A i \in DOMAIN open : open[i].id \in Mutation
    BY DEF ServerInv, OpenOK
  <2> QED
    BY <1>1, <1>2, <2>1 DEF ServerInv, OpenOK, feedVars
<1> QED
  BY <1>1, <1>3, <1>4 DEF ServerInv

LEMMA TriesStay ==
    ASSUME ServerInv, tries' = tries
    PROVE  TriesGrow
BY DEF ServerInv, TriesOK, TriesGrow

(* An edit under its second identity or a later one has been refused under  *)
(* the first.                                                               *)
LEMMA SecondThoughts ==
    ASSUME ServerInv, NEW m \in Mutation, NEW n \in Mutation, Issued(m), Issued(n),
           m[1] = n[1], m # n, m \notin DOMAIN receipts
    PROVE  m[2] > 1 /\ m[1] \notin Blind
<1>1. /\ m[1] \in Edit /\ m[2] \in Nat /\ m[2] >= 1 /\ m = <<m[1], m[2]>>
      /\ n[2] \in Nat /\ n[2] >= 1 /\ n = <<n[1], n[2]>>
  BY MutationIs
<1>2. n[2] <= tries[m[1]] /\ tries[m[1]] \in Nat
  BY <1>1 DEF Issued, ServerInv, TriesOK
<1>3. ASSUME m[2] = 1  PROVE FALSE
  <2>1. n[2] # 1
    BY <1>1, <1>3
  <2>2. tries[m[1]] > 1
    BY <1>1, <1>2, <2>1
  <2>3. Refused(<<m[1], 1>>)
    BY <1>1, <2>2 DEF ServerInv, TriesOK
  <2> QED
    BY <1>1, <1>3, <2>3 DEF Refused
<1>4. m[2] > 1
  BY <1>1, <1>3
<1>5. tries[m[1]] > 1
  BY <1>1, <1>2, <1>4 DEF Issued
<1>6. m[1] \in Blind => tries[m[1]] <= 1
  BY <1>1 DEF ServerInv, TriesOK
<1> QED
  BY <1>2, <1>4, <1>5, <1>6

LEMMA SoundStays ==
    ASSUME ServerInv, ServerMoves, TriesGrow,
           NEW s, s.id \in Mutation, s.base \subseteq Revision, Sound(s)
    PROVE  Sound(s)'
<1>1. s.id[1] \in Edit /\ s.id[2] \in Nat /\ s.id[2] >= 1 /\ Changes(s.id) \in Item
  BY MutationIs
<1>2. Issued(s.id)'
  BY <1>1 DEF Sound, Issued, TriesGrow, ServerInv, TriesOK
<1>3. s.id[2] > 1 => s.base \subseteq DOMAIN contents'
  BY DEF Sound, ServerMoves
<1>4. ASSUME s.id \notin DOMAIN receipts', NEW m \in Accepted', m[1] = s.id[1]
      PROVE  head'[Changes(s.id)] \notin s.base
  <2>1. s.id \notin DOMAIN receipts /\ m \in DOMAIN receipts'
    BY <1>4 DEF ServerMoves, Accepted
  <2>2. Issued(m) /\ m \in Mutation
    BY <1>4 DEF ServerMoves, ServerInv, ReceiptsOK, OpenOK, Accepted, Opened
  <2>3. m # s.id
    BY <1>4, <2>1 
  <2>4. s.id[2] > 1
    BY <1>4, <2>1, <2>2, <2>3, SecondThoughts DEF Sound
  <2>5. s.base \subseteq DOMAIN contents
    BY <2>4 DEF Sound
  <2>6. Changes(m) = Changes(s.id)
    BY <1>4 DEF Changes
  <2>7. CASE head'[Changes(s.id)] = head[Changes(s.id)]
    BY <1>4, <2>1, <2>6, <2>7 DEF ServerMoves, Sound
  <2>8. CASE head'[Changes(s.id)] \notin DOMAIN contents
    BY <2>5, <2>8
  <2> QED
    BY <1>1, <2>7, <2>8 DEF ServerMoves
<1> QED
  BY <1>2, <1>3, <1>4 DEF Sound

LEMMA NamedStays ==
    ASSUME ServerMoves, NEW base, Named(base)
    PROVE  Named(base)'
BY DEF ServerMoves, Named

LEMMA RowStays ==
    ASSUME ServerInv, ServerMoves, TriesGrow, NEW d, NEW old \in QueuedRow, RowOK(d, old),
           Rebasable(old) => tries'[old.id[1]] = tries[old.id[1]],
           NEW row, row.id = old.id, row.base = old.base
    PROVE  RowOK(d, row)'
<1>1. Sound(row)
  BY DEF RowOK, Sound
<1>2. Sound(row)'
  BY <1>1, SoundStays DEF QueuedRow
<1>3. Named(row.base)'
  BY NamedStays DEF RowOK
<1>4. row.id[1] \in Writes[d] /\ IsFiniteSet(row.base)
  BY DEF RowOK
<1>6. Rebasable(row)' \/ row.base = {} \/ row.base \subseteq DOMAIN contents'
  BY DEF RowOK, Rebasable, ServerMoves
<1>5. ASSUME Rebasable(row)', NEW n \in 1 .. tries'[row.id[1]], n # row.id[2]
      PROVE  Refused(<<row.id[1], n>>)'
  <2>1. Rebasable(old)
    BY <1>5 DEF Rebasable
  <2>2. Refused(<<row.id[1], n>>)
    BY <1>5, <2>1 DEF RowOK
  <2> QED
    BY <2>2, VerdictsStand
<1> QED
  BY <1>2, <1>3, <1>4, <1>5, <1>6 DEF RowOK

LEMMA RowsKept ==
    ASSUME ServerInv, ServerMoves, TriesGrow, NEW d \in Device, RowsOK(d), RowsStay(d),
           \A e \in Writes[d] : tries'[e] = tries[e]
    PROVE  RowsOK(d)'
<1>1. Distinct(outbox'[d])
  BY DEF RowsOK, RowsStay, Distinct
<1>2. \A row \in Rows(d)' : \E old \in Rows(d) : row.id = old.id /\ row.base = old.base
  BY DEF Rows, ToSet, RowsStay
<1>3. \A row \in Rows(d)' : RowOK(d, row)'
  <2> TAKE row \in Rows(d)'
  <2>1. PICK old \in Rows(d) : row.id = old.id /\ row.base = old.base
    BY <1>2
  <2>2. old \in QueuedRow /\ RowOK(d, old)
    BY ElementOfSeq DEF RowsOK, Rows, ToSet
  <2>3. tries'[old.id[1]] = tries[old.id[1]]
    BY <2>2 DEF RowOK
  <2> QED
    BY <2>1, <2>2, <2>3, RowStays
<1>4. \A row, other \in Rows(d)' : Rebasable(row)' /\ other.id[1] = row.id[1] => other.id = row.id
  BY <1>2 DEF RowsOK, Rebasable
<1> QED
  BY <1>1, <1>3, <1>4 DEF RowsOK, RowsStay

LEMMA ConflictStays ==
    ASSUME ServerInv, ServerMoves, TriesGrow, NEW d, NEW c \in ConflictRecord, ConflictOK(d, c)
    PROVE  ConflictOK(d, c)'
<1>1. c.id \in Mutation /\ c.id[1] \in Edit /\ c.id[2] \in Nat /\ Changes(c.id) \in Item
  BY MutationIs DEF ConflictRecord
<1>2. Issued(c.id)'
  BY <1>1 DEF ConflictOK, Issued, TriesGrow, ServerInv, TriesOK
<1>3. Named(c.base)'
  BY NamedStays DEF ConflictOK
<1>4. c.id \in DOMAIN receipts /\ c.id \in DOMAIN receipts' /\ receipts'[c.id] = receipts[c.id]
  BY DEF ConflictOK, Refused, ServerMoves
<1>5. Refused(c.id)' /\ c.competing = receipts'[c.id].competing
  BY <1>4 DEF ConflictOK, Refused
<1>6. ASSUME Rebasable(c), NEW m \in Accepted', m[1] = c.id[1]
      PROVE  head'[Changes(c.id)] \notin c.base \cup c.competing
  <2>1. Changes(m) = Changes(c.id)
    BY <1>6 DEF Changes
  <2>2. CASE head'[Changes(c.id)] = head[Changes(c.id)]
    BY <1>6, <2>1, <2>2 DEF ConflictOK, ServerMoves
  <2>3. CASE head'[Changes(c.id)] \notin DOMAIN contents /\ head'[Changes(c.id)][1] = "server"
    <3>1. head'[Changes(c.id)] \notin c.base
      BY <2>3 DEF ConflictOK, Named
    <3>2. c.competing \subseteq DOMAIN contents
      BY <1>4 DEF ConflictOK, ServerInv, ReceiptsOK
    <3> QED
      BY <2>3, <3>1, <3>2
  <2> QED
    BY <1>1, <2>2, <2>3 DEF ServerMoves
<1> QED
  BY <1>2, <1>3, <1>5, <1>6 DEF ConflictOK, Rebasable

LEMMA ConflictsKept ==
    ASSUME ServerInv, ServerMoves, TriesGrow, NEW d \in Device, ConflictsOK(d), RowsStay(d),
           conflicts'[d] = conflicts[d]
    PROVE  ConflictsOK(d)'
<1>1. \A row \in Rows(d)' : \E old \in Rows(d) : row.id = old.id /\ row.base = old.base
  BY DEF Rows, ToSet, RowsStay
<1>2. \A c \in conflicts[d] : ConflictOK(d, c)'
  BY ConflictStays DEF ConflictsOK
<1>3. \A c \in conflicts[d] : \A row \in Rows(d)' : Rebasable(row)' => row.id[1] # c.id[1]
  BY <1>1 DEF ConflictsOK, Rebasable
<1> QED
  BY <1>2, <1>3 DEF ConflictsOK

LEMMA ViewKept ==
    ASSUME ServerMoves, NEW d \in Device, ViewOK(d), view'[d] = view[d], cursor'[d] = cursor[d]
    PROVE  ViewOK(d)'
<1>1. \A i \in Item : Displayable(view[d][i]) => Displayable(view[d][i])'
  BY DEF Displayable, ServerMoves
<1>2. cursor[d] \in 0 .. drawn'
  BY DEF ViewOK, ServerMoves
<1> QED
  BY <1>1, <1>2 DEF ViewOK, Displayable

LEMMA LateKept ==
    ASSUME ServerInv, ServerMoves, TriesGrow, NEW d \in Device, LateOK(d), late'[d] = late[d]
    PROVE  LateOK(d)'
<1>1. \A k \in DOMAIN late[d] : late[d][k] \in Submission /\ Sound(late[d][k])
  BY ElementOfSeq DEF LateOK
<1>2. \A s \in Submission : Sound(s) => Sound(s)'
  BY SoundStays DEF Submission
<1>3. \A k \in DOMAIN late[d] : Sound(late[d][k])'
  BY <1>1, <1>2 DEF Sound
<1> QED
  BY <1>3 DEF LateOK

LEMMA BatchKept ==
    ASSUME ServerMoves, NEW d \in Device, RowsRemain(d), NEW batch, BatchOK(d, batch)
    PROVE  BatchOK(d, batch)'
<1>1. \A old \in Rows(d) : \E row \in Rows(d)' : row.id = old.id /\ row.base = old.base
  BY DEF RowsRemain
<1>2. \A k \in DOMAIN batch : Named(batch[k].base)'
  BY NamedStays DEF BatchOK
<1>3. \A k \in DOMAIN batch :
         \E row \in Rows(d)' : row.id = batch[k].id /\ (Rebasable(batch[k]) => Rebasable(row)')
  BY <1>1 DEF BatchOK, Rebasable
<1> QED
  BY <1>2, <1>3 DEF BatchOK, Distinct, Rebasable

LEMMA ResultsKept ==
    ASSUME ServerMoves, NEW batch, NEW results, ResultsOK(batch, results)
    PROVE  ResultsOK(batch, results)'
BY DEF ResultsOK, ServerMoves, Blocked

LEMMA ItemsKept ==
    ASSUME ServerMoves, NEW d \in Device, pass[d].phase = "apply", ApplyOK(d), pass'[d] = pass[d]
    PROVE  ApplyOK(d)'
<1> DEFINE p == pass[d]
<1>1. p.page \subseteq DOMAIN feed' /\ \A q \in p.page : feed'[q] = feed[q]
  BY DEF ApplyOK, ServerMoves
<1>2. {Changes(feed'[q]) : q \in p.page} = {Changes(feed[q]) : q \in p.page}
  BY <1>1
<1>3. DOMAIN contents \subseteq DOMAIN contents'
  BY DEF ServerMoves
<1> QED
  BY <1>1, <1>2, <1>3 DEF ApplyOK

LEMMA PassKept ==
    ASSUME ServerInv, ServerMoves, TriesGrow, NEW d \in Device, PassOK(d), RowsRemain(d),
           pass'[d] = pass[d]
    PROVE  PassOK(d)'
<1>1. \A s \in Submission : Sound(s) => Sound(s)'
  BY SoundStays DEF Submission
<1>2. ASSUME pass[d].phase = "wait"  PROVE WaitOK(d)'
  <2>1. WaitOK(d)
    BY <1>2 DEF PassOK
  <2>2. pass[d].todo \in Seq(Submission)
    BY <1>2 DEF PassOK, PassState, Idle, Listing, SubmitPass, WaitPass, SettlePass, ApplyPass
  <2>3. \A k \in DOMAIN pass[d].todo : Sound(pass[d].todo[k]) => Sound(pass[d].todo[k])'
    <3> TAKE k \in DOMAIN pass[d].todo
    <3>1. pass[d].todo[k] \in Submission
      BY <2>2, ElementOfSeq
    <3>2. \A s \in Submission : s = pass'[d].todo[k] => (Sound(s)' => Sound(pass[d].todo[k])')
      BY DEF Sound
    <3> QED
      BY <1>1, <3>1, <3>2 DEF Sound
  <2>4. BatchOK(d, pass[d].batch)'
    <3>1. \A b : BatchOK(d, b) => BatchOK(d, b)'
      BY BatchKept
    <3> QED
      BY <2>1, <3>1 DEF WaitOK, BatchOK, Distinct, Rebasable
  <2>5. ResultsOK(pass[d].batch, pass[d].results)'
    BY <2>1 DEF WaitOK, ResultsOK, ServerMoves, Blocked
  <2> QED
    BY <2>1, <2>3, <2>4, <2>5 DEF WaitOK
<1>3. ASSUME pass[d].phase = "settle"  PROVE SettleOK(d)'
  <2>1. SettleOK(d)
    BY <1>3 DEF PassOK
  <2>2. BatchOK(d, pass[d].batch)'
    <3>1. \A b : BatchOK(d, b) => BatchOK(d, b)'
      BY BatchKept
    <3> QED
      BY <2>1, <3>1 DEF SettleOK, BatchOK, Distinct, Rebasable
  <2>3. ResultsOK(pass[d].batch, pass[d].results)'
    BY <2>1 DEF SettleOK, ResultsOK, ServerMoves, Blocked
  <2> QED
    BY <2>1, <2>2, <2>3 DEF SettleOK
<1>4. ASSUME pass[d].phase = "apply"  PROVE ApplyOK(d)'
  BY <1>4, ItemsKept DEF PassOK
<1> QED
  BY <1>2, <1>3, <1>4 DEF PassOK

LEMMA KeptKept ==
    ASSUME ServerMoves, NEW d \in Device, KeptOK(d), RowsStay(d), conflicts'[d] = conflicts[d],
           \A e \in Writes[d] : tries'[e] = tries[e]
    PROVE  KeptOK(d)'
<1>1. \A m \in Kept(d) : m \in Kept(d)'
  <2>1. \A old \in Rows(d) : \E row \in Rows(d)' : row.id = old.id
    BY DEF Rows, ToSet, RowsStay
  <2> QED
    BY <2>1 DEF Kept
<1> QED
  BY <1>1, VerdictsStand DEF KeptOK

(* A device no step touches.                                                *)
LEMMA DeviceKept ==
    ASSUME ServerInv, ServerMoves, TriesGrow, NEW d \in Device, DeviceOK(d),
           \A e \in Writes[d] : tries'[e] = tries[e],
           outbox'[d] = outbox[d], conflicts'[d] = conflicts[d], view'[d] = view[d],
           cursor'[d] = cursor[d], pass'[d] = pass[d], late'[d] = late[d]
    PROVE  DeviceOK(d)'
<1>1. RowsStay(d)
  BY DEF DeviceOK, RowsOK, RowsStay
<1>2. RowsRemain(d)
  BY <1>1, RowsStayRemain
<1> QED
  BY <1>1, <1>2, RowsKept, ConflictsKept, ViewKept, LateKept, PassKept, KeptKept DEF DeviceOK

-----------------------------------------------------------------------------
(* The steps of the server.                                                 *)

LEMMA AcceptedIs ==
    \A m : m \in Accepted <=> m \in DOMAIN receipts /\ receipts[m].verdict = "accepted"
BY DEF Accepted

(* A submission that is accepted is the first of its edit to be.            *)
LEMMA FirstAccepted ==
    ASSUME ServerInv, NEW s, s.id \in Mutation, Sound(s), ~Known(s), Founded(s)
    PROVE  \A m \in Accepted : m[1] # s.id[1]
<1> SUFFICES ASSUME NEW m \in Accepted, m[1] = s.id[1]  PROVE FALSE
  OBVIOUS
<1>1. m \in Mutation /\ Issued(m) /\ m \in DOMAIN receipts
  BY AcceptedIs DEF ServerInv, ReceiptsOK
<1>2. m # s.id /\ s.id \notin DOMAIN receipts
  BY <1>1 DEF Known
<1>3. s.id[1] \notin Blind
  BY <1>1, <1>2, SecondThoughts DEF Sound
<1>4. head[Changes(s.id)] \notin s.base
  BY <1>2 DEF Sound
<1> QED
  BY <1>3, <1>4 DEF Founded

LEMMA ResultTyped ==
    ASSUME ServerInv, NEW s, s.id \in Mutation, s.payload \in Content
    PROVE  Result(s) \in Content
<1>1. s.id[1] \in Edit /\ Changes(s.id) \in Item /\ FieldOf[s.id[1]] \in Field
  BY MutationIs
<1>2. contents[head[Changes(s.id)]] \in Content
  BY <1>1 DEF ServerInv, ContentsOK
<1> QED
  BY <1>1, <1>2 DEF Result, Content

LEMMA AcceptKeeps ==
    ASSUME ServerInv, NEW s, Accept(s), s.id \in Mutation, s.payload \in Content,
           \A m \in Accepted : m[1] # s.id[1],
           TriesOK', TriesGrow, s.id[2] <= tries'[s.id[1]]
    PROVE  ServerInv' /\ ServerMoves
<1> DEFINE i == Changes(s.id)
           entry == [id |-> s.id, sequence |-> drawn + 1, content |-> Result(s)]
<1>1. s.id[1] \in Edit /\ i \in Item /\ s.id[2] \in Nat
  BY MutationIs
<1>2. /\ UNCHANGED <<contents, head, receipts, feed, refusing>>
      /\ drawn' = drawn + 1 /\ open' = Put(open, i, entry)
      /\ i \notin DOMAIN open /\ s.id \notin DOMAIN receipts
  BY DEF Accept, Free, Known
<1>3. Accepted' = Accepted
  BY <1>2 DEF Accepted
<1>4. drawn \in Nat /\ drawn + 1 \in Nat /\ DOMAIN feed \subseteq 1 .. drawn
  BY DEF ServerInv, ChangesOK
<1>5. ServerMoves
  BY <1>2, <1>3, <1>4 DEF ServerMoves
<1>6. \A m \in Mutation : Issued(m) => Issued(m)'
  <2> TAKE m \in Mutation
  <2>1. m[1] \in Edit /\ m[2] \in Nat
    BY MutationIs
  <2> QED
    BY <2>1 DEF Issued, TriesGrow, ServerInv, TriesOK
<1>7. ContentsOK'
  BY <1>2, <1>3 DEF ServerInv, ContentsOK
<1>8. ReceiptsOK'
  BY <1>2, <1>3, <1>6 DEF ServerInv, ReceiptsOK
<1>9. ChangesOK'
  <2>1. DOMAIN feed \subseteq 1 .. (drawn + 1)
    BY <1>4
  <2> QED
    BY <1>2, <1>3, <1>4, <2>1 DEF ServerInv, ChangesOK
<1>10. entry \in [id : Mutation, sequence : Nat, content : Content]
  BY <1>4, ResultTyped
<1>11. /\ DOMAIN open' = DOMAIN open \cup {i} /\ open'[i] = entry
       /\ \A j \in DOMAIN open : open'[j] = open[j] /\ j # i
       /\ open' = [j \in DOMAIN open' |-> open'[j]]
  BY <1>2 DEF Put
<1>12. entry.id = s.id /\ entry.sequence = drawn + 1
  OBVIOUS
<1> HIDE DEF entry
<1>13. OpenOK'
  <2>1. DOMAIN open' \subseteq Item
    BY <1>1, <1>11 DEF ServerInv, OpenOK
  <2>2. \A j \in DOMAIN open' : open'[j] \in [id : Mutation, sequence : Nat, content : Content]
    BY <1>10, <1>11 DEF ServerInv, OpenOK
  <2>3. open' \in [DOMAIN open' -> [id : Mutation, sequence : Nat, content : Content]]
    BY <1>11, <2>2
  <2>4. ASSUME NEW j \in DOMAIN open'
        PROVE  /\ Issued(open[j].id)' /\ Changes(open'[j].id) = j
               /\ open'[j].id \notin DOMAIN receipts
               /\ \A m \in Accepted : m[1] # open'[j].id[1]
               /\ open'[j].sequence \in (1 .. (drawn + 1)) \ DOMAIN feed
    <3>1. CASE j = i
      <4>1. drawn + 1 \in (1 .. (drawn + 1)) \ DOMAIN feed
        BY <1>4
      <4> QED
        BY <3>1, <4>1, <1>2, <1>11, <1>12 DEF Issued
    <3>2. CASE j \in DOMAIN open
      <4>1. open'[j] = open[j] /\ open[j].id \in Mutation
        BY <3>2, <1>11 DEF ServerInv, OpenOK
      <4>2. Issued(open[j].id)'
        BY <3>2, <4>1, <1>6 DEF ServerInv, OpenOK, Issued
      <4>3. open[j].sequence \in (1 .. drawn) \ DOMAIN feed
        BY <3>2 DEF ServerInv, OpenOK
      <4>4. open[j].sequence \in (1 .. (drawn + 1)) \ DOMAIN feed
        BY <4>3, <1>4
      <4> QED
        BY <3>2, <4>1, <4>2, <4>4 DEF ServerInv, OpenOK
    <3> QED
      BY <3>1, <3>2, <1>11
  <2>5. \A j \in DOMAIN open : open'[j].sequence # drawn + 1
    <3> TAKE j \in DOMAIN open
    <3>1. open[j].sequence \in 1 .. drawn
      BY DEF ServerInv, OpenOK
    <3> QED
      BY <3>1, <1>4, <1>11
  <2>6. \A j, k \in DOMAIN open' : open'[j].sequence = open'[k].sequence => j = k
    BY <2>5, <1>11, <1>12 DEF ServerInv, OpenOK
  <2> QED
    BY <1>2, <1>3, <2>1, <2>3, <2>4, <2>6 DEF OpenOK
<1> QED
  BY <1>5, <1>7, <1>8, <1>9, <1>13 DEF ServerInv

LEMMA CommitKeeps ==
    ASSUME ServerInv, NEW i \in Item, Commit(i), tries' = tries
    PROVE  ServerInv' /\ ServerMoves
<1> DEFINE m == open[i].id
           q == open[i].sequence
           fact == [verdict |-> "accepted", competing |-> {}]
<1>1. /\ i \in DOMAIN open /\ m \in Mutation /\ Issued(m) /\ Changes(m) = i /\ m \notin DOMAIN receipts
      /\ \A n \in Accepted : n[1] # m[1]
      /\ q \in (1 .. drawn) \ DOMAIN feed /\ open[i].content \in Content
      /\ \A j \in DOMAIN open : j # i => open[j].sequence # q /\ Changes(open[j].id) = j
  BY DEF Commit, ServerInv, OpenOK
<1>2. /\ head' = [head EXCEPT ![i] = Canonical(m)]
      /\ contents' = Put(contents, Canonical(m), open[i].content)
      /\ receipts' = Put(receipts, m, fact)
      /\ feed' = Put(feed, q, m)
      /\ open' = [j \in DOMAIN open \ {i} |-> open[j]]
      /\ drawn' = drawn /\ refusing' = refusing
  BY DEF Commit
<1>3. /\ DOMAIN receipts' = DOMAIN receipts \cup {m} /\ receipts'[m] = fact
      /\ \A n \in DOMAIN receipts : receipts'[n] = receipts[n]
      /\ receipts' = [n \in DOMAIN receipts' |-> receipts'[n]]
  BY <1>1, <1>2 DEF Put
<1>4. Accepted' = Accepted \cup {m}
  <2>1. fact.verdict = "accepted"
    OBVIOUS
  <2> QED
    BY <1>1, <1>3, <2>1 DEF Accepted
<1>5. Canonical(m) \notin DOMAIN contents /\ Canonical(m)[1] = "server"
  <2>1. m \notin Accepted
    BY <1>1, AcceptedIs
  <2>2. DOMAIN contents \subseteq {Origin(j) : j \in Item} \cup {Canonical(n) : n \in Accepted}
    BY DEF ServerInv, ContentsOK
  <2> QED
    BY <2>1, <2>2, RevisionsApart
<1>6. /\ DOMAIN contents' = DOMAIN contents \cup {Canonical(m)}
      /\ contents'[Canonical(m)] = open[i].content
      /\ \A r \in DOMAIN contents : contents'[r] = contents[r]
      /\ contents' = [r \in DOMAIN contents' |-> contents'[r]]
  BY <1>2, <1>5 DEF Put
<1>7. /\ DOMAIN feed' = DOMAIN feed \cup {q} /\ feed'[q] = m
      /\ \A p \in DOMAIN feed : feed'[p] = feed[p] /\ p # q
      /\ feed' = [p \in DOMAIN feed' |-> feed'[p]]
  BY <1>1, <1>2 DEF Put
<1>8. /\ head \in [Item -> DOMAIN contents]
      /\ head'[i] = Canonical(m) /\ \A j \in Item : j # i => head'[j] = head[j]
      /\ head' = [j \in Item |-> head'[j]]
  BY <1>2 DEF ServerInv, ContentsOK
<1>9. head'[i] # head[i]
  BY <1>5, <1>8
<1>10. ServerMoves
  <2>1. drawn \in Nat
    BY DEF ServerInv, ChangesOK
  <2>2. \A n \in Accepted' : n \in Accepted \/ (n \in Opened /\ head'[Changes(n)] # head[Changes(n)])
    BY <1>1, <1>4, <1>9 DEF Opened
  <2> QED
    BY <1>2, <1>3, <1>5, <1>6, <1>7, <1>8, <2>1, <2>2 DEF ServerMoves
<1>11. TriesOK'
  BY <1>10, VerdictsStand DEF ServerInv, TriesOK
<1>12. ContentsOK'
  <2>1. \A r \in DOMAIN contents' : contents'[r] \in Content
    BY <1>1, <1>6 DEF ServerInv, ContentsOK
  <2>2. DOMAIN contents' \subseteq {Origin(j) : j \in Item} \cup {Canonical(n) : n \in Accepted'}
    BY <1>4, <1>6 DEF ServerInv, ContentsOK
  <2>3. \A n \in Accepted' : Canonical(n) \in DOMAIN contents'
    BY <1>4, <1>6 DEF ServerInv, ContentsOK
  <2>4. head' \in [Item -> DOMAIN contents']
    BY <1>6, <1>8
  <2> QED
    BY <1>2, <1>6, <2>1, <2>2, <2>3, <2>4 DEF ServerInv, ContentsOK
<1>13. ReceiptsOK'
  <2>1. fact \in Verdict /\ fact.verdict = "accepted" /\ fact.competing = {}
    BY DEF Verdict
  <2> HIDE DEF fact, m
  <2>2. receipts' \in [DOMAIN receipts' -> Verdict] /\ DOMAIN receipts' \subseteq Mutation
    BY <1>1, <1>3, <2>1 DEF ServerInv, ReceiptsOK
  <2>3. \A n \in Mutation : Issued(n)' = Issued(n)
    BY DEF Issued
  <2>4. \A n \in DOMAIN receipts' :
          /\ Issued(n)'
          /\ receipts'[n].verdict # "blocked"
          /\ receipts'[n].competing \subseteq DOMAIN contents'
          /\ receipts'[n].competing # {} => n[1] \notin Blind
    <3> TAKE n \in DOMAIN receipts'
    <3>1. CASE n = m
      BY <3>1, <1>1, <1>3, <2>1, <2>3
    <3>2. CASE n \in DOMAIN receipts
      BY <3>2, <1>3, <1>6, <2>2, <2>3 DEF ServerInv, ReceiptsOK
    <3> QED
      BY <3>1, <3>2, <1>3
  <2>5. \A n, o \in Accepted' : n[1] = o[1] => n = o
    BY <1>1, <1>4 DEF ServerInv, ReceiptsOK
  <2> QED
    BY <2>2, <2>4, <2>5 DEF ReceiptsOK
<1>14. ChangesOK'
  <2> HIDE DEF m, q
  <2>1. m \notin Accepted
    BY <1>1, AcceptedIs
  <2>2. \A p \in DOMAIN feed : feed[p] \in Accepted /\ feed[p] # m
    BY <2>1 DEF ServerInv, ChangesOK
  <2>3. feed' \in [DOMAIN feed' -> Accepted']
    BY <1>4, <1>7, <2>2
  <2>4. \A n \in Accepted' : \E p \in DOMAIN feed' : feed'[p] = n
    BY <1>4, <1>7 DEF ServerInv, ChangesOK
  <2>5. \A p, o \in DOMAIN feed' : feed'[p] = feed'[o] => p = o
    BY <1>7, <2>2 DEF ServerInv, ChangesOK
  <2> QED
    BY <1>1, <1>2, <1>7, <2>3, <2>4, <2>5 DEF ServerInv, ChangesOK
<1>15. OpenOK'
  <2>1. \A j \in DOMAIN open' : j \in DOMAIN open /\ j # i /\ open'[j] = open[j]
    BY <1>2
  <2>2. ASSUME NEW j \in DOMAIN open'
        PROVE  /\ Issued(open[j].id)' /\ Changes(open'[j].id) = j
               /\ open'[j].id \notin DOMAIN receipts'
               /\ \A n \in Accepted' : n[1] # open'[j].id[1]
               /\ open'[j].sequence \in (1 .. drawn') \ DOMAIN feed'
    <3>1. /\ Issued(open[j].id) /\ Changes(open[j].id) = j
          /\ open[j].id \notin DOMAIN receipts
          /\ \A n \in Accepted : n[1] # open[j].id[1]
          /\ open[j].sequence \in (1 .. drawn) \ DOMAIN feed
      BY <2>1 DEF ServerInv, OpenOK
    <3>2. m[1] # open[j].id[1]
      BY <1>1, <2>1, <3>1 DEF Changes
    <3> HIDE DEF m, q
    <3>3. open[j].id # m
      BY <3>2
    <3>4. open[j].sequence # q
      BY <1>1, <2>1
    <3> QED
      BY <1>2, <1>3, <1>4, <1>7, <2>1, <3>1, <3>2, <3>3, <3>4 DEF Issued
  <2>3. open' \in [DOMAIN open' -> [id : Mutation, sequence : Nat, content : Content]]
    BY <1>2 DEF ServerInv, OpenOK
  <2>4. DOMAIN open' \subseteq Item
    BY <2>1 DEF ServerInv, OpenOK
  <2>5. \A j, k \in DOMAIN open' : open'[j].sequence = open'[k].sequence => j = k
    BY <2>1 DEF ServerInv, OpenOK
  <2> QED
    BY <2>2, <2>3, <2>4, <2>5 DEF OpenOK
<1> QED
  BY <1>10, <1>11, <1>12, <1>13, <1>14, <1>15 DEF ServerInv

LEMMA VerdictsTyped ==
    ASSUME ServerInv, NEW s, s.id \in Mutation, NEW verdict \in Refusals(s)
    PROVE  /\ verdict \in Verdict /\ verdict.verdict \in {"conflict", "rejected"}
           /\ verdict.competing \subseteq DOMAIN contents
           /\ verdict.competing # {} => s.id[1] \notin Blind
<1>1. head[Changes(s.id)] \in DOMAIN contents
  BY MutationIs DEF ServerInv, ContentsOK
<1>2. DOMAIN contents \subseteq Revision
  BY AcceptedIs DEF ServerInv, ContentsOK, ReceiptsOK, Revision
<1>3. CASE verdict.verdict = "conflict" /\ ~Founded(s) /\ verdict = [verdict |-> "conflict", competing |-> {head[Changes(s.id)]}]
  BY <1>1, <1>2, <1>3 DEF Verdict, Founded
<1>4. CASE verdict = [verdict |-> "rejected", competing |-> {}]
  BY <1>4 DEF Verdict
<1> QED
  BY <1>3, <1>4 DEF Refusals

LEMMA RefuseKeeps ==
    ASSUME ServerInv, NEW s, s.id \in Mutation, Issued(s.id), NEW verdict, Refuse(s, verdict), tries' = tries
    PROVE  /\ ServerInv' /\ ServerMoves
           /\ s.id \in DOMAIN receipts' /\ receipts'[s.id] = verdict
<1>1. /\ verdict \in Verdict /\ verdict.verdict \in {"conflict", "rejected"}
      /\ verdict.competing \subseteq DOMAIN contents
      /\ verdict.competing # {} => s.id[1] \notin Blind
  BY VerdictsTyped DEF Refuse
<1>2. /\ s.id \notin DOMAIN receipts /\ Changes(s.id) \notin DOMAIN open
      /\ receipts' = Put(receipts, s.id, verdict)
      /\ UNCHANGED <<contents, head, feed, drawn, open, refusing>>
  BY DEF Refuse, Known, Free
<1>3. /\ DOMAIN receipts' = DOMAIN receipts \cup {s.id} /\ receipts'[s.id] = verdict
      /\ \A n \in DOMAIN receipts : receipts'[n] = receipts[n]
      /\ receipts' = [n \in DOMAIN receipts' |-> receipts'[n]]
  BY <1>2 DEF Put
<1>4. Accepted' = Accepted
  BY <1>1, <1>2, <1>3 DEF Accepted
<1>5. ServerMoves
  <2>1. drawn \in Nat
    BY DEF ServerInv, ChangesOK
  <2> QED
    BY <1>2, <1>3, <1>4, <2>1 DEF ServerMoves
<1>6. TriesOK'
  BY <1>5, VerdictsStand DEF ServerInv, TriesOK
<1>7. ContentsOK' /\ ChangesOK'
  BY <1>2, <1>4 DEF ServerInv, ContentsOK, ChangesOK
<1>8. \A n \in Mutation : Issued(n)' = Issued(n)
  BY DEF Issued
<1>9. ReceiptsOK'
  <2>1. receipts' \in [DOMAIN receipts' -> Verdict] /\ DOMAIN receipts' \subseteq Mutation
    BY <1>1, <1>3 DEF ServerInv, ReceiptsOK
  <2>2. \A n \in DOMAIN receipts' :
          /\ Issued(n)'
          /\ receipts'[n].verdict # "blocked"
          /\ receipts'[n].competing \subseteq DOMAIN contents'
          /\ receipts'[n].competing # {} => n[1] \notin Blind
    BY <1>1, <1>2, <1>3, <1>8 DEF ServerInv, ReceiptsOK
  <2>3. \A n, o \in Accepted' : n[1] = o[1] => n = o
    BY <1>4 DEF ServerInv, ReceiptsOK
  <2> QED
    BY <2>1, <2>2, <2>3 DEF ReceiptsOK
<1>10. OpenOK'
  <2>1. \A j \in DOMAIN open : /\ open[j].id \in Mutation
                               /\ open[j].id \notin DOMAIN receipts /\ Changes(open[j].id) = j
    BY DEF ServerInv, OpenOK
  <2>2. \A j \in DOMAIN open : open[j].id \notin DOMAIN receipts'
    BY <1>2, <1>3, <2>1
  <2> QED
    BY <1>2, <1>4, <1>8, <2>1, <2>2 DEF ServerInv, OpenOK
<1> QED
  BY <1>3, <1>5, <1>6, <1>7, <1>9, <1>10 DEF ServerInv

(* An answer is the receipt, or a refusal that leaves none.                 *)
LEMMA AnswersKeep ==
    ASSUME ServerInv, NEW s, s.id \in Mutation, Issued(s.id), NEW verdict, Answers(s, verdict), tries' = tries
    PROVE  /\ ServerInv' /\ ServerMoves /\ verdict \in Verdict
           /\ verdict = Blocked \/ (s.id \in DOMAIN receipts' /\ receipts'[s.id] = verdict)
<1>1. TriesGrow
  BY TriesStay
<1>2. CASE Known(s) /\ verdict = receipts[s.id] /\ UNCHANGED feedVars
  <2>1. TriesOK'
    BY <1>2 DEF ServerInv, TriesOK, Refused, feedVars
  <2>2. ServerInv' /\ ServerMoves
    BY <1>1, <1>2, <2>1, ServerKept
  <2> QED
    BY <1>2, <2>2 DEF feedVars, Known, ServerInv, ReceiptsOK
<1>3. CASE Refuse(s, verdict)
  <2>1. verdict \in Verdict
    BY <1>3, VerdictsTyped DEF Refuse
  <2> QED
    BY <1>3, <2>1, RefuseKeeps
<1>4. CASE WriteBlocked(s) /\ verdict = Blocked
  <2>1. TriesOK'
    BY <1>4 DEF WriteBlocked, ServerInv, TriesOK, Refused, feedVars
  <2>2. ServerInv' /\ ServerMoves
    BY <1>1, <1>4, <2>1, ServerKept DEF WriteBlocked
  <2> QED
    BY <1>4, <2>2 DEF Blocked, Verdict
<1> QED
  BY <1>2, <1>3, <1>4 DEF Answers

LEMMA ToggleKeeps ==
    ASSUME ServerInv, ToggleRefusing, tries' = tries
    PROVE  ServerInv' /\ ServerMoves
<1>1. Accepted' = Accepted
  BY DEF Accepted, ToggleRefusing
<1>2. drawn \in Nat /\ refusing' \in BOOLEAN
  BY DEF ServerInv, ChangesOK, ContentsOK, ToggleRefusing
<1>3. ServerMoves
  BY <1>1, <1>2 DEF ServerMoves, ToggleRefusing
<1>4. TriesOK' /\ ReceiptsOK' /\ OpenOK'
  BY <1>1 DEF ToggleRefusing, ServerInv, TriesOK, ReceiptsOK, OpenOK, Issued, Refused
<1>5. ContentsOK' /\ ChangesOK'
  BY <1>1, <1>2 DEF ToggleRefusing, ServerInv, ContentsOK, ChangesOK
<1> QED
  BY <1>3, <1>4, <1>5 DEF ServerInv

-----------------------------------------------------------------------------
(* The steps of a device.                                                   *)

\* A step of d changes the state of no other device and the edits of no other.
Acts(d) ==
    /\ outbox' = [outbox EXCEPT ![d] = outbox'[d]]
    /\ conflicts' = [conflicts EXCEPT ![d] = conflicts'[d]]
    /\ view' = [view EXCEPT ![d] = view'[d]]
    /\ cursor' = [cursor EXCEPT ![d] = cursor'[d]]
    /\ pass' = [pass EXCEPT ![d] = pass'[d]]
    /\ late' = [late EXCEPT ![d] = late'[d]]
    /\ \A e \in Edit \ Writes[d] : tries'[e] = tries[e]

LEMMA StepKeeps ==
    ASSUME SyncInv, NEW d \in Device, Acts(d), ServerInv', ServerMoves, TriesGrow, DeviceOK(d)'
    PROVE  SyncInv'
<1>1. ASSUME NEW o \in Device, o # d  PROVE DeviceOK(o)'
  <2>1. \A e \in Writes[o] : e \in Edit /\ e \notin Writes[d]
    BY <1>1, SyncAssumption
  <2>2. \A e \in Writes[o] : tries'[e] = tries[e]
    BY <2>1 DEF Acts
  <2>3. /\ outbox'[o] = outbox[o] /\ conflicts'[o] = conflicts[o] /\ view'[o] = view[o]
        /\ cursor'[o] = cursor[o] /\ pass'[o] = pass[o] /\ late'[o] = late[o]
    BY <1>1 DEF Acts, SyncInv
  <2> QED
    BY <2>2, <2>3, DeviceKept DEF SyncInv
<1>2. \A o \in Device : DeviceOK(o)'
  BY <1>1
<1>3. /\ outbox'[d] \in Seq(QueuedRow) /\ conflicts'[d] \in SUBSET ConflictRecord
      /\ view'[d] \in [Item -> Shown] /\ cursor'[d] \in Nat
      /\ pass'[d] \in PassState /\ late'[d] \in Seq(Submission)
  BY DEF DeviceOK, RowsOK, ConflictsOK, ViewOK, PassOK, LateOK
<1>4. /\ outbox' \in [Device -> Seq(QueuedRow)] /\ conflicts' \in [Device -> SUBSET ConflictRecord]
      /\ view' \in [Device -> [Item -> Shown]] /\ cursor' \in [Device -> Nat]
      /\ pass' \in [Device -> PassState] /\ late' \in [Device -> Seq(Submission)]
  BY <1>3 DEF Acts, SyncInv
<1> QED
  BY <1>2, <1>4 DEF SyncInv

LEMMA DeviceParts ==
    ASSUME SyncInv, NEW d \in Device
    PROVE  /\ ServerInv /\ DeviceOK(d)
           /\ RowsOK(d) /\ ConflictsOK(d) /\ ViewOK(d) /\ LateOK(d) /\ PassOK(d) /\ KeptOK(d)
           /\ outbox[d] \in Seq(QueuedRow) /\ late[d] \in Seq(Submission)
           /\ \A row \in Rows(d) : row \in QueuedRow /\ RowOK(d, row)
           /\ Writes[d] \subseteq Edit
<1>1. DeviceOK(d)
  BY DEF SyncInv
<1>2. \A row \in Rows(d) : row \in QueuedRow /\ RowOK(d, row)
  BY <1>1, ElementOfSeq DEF DeviceOK, RowsOK, Rows, ToSet
<1> QED
  BY <1>1, <1>2, SyncAssumption DEF DeviceOK, RowsOK, LateOK, SyncInv

(* One row more.                                                            *)
LEMMA AppendIs ==
    ASSUME NEW rows \in Seq(QueuedRow), NEW row \in QueuedRow, Distinct(rows),
           \A k \in DOMAIN rows : rows[k].id # row.id
    PROVE  /\ Append(rows, row) \in Seq(QueuedRow) /\ Distinct(Append(rows, row))
           /\ ToSet(Append(rows, row)) = ToSet(rows) \cup {row}
<1> DEFINE new == Append(rows, row)
           n == Len(rows)
<1>1. n \in Nat /\ DOMAIN rows = 1 .. n
  BY LenProperties
<1>2. /\ new \in Seq(QueuedRow) /\ Len(new) = n + 1
      /\ \A k \in 1 .. n : new[k] = rows[k]
      /\ new[n + 1] = row
  BY <1>1, AppendProperties
<1>3. DOMAIN new = 1 .. n + 1
  BY <1>2, LenProperties
<1> HIDE DEF new, n
<1>4. \A k \in 1 .. n + 1 : k \in 1 .. n \/ k = n + 1
  BY <1>1
<1>5. 1 .. n \subseteq 1 .. n + 1 /\ n + 1 \in 1 .. n + 1
  BY <1>1
<1>6. Distinct(new)
  BY <1>1, <1>2, <1>3, <1>4 DEF Distinct
<1>7. ToSet(new) = ToSet(rows) \cup {row}
  BY <1>1, <1>2, <1>3, <1>4, <1>5 DEF ToSet
<1> QED
  BY <1>2, <1>6, <1>7 DEF new

LEMMA TriesBound ==
    ASSUME ServerInv, NEW e \in Edit
    PROVE  /\ tries[e] \in Nat /\ MaxTries[e] \in Nat /\ MaxTries[e] >= 1 /\ tries[e] <= MaxTries[e]
           /\ \A m \in Mutation : m[1] = e /\ Issued(m) => tries[e] >= 1
<1>1. tries[e] \in Nat /\ MaxTries[e] \in Nat /\ MaxTries[e] >= 1 /\ tries[e] <= MaxTries[e]
  <2>1. MaxTries[e] \in Nat \ {0}
    BY FeedAssumption
  <2>2. MaxTries[e] \in Nat /\ MaxTries[e] >= 1
    BY <2>1
  <2>3. tries[e] \in Nat /\ tries[e] <= MaxTries[e]
    BY DEF ServerInv, TriesOK
  <2> QED
    BY <2>2, <2>3
<1>2. ASSUME NEW m \in Mutation, m[1] = e, Issued(m)  PROVE tries[e] >= 1
  <2>1. m[2] \in Nat /\ m[2] >= 1 /\ m[2] <= tries[e]
    BY <1>2, MutationIs DEF Issued
  <2> QED
    BY <1>1, <2>1
<1> QED
  BY <1>1, <1>2

(* Work is queued under a new identity.  It is the first of its edit, or it *)
(* rests on two revisions of the server, neither of them the head of an     *)
(* item that has the edit already.                                          *)
LEMMA EnqueueKeeps ==
    ASSUME SyncInv, NEW d \in Device, NEW e \in Writes[d], NEW row \in QueuedRow,
           row.id = Fresh(e), row.local = Local(row.id), tries[e] < MaxTries[e],
           tries[e] > 0 => /\ e \notin Blind /\ Refused(<<e, 1>>)
                           /\ row.base \subseteq DOMAIN contents
                           /\ ~Rebasable(row),
           Named(row.base), IsFiniteSet(row.base),
           Rebasable(row) \/ row.base = {} \/ row.base \subseteq DOMAIN contents,
           (\E m \in Accepted : m[1] = e) => head[ItemOf[e]] \notin row.base,
           \A old \in Rows(d) : old.id[1] = e => ~Rebasable(old),
           Enqueue(d, row), UNCHANGED <<feedVars, cursor, late>>,
           conflicts' = [conflicts EXCEPT ![d] = conflicts'[d]],
           conflicts'[d] \subseteq conflicts[d],
           \A c \in conflicts[d] : c \in conflicts'[d] \/ c.id[1] = e,
           pass' = [pass EXCEPT ![d] = pass'[d]], pass'[d] = pass[d] \/ pass'[d] = Idle
    PROVE  SyncInv'
<1>1. /\ ServerInv /\ e \in Edit
      /\ RowsOK(d) /\ ConflictsOK(d) /\ ViewOK(d) /\ LateOK(d) /\ PassOK(d) /\ KeptOK(d)
      /\ outbox[d] \in Seq(QueuedRow)
      /\ \A old \in Rows(d) : old \in QueuedRow /\ RowOK(d, old)
  BY DeviceParts
<1>2. /\ tries[e] \in Nat /\ MaxTries[e] \in Nat
      /\ row.id = <<e, tries[e] + 1>> /\ row.id[1] = e /\ row.id[2] = tries[e] + 1
      /\ row.id \in Mutation /\ Changes(row.id) = ItemOf[e] /\ ItemOf[e] \in Item
  <2>1. tries[e] \in Nat /\ MaxTries[e] \in Nat /\ ItemOf[e] \in Item
    BY <1>1, TriesBound, FeedAssumption
  <2>2. row.id = <<e, tries[e] + 1>> /\ row.id \in Mutation
    BY DEF Fresh, QueuedRow
  <2> QED
    BY <2>1, <2>2 DEF Changes
<1>3. /\ tries \in [Edit -> Nat] /\ tries' = [tries EXCEPT ![e] = @ + 1]
      /\ outbox' = [outbox EXCEPT ![d] = Append(outbox[d], row)]
      /\ view' = [view EXCEPT ![d][ItemOf[e]] = [revision |-> row.local, content |-> row.payload]]
  BY <1>1, <1>2 DEF ServerInv, TriesOK, Enqueue
<1>4. /\ tries' \in [Edit -> Nat] /\ tries'[e] = tries[e] + 1
      /\ \A o \in Edit : o # e => tries'[o] = tries[o]
  BY <1>1, <1>2, <1>3
<1>5. TriesGrow
  BY <1>1, <1>2, <1>3, <1>4 DEF TriesGrow
<1>6. TriesOK'
  <2>1. \A m : Refused(m)' = Refused(m)
    BY DEF feedVars, Refused
  <2>2. ASSUME NEW o \in Edit
        PROVE  tries'[o] <= MaxTries[o] /\ (o \in Blind => tries'[o] <= 1) /\ (tries'[o] > 1 => Refused(<<o, 1>>))
    <3>1. CASE o = e
      BY <3>1, <1>2, <1>4
    <3>2. CASE o # e
      BY <3>2, <1>1, <1>4 DEF ServerInv, TriesOK
    <3> QED
      BY <3>1, <3>2
  <2> QED
    BY <1>4, <2>1, <2>2 DEF TriesOK
<1>7. ServerInv' /\ ServerMoves /\ Accepted' = Accepted
  BY <1>1, <1>5, <1>6, ServerKept
<1>8. outbox'[d] = Append(outbox[d], row) /\ Acts(d)
  BY <1>1, <1>3, <1>4 DEF Acts, SyncInv
<1>9. \A m \in Mutation : Issued(m) => m # row.id
  BY <1>2 DEF Issued
<1>10. \A old \in Rows(d) : old.id # row.id
  BY <1>1, <1>9 DEF RowOK, Sound, QueuedRow
<1>11. outbox'[d] \in Seq(QueuedRow) /\ Distinct(outbox'[d]) /\ Rows(d)' = Rows(d) \cup {row}
  <2>1. \A k \in DOMAIN outbox[d] : outbox[d][k].id # row.id
    BY <1>10 DEF Rows, ToSet
  <2> QED
    BY <1>1, <1>8, <2>1, AppendIs DEF RowsOK, Rows
<1>12. RowOK(d, row)'
  <2>1. Issued(row.id)'
    BY <1>2, <1>4 DEF Issued
  <2>2. row.id[2] > 1 => row.base \subseteq DOMAIN contents'
    BY <1>2 DEF feedVars
  <2>3. (\E m \in Accepted' : m[1] = e) => head'[Changes(row.id)] \notin row.base
    BY <1>2, <1>7 DEF feedVars
  <2>4. Sound(row)'
    BY <1>2, <2>1, <2>2, <2>3 DEF Sound
  <2>5. Named(row.base)'
    BY <1>7, NamedStays
  <2>6. ASSUME Rebasable(row), NEW n \in 1 .. tries'[e], n # row.id[2]  PROVE FALSE
    BY <1>2, <1>4, <2>6
  <2>7. row.base \subseteq DOMAIN contents => row.base \subseteq DOMAIN contents'
    BY <1>7 DEF ServerMoves
  <2> QED
    BY <1>2, <2>4, <2>5, <2>6, <2>7 DEF RowOK, Rebasable
<1>13. \A old \in Rows(d) : RowOK(d, old)'
  <2> TAKE old \in Rows(d)
  <2>1. old.id[1] \in Edit /\ old \in QueuedRow /\ RowOK(d, old)
    BY <1>1, MutationIs DEF QueuedRow
  <2>2. Rebasable(old) => tries'[old.id[1]] = tries[old.id[1]]
    BY <1>4, <2>1
  <2> QED
    BY <1>1, <1>5, <1>7, <2>1, <2>2, RowStays
<1>14. ASSUME Rebasable(row)  PROVE \A old \in Rows(d) : old.id[1] # e
  <2> SUFFICES ASSUME NEW old \in Rows(d), old.id[1] = e  PROVE FALSE
    OBVIOUS
  <2>1. old.id \in Mutation /\ Issued(old.id)
    BY <1>1 DEF QueuedRow, RowOK, Sound
  <2>2. tries[e] >= 1
    BY <1>1, <2>1, TriesBound
  <2> QED
    BY <1>2, <1>14, <2>2
<1>15. RowsOK(d)'
  <2>1. ASSUME NEW r \in Rows(d) \cup {row}, NEW o \in Rows(d) \cup {row}, Rebasable(r), o.id[1] = r.id[1]
        PROVE  o.id = r.id
    <3>1. CASE r = row /\ o = row
      BY <3>1
    <3>2. CASE r = row /\ o \in Rows(d)
      BY <3>2, <2>1, <1>2, <1>14
    <3>3. CASE r \in Rows(d) /\ o = row
      BY <3>3, <2>1, <1>2
    <3>4. CASE r \in Rows(d) /\ o \in Rows(d)
      BY <3>4, <2>1, <1>1 DEF RowsOK
    <3> QED
      BY <3>1, <3>2, <3>3, <3>4
  <2> QED
    BY <1>11, <1>12, <1>13, <2>1 DEF RowsOK, Rebasable
<1>16. ConflictsOK(d)'
  <2>1. \A c \in conflicts[d] : ConflictOK(d, c)'
    BY <1>1, <1>5, <1>7, ConflictStays DEF ConflictsOK
  <2>2. ASSUME NEW c \in conflicts[d], Rebasable(row)  PROVE row.id[1] # c.id[1]
    <3>1. c.id \in Mutation /\ Issued(c.id)
      BY <1>1 DEF ConflictsOK, ConflictRecord, ConflictOK
    <3> QED
      BY <1>1, <1>2, <2>2, <3>1, TriesBound
  <2>3. \A c \in conflicts[d] : \A r \in Rows(d)' : Rebasable(r) => r.id[1] # c.id[1]
    BY <1>1, <1>11, <2>2 DEF ConflictsOK
  <2> QED
    BY <1>1, <2>1, <2>3 DEF ConflictsOK, Rebasable
<1>17. ViewOK(d)'
  <2>1. row.local[1] = "local" /\ row.local \in Revision /\ row.payload \in Content
    BY RevisionsApart, NamesAreRevisions DEF QueuedRow
  <2>2. view'[d] = [view[d] EXCEPT ![ItemOf[e]] = [revision |-> row.local, content |-> row.payload]]
    BY <1>3 DEF SyncInv
  <2>3. [revision |-> row.local, content |-> row.payload] \in Shown
    BY <2>1 DEF Shown
  <2>4. view'[d] \in [Item -> Shown]
    BY <1>1, <2>2, <2>3 DEF ViewOK
  <2>5. Displayable([revision |-> row.local, content |-> row.payload])
    BY <2>1, <2>3 DEF Displayable
  <2>6. \A i \in Item : Displayable(view'[d][i])
    BY <1>1, <1>2, <2>2, <2>5 DEF ViewOK
  <2> QED
    BY <1>1, <2>4, <2>6 DEF ViewOK, Displayable, feedVars
<1>18. LateOK(d)'
  BY <1>1, <1>5, <1>7, LateKept
<1>19. PassOK(d)'
  <2>1. RowsRemain(d)
    BY <1>11 DEF RowsRemain
  <2>2. CASE pass'[d] = pass[d]
    BY <1>1, <1>5, <1>7, <2>1, <2>2, PassKept
  <2>3. CASE pass'[d] = Idle
    BY <2>3 DEF PassOK, PassState, Idle
  <2> QED
    BY <2>2, <2>3
<1>20. KeptOK(d)'
  <2>1. \A m \in Kept(d) : m \in Kept(d)' \/ m[1] = e
    BY <1>11 DEF Kept
  <2>2. row.id \in Kept(d)'
    BY <1>11 DEF Kept
  <2>3. ASSUME NEW o \in Writes[d], tries'[o] > 0, o # e
        PROVE  (\E m \in Kept(d)' : m[1] = o) \/ (\E m \in Accepted' : m[1] = o)
    <3>1. o \in Edit /\ tries[o] > 0
      BY <1>4, <2>3, SyncAssumption
    <3> QED
      BY <1>1, <1>7, <2>1, <2>3, <3>1 DEF KeptOK
  <2> QED
    BY <1>2, <2>2, <2>3 DEF KeptOK
<1> QED
  BY <1>5, <1>7, <1>8, <1>15, <1>16, <1>17, <1>18, <1>19, <1>20, StepKeeps DEF DeviceOK

(* Two revisions are not one.                                               *)
LEMMA PairIsNotRebasable ==
    ASSUME NEW a, NEW b, a # b
    PROVE  Cardinality({a, b}) # 1 /\ IsFiniteSet({a, b})
<1>1. IsFiniteSet({a}) /\ Cardinality({a}) = 1
  BY FS_Singleton
<1>2. Cardinality({a} \cup {b}) = Cardinality({a}) + 1 /\ IsFiniteSet({a} \cup {b})
  BY <1>1, FS_AddElement
<1>3. {a} \cup {b} = {a, b}
  OBVIOUS
<1> QED
  BY <1>1, <1>2, <1>3

LEMMA LocalsAreNamed ==
    ASSUME NEW d \in Device, ViewOK(d), NEW i \in Item
    PROVE  Named({view[d][i].revision}) /\ view[d][i] \in Shown
BY DEF ViewOK, Displayable, Named

LEMMA MakeEditKeeps ==
    ASSUME SyncInv, NEW d \in Device, MakeEdit(d)
    PROVE  SyncInv'
<1>1. PICK e \in Writes[d] :
         /\ tries[e] = 0
         /\ Enqueue(d, Row(Fresh(e), IF e \in Blind THEN {} ELSE {view[d][ItemOf[e]].revision},
                           [view[d][ItemOf[e]].content EXCEPT ![FieldOf[e]] = e]))
  BY DEF MakeEdit
<1> DEFINE shown == view[d][ItemOf[e]]
           base == IF e \in Blind THEN {} ELSE {shown.revision}
           payload == [shown.content EXCEPT ![FieldOf[e]] = e]
           row == Row(Fresh(e), base, payload)
<1>2. /\ ServerInv /\ e \in Edit /\ ItemOf[e] \in Item /\ FieldOf[e] \in Field
      /\ RowsOK(d) /\ ConflictsOK(d) /\ ViewOK(d)
      /\ \A old \in Rows(d) : old \in QueuedRow /\ RowOK(d, old)
  BY DeviceParts, FeedAssumption
<1>3. shown \in Shown /\ Named({shown.revision})
  BY <1>2, LocalsAreNamed
<1>4. /\ base \subseteq Revision /\ Named(base)
      /\ Cardinality(base) = 1 \/ base = {}
      /\ IsFiniteSet(base)
  BY <1>3, FS_Singleton, FS_EmptySet DEF Shown, Named
<1>5. payload \in Content
  BY <1>2, <1>3 DEF Shown, Content
<1>6. /\ Fresh(e) = <<e, 1>> /\ Fresh(e) \in Mutation /\ tries[e] < MaxTries[e]
  <2>1. MaxTries[e] \in Nat /\ MaxTries[e] >= 1
    BY <1>2, TriesBound
  <2>2. Fresh(e) = <<e, 1>>
    BY <1>1 DEF Fresh
  <2> QED
    BY <1>1, <1>2, <2>1, <2>2, MutationIs
<1> HIDE DEF base, payload
<1>7. row \in QueuedRow /\ row.id = Fresh(e) /\ row.base = base /\ row.local = Local(row.id)
  BY <1>4, <1>5, <1>6, NamesAreRevisions DEF Row, QueuedRow
<1>14. Rebasable(row) \/ row.base = {}
  BY <1>4, <1>7 DEF Rebasable
<1>8. \A m \in Mutation : m[1] = e => ~Issued(m)
  BY <1>1, <1>2, TriesBound
<1>9. \A m \in Accepted : m[1] # e
  BY <1>2, <1>8, AcceptedIs DEF ServerInv, ReceiptsOK
<1>10. \A old \in Rows(d) : old.id[1] # e
  BY <1>2, <1>8 DEF QueuedRow, RowOK, Sound
<1>11. Enqueue(d, row)
  BY <1>1 DEF base, payload
<1>12. /\ UNCHANGED <<feedVars, cursor, late>> /\ conflicts' = conflicts /\ pass' = pass
  BY DEF MakeEdit
<1>13. /\ conflicts' = [conflicts EXCEPT ![d] = conflicts'[d]]
       /\ pass' = [pass EXCEPT ![d] = pass'[d]]
  BY <1>12 DEF SyncInv
<1> HIDE DEF row
<1> QED
  BY <1>1, <1>4, <1>6, <1>7, <1>9, <1>10, <1>11, <1>12, <1>13, <1>14, EnqueueKeeps

LEMMA MergeTyped ==
    ASSUME NEW a \in Content, NEW l \in Content, NEW r \in Content
    PROVE  Merge(a, l, r) \in Content
BY DEF Merge, Content

LEMMA ResolveKeeps ==
    ASSUME SyncInv, NEW d \in Device, Resolve(d)
    PROVE  SyncInv'
<1> DEFINE Resolves(c, pair, choice) ==
            /\ Clash(contents[pair[1]], c.payload, contents[pair[2]]) # {}
            /\ tries[c.id[1]] < MaxTries[c.id[1]]
            /\ Enqueue(d, Row(Fresh(c.id[1]), {pair[1], pair[2]},
                              [f \in Field |->
                                  IF f \in Clash(contents[pair[1]], c.payload, contents[pair[2]])
                                  THEN choice[f]
                                  ELSE Merge(contents[pair[1]], c.payload, contents[pair[2]])[f]]))
            /\ \/ conflicts' = [conflicts EXCEPT ![d] = @ \ {c}] /\ UNCHANGED pass
               \/ pass' = [pass EXCEPT ![d] = Idle] /\ UNCHANGED conflicts
<1>a. PICK c \in conflicts[d] : \E pair \in Comparisons(c.base, c.competing) :
         \E choice \in {c.payload, contents[pair[2]]} : Resolves(c, pair, choice)
  BY DEF Resolve
<1>b. PICK pair \in Comparisons(c.base, c.competing) :
         \E choice \in {c.payload, contents[pair[2]]} : Resolves(c, pair, choice)
  BY <1>a
<1>1. PICK choice \in {c.payload, contents[pair[2]]} : Resolves(c, pair, choice)
  BY <1>b
<1> DEFINE e == c.id[1]
           base == {pair[1], pair[2]}
           merged == Merge(contents[pair[1]], c.payload, contents[pair[2]])
           payload == [f \in Field |->
                         IF f \in Clash(contents[pair[1]], c.payload, contents[pair[2]])
                         THEN choice[f] ELSE merged[f]]
           row == Row(Fresh(e), base, payload)
<1>2. /\ ServerInv /\ RowsOK(d) /\ ConflictsOK(d)
      /\ \A old \in Rows(d) : old \in QueuedRow /\ RowOK(d, old)
  BY DeviceParts
<1>3. c \in ConflictRecord /\ ConflictOK(d, c)
  BY <1>2 DEF ConflictsOK
<1>4. /\ e \in Writes[d] /\ e \in Edit /\ c.id \in Mutation /\ c.payload \in Content
      /\ c.id \in DOMAIN receipts /\ Refused(c.id) /\ c.competing = receipts[c.id].competing
      /\ Issued(c.id) /\ Changes(c.id) = ItemOf[e]
  BY <1>3, MutationIs DEF ConflictOK, ConflictRecord, Refused, Changes
<1>5. /\ pair[1] \in c.base /\ pair[2] \in c.competing
      /\ pair[1] \in DOMAIN contents /\ pair[2] \in DOMAIN contents
      /\ Cardinality(c.base) = 1
  BY DEF Comparisons
<1>6. /\ contents[pair[1]] \in Content /\ contents[pair[2]] \in Content
      /\ DOMAIN contents \subseteq Revision
  BY <1>2, <1>5, AcceptedIs DEF ServerInv, ContentsOK, ReceiptsOK, Revision
<1>7. pair[1] # pair[2]
  BY <1>1 DEF Clash
<1>8. payload \in Content
  <2>1. merged \in Content /\ choice \in Content
    BY <1>4, <1>6, MergeTyped
  <2> HIDE DEF merged
  <2> QED
    BY <2>1 DEF Content
<1>9. /\ base \subseteq Revision /\ base \subseteq DOMAIN contents /\ Named(base) /\ Cardinality(base) # 1
      /\ IsFiniteSet(base)
  BY <1>5, <1>6, <1>7, PairIsNotRebasable DEF Named
<1>10. tries[e] \in Nat /\ MaxTries[e] \in Nat /\ Fresh(e) \in Mutation
  <2>1. tries[e] \in Nat /\ MaxTries[e] \in Nat
    BY <1>2, <1>4, TriesBound
  <2>2. tries[e] + 1 \in 1 .. MaxTries[e]
    BY <1>1, <2>1
  <2> QED
    BY <1>4, <2>1, <2>2, MutationIs DEF Fresh
<1> HIDE DEF base, payload, merged
<1>11. /\ row \in QueuedRow /\ row.id = Fresh(e) /\ row.base = base /\ row.local = Local(row.id)
  BY <1>8, <1>9, <1>10, NamesAreRevisions DEF Row, QueuedRow
<1>12. ~Rebasable(row)
  BY <1>9, <1>11 DEF Rebasable
<1>13. e \notin Blind
  BY <1>2, <1>4, <1>5 DEF ServerInv, ReceiptsOK
<1>14. Refused(<<e, 1>>)
  <2>1. c.id = <<e, c.id[2]>> /\ c.id[2] \in Nat /\ c.id[2] >= 1 /\ c.id[2] <= tries[e]
    BY <1>4, MutationIs DEF Issued
  <2>2. CASE c.id[2] = 1
    BY <1>4, <2>1, <2>2
  <2>3. CASE c.id[2] > 1
    <3>1. tries[e] > 1
      BY <2>1, <2>3, <1>10
    <3> QED
      BY <3>1, <1>2, <1>4 DEF ServerInv, TriesOK
  <2> QED
    BY <2>1, <2>2, <2>3
<1>15. (\E m \in Accepted : m[1] = e) => head[ItemOf[e]] \notin base
  BY <1>3, <1>4, <1>5 DEF ConflictOK, Rebasable, base
<1>16. \A old \in Rows(d) : old.id[1] = e => ~Rebasable(old)
  BY <1>2 DEF ConflictsOK
<1>17. Enqueue(d, row)
  BY <1>1 DEF base, payload, merged
<1>18. UNCHANGED <<feedVars, cursor, late>>
  BY DEF Resolve
<1>19. /\ conflicts' = [conflicts EXCEPT ![d] = conflicts'[d]]
       /\ conflicts'[d] \subseteq conflicts[d]
       /\ \A k \in conflicts[d] : k \in conflicts'[d] \/ k.id[1] = e
       /\ pass' = [pass EXCEPT ![d] = pass'[d]]
       /\ pass'[d] = pass[d] \/ pass'[d] = Idle
  <2>1. conflicts \in [Device -> SUBSET ConflictRecord] /\ pass \in [Device -> PassState]
    BY DEF SyncInv
  <2>2. CASE conflicts' = [conflicts EXCEPT ![d] = @ \ {c}] /\ UNCHANGED pass
    BY <2>1, <2>2
  <2>3. CASE pass' = [pass EXCEPT ![d] = Idle] /\ UNCHANGED conflicts
    BY <2>1, <2>3
  <2> QED
    BY <1>1, <2>2, <2>3
<1> HIDE DEF row
<1> QED
  BY <1>1, <1>4, <1>9, <1>11, <1>12, <1>13, <1>14, <1>15, <1>16, <1>17, <1>18, <1>19, EnqueueKeeps

(* The phase tells what a pass holds.                                       *)
LEMMA PassIs ==
    ASSUME NEW p \in PassState
    PROVE  /\ p.phase = "submit" => p \in SubmitPass
           /\ p.phase = "wait" => p \in WaitPass
           /\ p.phase = "settle" => p \in SettlePass
           /\ p.phase = "apply" => p \in ApplyPass
BY DEF PassState, Idle, Listing, SubmitPass, WaitPass, SettlePass, ApplyPass

LEMMA QuietServer ==
    ASSUME SyncInv, UNCHANGED <<feedVars, tries>>
    PROVE  ServerInv' /\ ServerMoves /\ TriesGrow /\ Accepted' = Accepted
<1>1. ServerInv
  BY DEF SyncInv
<1>2. TriesOK'
  BY <1>1 DEF ServerInv, TriesOK, Refused, feedVars
<1> QED
  BY <1>1, <1>2, TriesStay, ServerKept

(* A step that moves neither the server nor the records of a device.        *)
LEMMA QuietKeeps ==
    ASSUME SyncInv, NEW d \in Device, UNCHANGED <<feedVars, tries, conflicts>>, Acts(d),
           RowsStay(d), ViewOK(d)', LateOK(d)', PassOK(d)'
    PROVE  SyncInv'
<1>1. ServerInv /\ RowsOK(d) /\ ConflictsOK(d) /\ KeptOK(d) /\ Writes[d] \subseteq Edit
  BY DeviceParts
<1>2. ServerInv' /\ ServerMoves /\ TriesGrow
  BY QuietServer
<1>3. RowsOK(d)' /\ ConflictsOK(d)' /\ KeptOK(d)'
  BY <1>1, <1>2, RowsKept, ConflictsKept, KeptKept
<1> QED
  BY <1>2, <1>3, StepKeeps DEF DeviceOK

LEMMA QuietRest ==
    ASSUME SyncInv, NEW d \in Device, UNCHANGED <<feedVars, tries>>
    PROVE  /\ view' = view /\ cursor' = cursor => ViewOK(d)'
           /\ late' = late => LateOK(d)'
           /\ outbox' = outbox => RowsStay(d)
           /\ \A s : Sound(s) => Sound(s)'
           /\ \A base : Named(base) => Named(base)'
<1>1. ServerInv /\ ViewOK(d) /\ LateOK(d) /\ RowsOK(d)
  BY DeviceParts
<1>2. ServerInv' /\ ServerMoves /\ TriesGrow
  BY QuietServer
<1>3. view' = view /\ cursor' = cursor => ViewOK(d)'
  BY <1>1, <1>2, ViewKept
<1>4. late' = late => LateOK(d)'
  BY <1>1, <1>2, LateKept
<1>5. outbox' = outbox => RowsStay(d)
  BY <1>1 DEF RowsOK, RowsStay
<1>6. \A s : Sound(s) => Sound(s)'
  BY DEF Sound, Issued, Accepted, feedVars
<1> QED
  BY <1>2, <1>3, <1>4, <1>5, <1>6, NamedStays

LEMMA MarkedRowsStay ==
    ASSUME SyncInv, NEW d \in Device, NEW ids, NEW s \in {"pending", "sending", "blocked"},
           outbox' = [outbox EXCEPT ![d] = Marked(@, ids, s)]
    PROVE  RowsStay(d) /\ outbox' = [outbox EXCEPT ![d] = outbox'[d]]
<1>1. outbox[d] \in Seq(QueuedRow) /\ outbox'[d] = Marked(outbox[d], ids, s)
  BY DEF SyncInv
<1>2. outbox' = [outbox EXCEPT ![d] = outbox'[d]]
  BY DEF SyncInv
<1> QED
  BY <1>1, <1>2, MarkedIs DEF RowsStay

LEMMA IdlePassOK ==
    ASSUME NEW d \in Device, pass'[d] \in {Idle, Listing} \cup SubmitPass
    PROVE  PassOK(d)'
<1>1. pass'[d].phase \notin {"wait", "settle", "apply"}
  BY DEF Idle, Listing, SubmitPass
<1> QED
  BY <1>1 DEF PassOK, PassState

LEMMA BeginKeeps ==
    ASSUME SyncInv, NEW d \in Device, Begin(d)
    PROVE  SyncInv'
<1>1. /\ UNCHANGED <<feedVars, conflicts, view, cursor, late, tries>>
      /\ pass' = [pass EXCEPT ![d] = Submitting({})]
      /\ \E ids : outbox' = [outbox EXCEPT ![d] = Marked(@, ids, "pending")]
  BY DEF Begin
<1>2. RowsStay(d) /\ outbox' = [outbox EXCEPT ![d] = outbox'[d]]
  BY <1>1, MarkedRowsStay
<1>3. pass'[d] \in SubmitPass
  BY <1>1 DEF SyncInv, Submitting, SubmitPass
<1>4. Acts(d)
  BY <1>1, <1>2 DEF Acts, SyncInv
<1> QED
  BY <1>1, <1>2, <1>3, <1>4, QuietRest, IdlePassOK, QuietKeeps

LEMMA SubmitKeeps ==
    ASSUME SyncInv, NEW d \in Device, Submit(d)
    PROVE  SyncInv'
<1>1. PICK order \in InOrder(CausalBatch(outbox[d])) :
         LET batch == [k \in DOMAIN order |-> outbox[d][order[k]]]
         IN  /\ outbox' = [outbox EXCEPT ![d] = Marked(@, Ids(batch), "sending")]
             /\ pass' = [pass EXCEPT ![d] =
                           [phase |-> "wait", merged |-> @.merged, batch |-> batch,
                            todo |-> [k \in DOMAIN batch |-> Sent(batch[k])], results |-> << >>]]
  BY DEF Submit
<1>a. PICK batch : batch = [k \in DOMAIN order |-> outbox[d][order[k]]]
  OBVIOUS
<1>c. PICK todo : todo = [k \in DOMAIN batch |-> Sent(batch[k])]
  OBVIOUS
<1> DEFINE new == [phase |-> "wait", merged |-> pass[d].merged, batch |-> batch,
                   todo |-> todo, results |-> << >>]
<1>2. /\ UNCHANGED <<feedVars, conflicts, view, cursor, late, tries>>
      /\ pass[d].phase = "submit" /\ Pending(outbox[d]) # {}
  BY DEF Submit
<1>3. /\ ServerInv /\ RowsOK(d) /\ outbox[d] \in Seq(QueuedRow) /\ pass[d] \in PassState
      /\ \A row \in Rows(d) : row \in QueuedRow /\ RowOK(d, row)
  BY DeviceParts DEF PassOK
<1>4. /\ batch \in Seq(QueuedRow) /\ batch # << >> /\ DOMAIN order = DOMAIN batch
      /\ \A k \in DOMAIN order : order[k] \in DOMAIN outbox[d]
      /\ \A j, k \in DOMAIN order : order[j] = order[k] => j = k
  BY <1>2, <1>3, <1>a, BatchIs
<1>5. \A k \in DOMAIN batch : batch[k] = outbox[d][order[k]] /\ batch[k] \in Rows(d)
  BY <1>4, <1>a DEF Rows, ToSet
<1>6. RowsStay(d) /\ outbox' = [outbox EXCEPT ![d] = outbox'[d]]
  BY <1>1, MarkedRowsStay
<1>7. pass'[d] = new /\ pass[d].merged \subseteq Mutation
  <2>1. pass[d].merged \subseteq Mutation
    BY <1>2, <1>3, PassIs DEF SubmitPass
  <2> QED
    BY <1>1, <1>a, <1>c, <2>1 DEF SyncInv
<1>8. Len(batch) \in Nat /\ DOMAIN batch = 1 .. Len(batch)
  BY <1>4, LenProperties
<1>9. \A k \in DOMAIN batch : Sent(batch[k]) \in Submission
  BY <1>3, <1>5 DEF Sent, QueuedRow, Submission
<1>10. todo \in Seq(Submission) /\ Len(todo) = Len(batch) /\ DOMAIN todo = DOMAIN batch
  <2>1. todo \in Seq(Submission) /\ DOMAIN todo = 1 .. Len(batch)
    BY <1>8, <1>9, <1>c
  <2> QED
    BY <2>1, <1>8, LenProperties
<1>11. \A k \in DOMAIN todo : todo[k].id = batch[k].id /\ todo[k].base = batch[k].base
  BY <1>10, <1>c DEF Sent
<1>12. \A k \in DOMAIN todo : Sound(todo[k])
  BY <1>3, <1>5, <1>10, <1>11 DEF RowOK, Sound
<1>13. Distinct(batch)
  <2> SUFFICES ASSUME NEW j \in DOMAIN batch, NEW k \in DOMAIN batch, batch[j].id = batch[k].id
               PROVE  j = k
    BY DEF Distinct
  <2>1. order[j] = order[k]
    BY <1>3, <1>4, <1>5 DEF RowsOK, Distinct
  <2> QED
    BY <1>4, <2>1
<1>14. BatchOK(d, batch)'
  <2>1. \A k \in DOMAIN batch : Named(batch[k].base)'
    BY <1>2, <1>3, <1>5, QuietRest DEF RowOK
  <2>2. RowsRemain(d)
    BY <1>6, RowsStayRemain
  <2>3. \A k \in DOMAIN batch :
           \E row \in Rows(d)' : row.id = batch[k].id /\ row.base = batch[k].base
    BY <1>5, <2>2 DEF RowsRemain
  <2> QED
    BY <1>13, <2>1, <2>3 DEF BatchOK, Distinct, Rebasable
<1>15. PassOK(d)'
  <2>1. /\ new.phase = "wait" /\ new.batch = batch /\ new.todo = todo /\ new.results = << >>
        /\ new \in WaitPass
    BY <1>4, <1>7, <1>10 DEF WaitPass
  <2> HIDE DEF new
  <2>2. Len(<< >>) = 0 /\ DOMAIN << >> = {}
    OBVIOUS
  <2>3. ResultsOK(batch, << >>)'
    BY <2>2 DEF ResultsOK
  <2>4. \A k \in DOMAIN todo : todo[k].id = batch[0 + k].id /\ Sound(todo[k])'
    BY <1>2, <1>8, <1>10, <1>11, <1>12, QuietRest
  <2>5. Len(batch) = 0 + Len(todo)
    BY <1>8, <1>10
  <2>6. WaitOK(d)'
    BY <1>4, <1>7, <1>14, <2>1, <2>2, <2>3, <2>4, <2>5 DEF WaitOK
  <2> QED
    BY <1>7, <2>1, <2>6 DEF PassOK, PassState
<1>16. Acts(d)
  BY <1>1, <1>2, <1>6 DEF Acts, SyncInv
<1> QED
  BY <1>2, <1>6, <1>15, <1>16, QuietRest, QuietKeeps

(* What is waited for.                                                      *)
LEMMA WaitIs ==
    ASSUME SyncInv, NEW d \in Device, pass[d].phase = "wait"
    PROVE  /\ WaitOK(d) /\ pass[d] \in WaitPass
           /\ pass[d].batch \in Seq(QueuedRow) /\ pass[d].todo \in Seq(Submission)
           /\ pass[d].results \in Seq(Verdict)
           /\ \A k \in DOMAIN pass[d].todo : pass[d].todo[k] \in Submission /\ Sound(pass[d].todo[k])
           /\ pass[d].merged \subseteq Mutation
<1>1. PassOK(d)
  BY DeviceParts
<1>2. WaitOK(d) /\ pass[d] \in WaitPass
  BY <1>1, PassIs DEF PassOK
<1>3. pass[d].todo \in Seq(Submission)
  BY <1>2 DEF WaitPass
<1>4. \A k \in DOMAIN pass[d].todo : pass[d].todo[k] \in Submission /\ Sound(pass[d].todo[k])
  BY <1>2, <1>3, ElementOfSeq DEF WaitOK
<1> QED
  BY <1>2, <1>3, <1>4 DEF WaitPass

LEMMA AnswerKeeps ==
    ASSUME SyncInv, NEW d \in Device, Answer(d)
    PROVE  SyncInv'
<1>1. /\ UNCHANGED <<feedVars, outbox, conflicts, view, cursor, late, tries>>
      /\ pass[d].phase = "wait" /\ pass[d].todo = << >>
      /\ pass' = [pass EXCEPT ![d] = [phase |-> "settle", merged |-> @.merged,
                                      batch |-> @.batch, results |-> @.results]]
  BY DEF Answer
<1>2. PICK batch, results : batch = pass[d].batch /\ results = pass[d].results
  OBVIOUS
<1>3. /\ batch \in Seq(QueuedRow) /\ results \in Seq(Verdict) /\ batch # << >>
      /\ Len(batch) = Len(results)
      /\ BatchOK(d, batch) /\ ResultsOK(batch, results) /\ pass[d].merged \subseteq Mutation
  <2>1. Len(<< >>) = 0
    OBVIOUS
  <2>2. /\ WaitOK(d) /\ batch \in Seq(QueuedRow) /\ results \in Seq(Verdict)
        /\ pass[d].merged \subseteq Mutation
    BY <1>1, <1>2, WaitIs
  <2>3. /\ Len(batch) = Len(results) + Len(<< >>) /\ batch # << >>
        /\ BatchOK(d, batch) /\ ResultsOK(batch, results)
    BY <1>1, <1>2, <2>2 DEF WaitOK
  <2>4. Len(results) \in Nat
    BY <2>2, LenProperties
  <2> QED
    BY <2>1, <2>2, <2>3, <2>4
<1> DEFINE new == [phase |-> "settle", merged |-> pass[d].merged, batch |-> batch, results |-> results]
<1>4. pass'[d] = new
  BY <1>1, <1>2 DEF SyncInv
<1>5. /\ new.phase = "settle" /\ new.batch = batch /\ new.results = results /\ new \in SettlePass
  BY <1>3 DEF SettlePass
<1> HIDE DEF new
<1>6. RowsStay(d)
  BY <1>1, QuietRest
<1>7. ServerMoves
  BY <1>1, QuietServer
<1>8. BatchOK(d, batch)' /\ ResultsOK(batch, results)'
  BY <1>3, <1>6, <1>7, RowsStayRemain, BatchKept, ResultsKept
<1>9. SettleOK(d)'
  BY <1>3, <1>4, <1>5, <1>8 DEF SettleOK
<1>10. PassOK(d)'
  BY <1>4, <1>5, <1>9 DEF PassOK, PassState
<1>11. Acts(d)
  BY <1>1 DEF Acts, SyncInv
<1> QED
  BY <1>1, <1>6, <1>10, <1>11, QuietRest, QuietKeeps

LEMMA AbandonKeeps ==
    ASSUME SyncInv, NEW d \in Device, pass[d].phase = "wait", Abandon(d), UNCHANGED <<feedVars, tries>>
    PROVE  LateOK(d)' /\ late' = [late EXCEPT ![d] = late'[d]]
<1>1. late' = [late EXCEPT ![d] = IF @ = << >> THEN pass[d].todo ELSE @]
  BY DEF Abandon
<1>2. late'[d] = (IF late[d] = << >> THEN pass[d].todo ELSE late[d]) /\ late' = [late EXCEPT ![d] = late'[d]]
  BY <1>1 DEF SyncInv
<1>3. LateOK(d)
  BY DeviceParts
<1>4. PICK new : new = late'[d]
  OBVIOUS
<1>5. new \in Seq(Submission) /\ \A k \in DOMAIN new : Sound(new[k])
  BY <1>2, <1>3, <1>4, WaitIs DEF LateOK
<1>6. \A k \in DOMAIN new : Sound(new[k])'
  BY <1>5, QuietRest
<1> QED
  BY <1>2, <1>4, <1>5, <1>6 DEF LateOK

LEMMA GiveUpKeeps ==
    ASSUME SyncInv, NEW d \in Device, GiveUp(d)
    PROVE  SyncInv'
<1>1. /\ UNCHANGED <<feedVars, conflicts, view, cursor, tries>>
      /\ pass[d].phase = "wait" /\ Abandon(d)
      /\ pass' = [pass EXCEPT ![d] = Idle]
      /\ \E ids : outbox' = [outbox EXCEPT ![d] = Marked(@, ids, "pending")]
  BY DEF GiveUp
<1>2. RowsStay(d) /\ outbox' = [outbox EXCEPT ![d] = outbox'[d]]
  BY <1>1, MarkedRowsStay
<1>3. LateOK(d)' /\ late' = [late EXCEPT ![d] = late'[d]]
  BY <1>1, AbandonKeeps
<1>4. pass'[d] = Idle
  BY <1>1 DEF SyncInv
<1>5. Acts(d)
  BY <1>1, <1>2, <1>3 DEF Acts, SyncInv
<1> QED
  BY <1>1, <1>2, <1>3, <1>4, <1>5, QuietRest, IdlePassOK, QuietKeeps

LEMMA CrashKeeps ==
    ASSUME SyncInv, NEW d \in Device, Crash(d)
    PROVE  SyncInv'
<1>1. /\ UNCHANGED <<feedVars, outbox, conflicts, view, cursor, tries>>
      /\ pass' = [pass EXCEPT ![d] = Idle]
      /\ IF pass[d].phase = "wait" THEN Abandon(d) ELSE UNCHANGED late
  BY DEF Crash
<1>2. LateOK(d)' /\ late' = [late EXCEPT ![d] = late'[d]]
  <2>1. CASE pass[d].phase = "wait"
    BY <1>1, <2>1, AbandonKeeps
  <2>2. CASE pass[d].phase # "wait"
    <3>1. late' = late
      BY <1>1, <2>2
    <3>2. late' = [late EXCEPT ![d] = late'[d]]
      BY <3>1 DEF SyncInv
    <3> QED
      BY <1>1, <3>1, <3>2, QuietRest
  <2> QED
    BY <2>1, <2>2
<1>3. pass'[d] = Idle
  BY <1>1 DEF SyncInv
<1>4. Acts(d)
  BY <1>1, <1>2 DEF Acts, SyncInv
<1> QED
  BY <1>1, <1>2, <1>3, <1>4, QuietRest, IdlePassOK, QuietKeeps

LEMMA OfflineKeeps ==
    ASSUME SyncInv, NEW d \in Device, Offline(d)
    PROVE  SyncInv'
<1>1. /\ UNCHANGED <<feedVars, outbox, conflicts, view, cursor, late, tries>>
      /\ pass' = [pass EXCEPT ![d] = Idle]
  BY DEF Offline
<1>2. pass'[d] = Idle
  BY <1>1 DEF SyncInv
<1>3. Acts(d)
  BY <1>1 DEF Acts, SyncInv
<1> QED
  BY <1>1, <1>2, <1>3, QuietRest, IdlePassOK, QuietKeeps

LEMMA ContentsAreRevisions ==
    ASSUME ServerInv
    PROVE  /\ DOMAIN contents \subseteq Revision
           /\ \A i \in Item : head[i] \in DOMAIN contents /\ contents[head[i]] \in Content
           /\ \A q \in DOMAIN feed : /\ feed[q] \in Accepted /\ feed[q] \in Mutation
                                     /\ Changes(feed[q]) \in Item /\ q \in 1 .. drawn
           /\ drawn \in Nat
<1>1. DOMAIN contents \subseteq Revision
  BY AcceptedIs DEF ServerInv, ContentsOK, ReceiptsOK, Revision
<1>2. \A i \in Item : head[i] \in DOMAIN contents /\ contents[head[i]] \in Content
  BY DEF ServerInv, ContentsOK
<1>3. \A q \in DOMAIN feed : feed[q] \in Accepted /\ q \in 1 .. drawn
  BY DEF ServerInv, ChangesOK
<1>4. \A q \in DOMAIN feed : feed[q] \in Mutation
  BY <1>3, AcceptedIs DEF ServerInv, ReceiptsOK
<1> QED
  BY <1>1, <1>2, <1>3, <1>4, MutationIs DEF ServerInv, ChangesOK

LEMMA ListKeeps ==
    ASSUME SyncInv, NEW d \in Device, List(d)
    PROVE  SyncInv'
<1>1. UNCHANGED <<feedVars, outbox, conflicts, view, cursor, late, tries>>
  BY DEF List
<1> DEFINE listed == {q \in ChangesAfter(cursor[d]) :
                        Cardinality({p \in ChangesAfter(cursor[d]) : p < q}) < PageLimit}
<1>2. PICK page : page = listed
  OBVIOUS
<1>3. PICK items : items = [i \in {Changes(feed[q]) : q \in page} |->
                              [revision |-> head[i], content |-> contents[head[i]]]]
  OBVIOUS
<1>4. PICK more : more = (page # ChangesAfter(cursor[d]))
  OBVIOUS
<1> DEFINE new == [phase |-> "apply", page |-> page, items |-> items, more |-> more]
<1>5. pass' = [pass EXCEPT ![d] = new]
  BY <1>2, <1>3, <1>4 DEF List
<1>6. page \subseteq DOMAIN feed /\ page \subseteq Nat
  <2>1. page \subseteq DOMAIN feed
    BY <1>2 DEF ChangesAfter
  <2> QED
    BY <2>1 DEF SyncInv, ServerInv, ChangesOK
<1>7. /\ DOMAIN items = {Changes(feed[q]) : q \in page} /\ DOMAIN items \subseteq Item
      /\ \A i \in DOMAIN items : items[i] \in Shown /\ items[i].revision \in DOMAIN contents
      /\ items \in [DOMAIN items -> Shown]
  <2>1. DOMAIN items = {Changes(feed[q]) : q \in page} /\ DOMAIN items \subseteq Item
    BY <1>3, <1>6, ContentsAreRevisions DEF SyncInv
  <2>2. \A i \in DOMAIN items : items[i] = [revision |-> head[i], content |-> contents[head[i]]]
    BY <1>3
  <2>3. \A i \in Item : LET s == [revision |-> head[i], content |-> contents[head[i]]]
                         IN  s \in Shown /\ s.revision \in DOMAIN contents
    BY ContentsAreRevisions DEF SyncInv, Shown
  <2>4. \A i \in DOMAIN items : items[i] \in Shown /\ items[i].revision \in DOMAIN contents
    BY <2>1, <2>2, <2>3
  <2>5. items = [i \in DOMAIN items |-> items[i]]
    BY <1>3
  <2> QED
    BY <2>1, <2>4, <2>5
<1>8. items \in UNION {[I -> Shown] : I \in SUBSET Item}
  BY <1>7
<1>9. /\ new.phase = "apply" /\ new.page = page /\ new.items = items /\ new \in ApplyPass
  BY <1>4, <1>6, <1>8 DEF ApplyPass
<1>10. pass'[d] = new
  BY <1>5 DEF SyncInv
<1> HIDE DEF new, listed
<1>11. ApplyOK(d)'
  <2>1. feed' = feed /\ contents' = contents
    BY <1>1 DEF feedVars
  <2> QED
    BY <1>6, <1>7, <1>9, <1>10, <2>1 DEF ApplyOK
<1>12. PassOK(d)'
  BY <1>9, <1>10, <1>11 DEF PassOK, PassState
<1>13. Acts(d)
  BY <1>1, <1>5 DEF Acts, SyncInv
<1> QED
  BY <1>1, <1>12, <1>13, QuietRest, QuietKeeps

(* The part of a page that is applied moves the screen and the cursor.      *)
LEMMA InstallKeeps ==
    ASSUME SyncInv, NEW d \in Device, pass[d].phase = "apply",
           NEW part \in SUBSET pass[d].page, Install(d, part), UNCHANGED <<feedVars, tries>>
    PROVE  /\ ViewOK(d)' /\ view' = [view EXCEPT ![d] = view'[d]]
           /\ cursor' = [cursor EXCEPT ![d] = cursor'[d]]
<1>1. /\ ServerInv /\ ViewOK(d) /\ ApplyOK(d) /\ pass[d] \in ApplyPass
  BY DeviceParts, PassIs DEF PassOK
<1>2. /\ view'[d] = Refreshed(d, part) /\ view' = [view EXCEPT ![d] = view'[d]]
      /\ cursor'[d] = Max(part \cup {cursor[d]}) /\ cursor' = [cursor EXCEPT ![d] = cursor'[d]]
  BY DEF Install, SyncInv
<1>3. part \subseteq DOMAIN feed
  BY <1>1 DEF ApplyOK
<1>4. cursor'[d] \in 0 .. drawn
  <2>1. drawn \in Nat /\ \A q \in part : q \in 0 .. drawn
    BY <1>1, <1>3, ContentsAreRevisions
  <2>2. part \cup {cursor[d]} \in SUBSET (0 .. drawn) /\ part \cup {cursor[d]} # {}
    BY <1>1, <2>1 DEF ViewOK
  <2>3. Max(part \cup {cursor[d]}) \in part \cup {cursor[d]}
    BY <2>1, <2>2, MaxIsIn
  <2> QED
    BY <1>2, <2>2, <2>3
<1>5. \A i \in DOMAIN pass[d].items :
         pass[d].items[i] \in Shown /\ pass[d].items[i].revision \in DOMAIN contents
  BY <1>1 DEF ApplyOK, ApplyPass
<1>6. ASSUME NEW i \in Item
      PROVE  Refreshed(d, part)[i] \in Shown /\ Displayable(Refreshed(d, part)[i])
  <2>1. CASE \E q \in part : Changes(feed[q]) = i
    <3>1. i \in DOMAIN pass[d].items
      BY <1>1, <2>1 DEF ApplyOK
    <3>2. Refreshed(d, part)[i] = pass[d].items[i]
      BY <2>1 DEF Refreshed
    <3> QED
      BY <1>5, <3>1, <3>2 DEF Displayable
  <2>2. CASE ~ \E q \in part : Changes(feed[q]) = i
    BY <1>1, <2>2 DEF Refreshed, ViewOK
  <2> QED
    BY <2>1, <2>2
<1>7. view'[d] \in [Item -> Shown] /\ \A i \in Item : Displayable(view'[d][i])
  <2>1. DOMAIN Refreshed(d, part) = Item /\ Refreshed(d, part) = [i \in Item |-> Refreshed(d, part)[i]]
    BY DEF Refreshed
  <2> QED
    BY <1>2, <1>6, <2>1
<1>8. \A i \in Item : Displayable(view[d][i])'
  BY <1>7 DEF Displayable, feedVars
<1> QED
  BY <1>2, <1>4, <1>7, <1>8 DEF ViewOK, feedVars

LEMMA ApplyKeeps ==
    ASSUME SyncInv, NEW d \in Device, Apply(d) \/ CrashApplying(d)
    PROVE  SyncInv'
<1>1. /\ UNCHANGED <<feedVars, outbox, conflicts, late, tries>> /\ pass[d].phase = "apply"
      /\ \/ \E part \in SUBSET pass[d].page : Install(d, part)
         \/ UNCHANGED <<view, cursor>>
      /\ \E p \in {Idle, Listing} : pass' = [pass EXCEPT ![d] = p]
  <2>1. CASE Apply(d)
    <3>1. CASE Pending(outbox[d]) = {}
      <4>1. Install(d, pass[d].page) /\ pass' = [pass EXCEPT ![d] = IF @.more THEN Listing ELSE Idle]
        BY <2>1, <3>1 DEF Apply
      <4>2. \E p \in {Idle, Listing} : pass' = [pass EXCEPT ![d] = p]
        BY <4>1
      <4> QED
        BY <2>1, <4>1, <4>2 DEF Apply
    <3>2. CASE Pending(outbox[d]) # {}
      BY <2>1, <3>2 DEF Apply
    <3> QED
      BY <3>1, <3>2
  <2>2. CASE CrashApplying(d)
    <3>1. PICK next \in pass[d].page : Install(d, {q \in pass[d].page : q < next})
      BY <2>2 DEF CrashApplying
    <3>2. {q \in pass[d].page : q < next} \in SUBSET pass[d].page
      OBVIOUS
    <3>3. \E part \in SUBSET pass[d].page : Install(d, part)
      BY <3>1, <3>2
    <3> QED
      BY <2>2, <3>3 DEF CrashApplying
  <2> QED
    BY <2>1, <2>2
<1>2. PICK p \in {Idle, Listing} : pass' = [pass EXCEPT ![d] = p]
  BY <1>1
<1>3. pass'[d] \in {Idle, Listing} /\ pass' = [pass EXCEPT ![d] = pass'[d]]
  BY <1>2 DEF SyncInv
<1>4. /\ ViewOK(d)' /\ view' = [view EXCEPT ![d] = view'[d]]
      /\ cursor' = [cursor EXCEPT ![d] = cursor'[d]]
  <2>1. CASE \E part \in SUBSET pass[d].page : Install(d, part)
    BY <1>1, <2>1, InstallKeeps
  <2>2. CASE UNCHANGED <<view, cursor>>
    BY <1>1, <2>2, QuietRest DEF SyncInv
  <2> QED
    BY <1>1, <2>1, <2>2
<1>5. Acts(d)
  BY <1>1, <1>3, <1>4 DEF Acts, SyncInv
<1> QED
  BY <1>1, <1>3, <1>4, <1>5, QuietRest, IdlePassOK, QuietKeeps

(* A step of the server that no device takes part in.                       *)
LEMMA ServerStepKeeps ==
    ASSUME SyncInv, ServerInv', ServerMoves, TriesGrow,
           \A d \in Device : \A e \in Writes[d] : tries'[e] = tries[e],
           UNCHANGED <<outbox, conflicts, view, cursor, pass, late>>
    PROVE  SyncInv'
<1>1. ASSUME NEW d \in Device  PROVE DeviceOK(d)'
  BY DeviceKept DEF SyncInv
<1> QED
  BY <1>1 DEF SyncInv

LEMMA AcceptSound ==
    ASSUME ServerInv, NEW s \in Submission, Sound(s), Accept(s), tries' = tries
    PROVE  ServerInv' /\ ServerMoves
<1>1. s.id \in Mutation /\ s.payload \in Content
  BY DEF Submission
<1>2. \A m \in Accepted : m[1] # s.id[1]
  BY <1>1, FirstAccepted DEF Accept
<1>3. TriesOK'
  BY DEF Accept, ServerInv, TriesOK, Refused
<1>4. s.id[2] <= tries'[s.id[1]]
  BY DEF Sound, Issued
<1> QED
  BY <1>1, <1>2, <1>3, <1>4, TriesStay, AcceptKeeps

LEMMA HeadIsFirst ==
    ASSUME NEW R, NEW q \in Seq(R), q # << >>
    PROVE  /\ Len(q) \in Nat /\ Len(q) >= 1 /\ 1 \in DOMAIN q /\ Head(q) = q[1] /\ Head(q) \in R
           /\ Tail(q) \in Seq(R) /\ Len(Tail(q)) = Len(q) - 1
           /\ DOMAIN q = 1 .. Len(q) /\ DOMAIN Tail(q) = 1 .. Len(q) - 1
           /\ \A k \in 1 .. Len(q) - 1 : Tail(q)[k] = q[k + 1] /\ k + 1 \in DOMAIN q
<1>1. Len(q) \in Nat /\ DOMAIN q = 1 .. Len(q)
  BY LenProperties
<1>2. Len(q) >= 1
  BY <1>1, EmptySeq
<1>3. Head(q) = q[1] /\ Head(q) \in R /\ Tail(q) \in Seq(R) /\ Len(Tail(q)) = Len(q) - 1
  BY HeadTailProperties
<1>4. \A k \in 1 .. Len(q) - 1 : Tail(q)[k] = q[k + 1]
  BY <1>1, <1>2, HeadTailProperties
<1>5. DOMAIN Tail(q) = 1 .. Len(Tail(q))
  BY <1>3, LenProperties
<1> QED
  BY <1>1, <1>2, <1>3, <1>4, <1>5

(* A verdict joins the results of the request it answers.                   *)
LEMMA ResultJoins ==
    ASSUME SyncInv, ServerMoves, NEW d \in Device, pass[d].phase = "wait",
           NEW s, pass[d].todo # << >>, s = Head(pass[d].todo),
           NEW verdict \in Verdict,
           verdict = Blocked \/ (s.id \in DOMAIN receipts' /\ receipts'[s.id] = verdict),
           pass' = [pass EXCEPT ![d].todo = Tail(@), ![d].results = Append(@, verdict)],
           UNCHANGED <<outbox, tries>>
    PROVE  PassOK(d)' /\ pass' = [pass EXCEPT ![d] = pass'[d]]
<1>1. PICK old : old = pass[d]
  OBVIOUS
<1>2. /\ old \in WaitPass /\ old.phase = "wait" /\ old.todo # << >> /\ s = Head(old.todo)
      /\ old.batch \in Seq(QueuedRow) /\ old.todo \in Seq(Submission) /\ old.results \in Seq(Verdict)
      /\ \A k \in DOMAIN old.todo : old.todo[k] \in Submission /\ Sound(old.todo[k])
      /\ Len(old.batch) = Len(old.results) + Len(old.todo) /\ old.batch # << >>
      /\ BatchOK(d, old.batch) /\ ResultsOK(old.batch, old.results)
      /\ \A k \in DOMAIN old.todo : old.todo[k].id = old.batch[Len(old.results) + k].id
  BY <1>1, WaitIs DEF WaitOK
<1> DEFINE new == [old EXCEPT !.todo = Tail(@), !.results = Append(@, verdict)]
<1>3. pass'[d] = new /\ pass' = [pass EXCEPT ![d] = pass'[d]]
  BY <1>1, <1>2 DEF SyncInv
<1>4. PICK todo, results : todo = Tail(old.todo) /\ results = Append(old.results, verdict)
  OBVIOUS
<1>5. /\ todo \in Seq(Submission) /\ Len(todo) = Len(old.todo) - 1 /\ DOMAIN todo = 1 .. Len(old.todo) - 1
      /\ Len(old.todo) \in Nat /\ Len(old.todo) >= 1 /\ s = old.todo[1]
      /\ DOMAIN old.todo = 1 .. Len(old.todo)
      /\ \A k \in 1 .. Len(old.todo) - 1 : todo[k] = old.todo[k + 1] /\ k + 1 \in DOMAIN old.todo
  BY <1>2, <1>4, HeadIsFirst
<1>6. /\ results \in Seq(Verdict) /\ Len(results) = Len(old.results) + 1 /\ Len(old.results) \in Nat
      /\ \A k \in 1 .. Len(old.results) : results[k] = old.results[k]
      /\ results[Len(old.results) + 1] = verdict
      /\ DOMAIN results = 1 .. Len(old.results) + 1 /\ DOMAIN old.results = 1 .. Len(old.results)
  BY <1>2, <1>4, AppendProperties, LenProperties
<1>7. /\ new \in WaitPass /\ new.phase = "wait" /\ new.batch = old.batch
      /\ new.todo = todo /\ new.results = results
  BY <1>2, <1>4, <1>5, <1>6 DEF WaitPass
<1> HIDE DEF new
<1>8. Len(old.batch) = Len(results) + Len(todo)
  <2>1. /\ Len(old.results) \in Nat /\ Len(old.todo) \in Nat
        /\ Len(results) = Len(old.results) + 1 /\ Len(todo) = Len(old.todo) - 1
    BY <1>5, <1>6
  <2>2. Len(old.batch) = Len(old.results) + Len(old.todo)
    BY <1>2
  <2>3. \A r, t \in Nat : (r + 1) + (t - 1) = r + t
    OBVIOUS
  <2> QED
    BY <2>1, <2>2, <2>3
<1>9. /\ ServerInv /\ TriesGrow /\ RowsOK(d)
  BY DeviceParts, TriesStay
<1>10. RowsRemain(d)
  BY <1>9 DEF RowsRemain, Rows
<1>11. BatchOK(d, old.batch)'
  BY <1>2, <1>10, BatchKept
<1>12. ResultsOK(old.batch, results)'
  <2> SUFFICES ASSUME NEW k \in DOMAIN results
               PROVE  \/ results[k] = Blocked
                      \/ old.batch[k].id \in DOMAIN receipts' /\ results[k] = receipts'[old.batch[k].id]
    BY DEF ResultsOK, Blocked
  <2>1. CASE k \in 1 .. Len(old.results)
    BY <2>1, <1>2, <1>6 DEF ResultsOK, ServerMoves
  <2>2. CASE k = Len(old.results) + 1
    <3>1. 1 \in DOMAIN old.todo /\ s = old.todo[1]
      BY <1>5
    <3>2. old.todo[1].id = old.batch[Len(old.results) + 1].id
      BY <1>2, <3>1
    <3> QED
      BY <2>2, <3>1, <3>2, <1>6
  <2> QED
    BY <2>1, <2>2, <1>6
<1>13. ASSUME NEW k \in DOMAIN todo
       PROVE  todo[k].id = old.batch[Len(results) + k].id /\ Sound(todo[k])'
  <2>1. todo[k] = old.todo[k + 1] /\ k + 1 \in DOMAIN old.todo /\ k \in Nat
    BY <1>5
  <2>2. Len(old.results) + (k + 1) = Len(results) + k
    <3>1. Len(results) = Len(old.results) + 1 /\ Len(old.results) \in Nat /\ k \in Nat
      BY <1>6, <2>1
    <3>2. \A a, b, n \in Nat : b = a + 1 => a + (n + 1) = b + n
      OBVIOUS
    <3>3. Len(results) \in Nat
      BY <3>1
    <3> QED
      BY <3>1, <3>2, <3>3
  <2>3. Sound(todo[k]) /\ todo[k] \in Submission
    BY <1>2, <2>1
  <2>4. Sound(todo[k])'
    BY <1>9, <2>3, SoundStays DEF Submission
  <2> QED
    BY <1>2, <2>1, <2>2, <2>4
<1>14. WaitOK(d)'
  BY <1>2, <1>3, <1>7, <1>8, <1>11, <1>12, <1>13 DEF WaitOK
<1> QED
  BY <1>3, <1>7, <1>14 DEF PassOK, PassState

LEMMA ServeKeeps ==
    ASSUME SyncInv, NEW d \in Device, Serve(d)
    PROVE  SyncInv'
<1>1. /\ UNCHANGED <<outbox, conflicts, view, cursor, late, tries>>
      /\ pass[d].phase = "wait" /\ pass[d].todo # << >>
  BY DEF Serve
<1>2. PICK s : s = Head(pass[d].todo)
  OBVIOUS
<1>3. s \in Submission /\ Sound(s) /\ ServerInv /\ TriesGrow /\ s.id \in Mutation /\ Issued(s.id)
  <2>1. s \in Submission /\ Sound(s)
    BY <1>1, <1>2, WaitIs, HeadIsFirst
  <2> QED
    BY <1>1, <2>1, TriesStay DEF SyncInv, Submission, Sound
<1>4. CASE Accept(s) /\ UNCHANGED pass
  <2>1. ServerInv' /\ ServerMoves
    BY <1>1, <1>3, <1>4, AcceptSound
  <2> QED
    BY <1>1, <1>3, <1>4, <2>1, ServerStepKeeps
<1>5. ASSUME NEW verdict, Answers(s, verdict),
             pass' = [pass EXCEPT ![d].todo = Tail(@), ![d].results = Append(@, verdict)]
      PROVE  SyncInv'
  <2>1. /\ ServerInv' /\ ServerMoves /\ verdict \in Verdict
        /\ verdict = Blocked \/ (s.id \in DOMAIN receipts' /\ receipts'[s.id] = verdict)
    BY <1>1, <1>3, <1>5, AnswersKeep
  <2>2. PassOK(d)' /\ pass' = [pass EXCEPT ![d] = pass'[d]]
    BY <1>1, <1>2, <1>5, <2>1, ResultJoins
  <2>3. RowsStay(d)
    BY <1>1, DeviceParts DEF RowsStay
  <2>4. DeviceOK(d)'
    BY <1>1, <1>3, <2>1, <2>2, <2>3, DeviceParts, RowsKept, ConflictsKept, ViewKept, LateKept, KeptKept DEF DeviceOK
  <2>5. Acts(d)
    BY <1>1, <2>2 DEF Acts, SyncInv
  <2> QED
    BY <1>3, <2>1, <2>4, <2>5, StepKeeps
<1> QED
  BY <1>2, <1>4, <1>5 DEF Serve

LEMMA ServeLateKeeps ==
    ASSUME SyncInv, NEW d \in Device, ServeLate(d)
    PROVE  SyncInv'
<1>1. UNCHANGED <<outbox, conflicts, view, cursor, pass, tries>> /\ late[d] # << >>
  BY DEF ServeLate
<1>2. PICK s : s = Head(late[d])
  OBVIOUS
<1>3. PICK rest : rest = Tail(late[d])
  OBVIOUS
<1>4. /\ ServerInv /\ TriesGrow /\ LateOK(d)
      /\ s \in Submission /\ Sound(s) /\ s.id \in Mutation /\ Issued(s.id)
      /\ rest \in Seq(Submission) /\ \A k \in DOMAIN rest : rest[k] \in Submission /\ Sound(rest[k])
  <2>1. ServerInv /\ TriesGrow /\ LateOK(d)
    BY <1>1, DeviceParts, TriesStay
  <2>2. \A k \in DOMAIN late[d] : late[d][k] \in Submission /\ Sound(late[d][k])
    BY <2>1, ElementOfSeq DEF LateOK
  <2>3. /\ 1 \in DOMAIN late[d] /\ s = late[d][1] /\ rest \in Seq(Submission)
        /\ \A k \in DOMAIN rest : rest[k] = late[d][k + 1] /\ k + 1 \in DOMAIN late[d]
    BY <1>1, <1>2, <1>3, <2>1, HeadIsFirst DEF LateOK
  <2>4. s \in Submission /\ Sound(s) /\ \A k \in DOMAIN rest : rest[k] \in Submission /\ Sound(rest[k])
    BY <2>2, <2>3
  <2> QED
    BY <2>1, <2>3, <2>4 DEF Submission, Sound
<1>5. CASE Accept(s) /\ UNCHANGED late
  <2>1. ServerInv' /\ ServerMoves
    BY <1>1, <1>4, <1>5, AcceptSound
  <2> QED
    BY <1>1, <1>4, <1>5, <2>1, ServerStepKeeps
<1>6. ASSUME NEW verdict, Answers(s, verdict), late' = [late EXCEPT ![d] = Tail(@)]
      PROVE  SyncInv'
  <2>1. ServerInv' /\ ServerMoves
    BY <1>1, <1>4, <1>6, AnswersKeep
  <2>2. late'[d] = rest /\ late' = [late EXCEPT ![d] = late'[d]]
    BY <1>3, <1>6 DEF SyncInv
  <2>3. \A k \in DOMAIN rest : Sound(rest[k])'
    BY <1>4, <2>1, SoundStays DEF Submission
  <2>4. LateOK(d)'
    BY <1>4, <2>2, <2>3 DEF LateOK
  <2>5. RowsStay(d) /\ RowsRemain(d)
    BY <1>1, DeviceParts, RowsStayRemain DEF RowsStay
  <2>6. DeviceOK(d)'
    BY <1>1, <1>4, <2>1, <2>4, <2>5, DeviceParts, RowsKept, ConflictsKept, ViewKept, PassKept, KeptKept DEF DeviceOK
  <2>7. Acts(d)
    BY <1>1, <2>2 DEF Acts, SyncInv
  <2> QED
    BY <1>4, <2>1, <2>6, <2>7, StepKeeps
<1> QED
  BY <1>2, <1>5, <1>6 DEF ServeLate

LEMMA CommandKeeps ==
    ASSUME SyncInv, Command
    PROVE  SyncInv'
<1>1. UNCHANGED <<outbox, conflicts, view, cursor, pass, late>>
  BY DEF Command
<1>2. PICK e \in Direct :
         /\ tries[e] = 0
         /\ Accept([id |-> Fresh(e), base |-> {head[ItemOf[e]]},
                    payload |-> [contents[head[ItemOf[e]]] EXCEPT ![FieldOf[e]] = e]])
         /\ tries' = [tries EXCEPT ![e] = 1]
  BY DEF Command
<1>3. PICK s : s = [id |-> Fresh(e), base |-> {head[ItemOf[e]]},
                    payload |-> [contents[head[ItemOf[e]]] EXCEPT ![FieldOf[e]] = e]]
  OBVIOUS
<1>4. ServerInv /\ e \in Edit /\ ItemOf[e] \in Item /\ FieldOf[e] \in Field
  BY SyncAssumption, FeedAssumption DEF SyncInv
<1>5. /\ MaxTries[e] \in Nat /\ MaxTries[e] >= 1
      /\ \A m \in Mutation : m[1] = e => ~Issued(m)
  BY <1>2, <1>4, TriesBound
<1>6. s.id = <<e, 1>> /\ s.id \in Mutation /\ s.payload \in Content
  <2>1. Fresh(e) = <<e, 1>>
    BY <1>2 DEF Fresh
  <2>2. contents[head[ItemOf[e]]] \in Content
    BY <1>4, ContentsAreRevisions
  <2> QED
    BY <1>3, <1>4, <1>5, <2>1, <2>2, MutationIs DEF Content
<1>7. tries' \in [Edit -> Nat] /\ tries'[e] = 1 /\ \A o \in Edit : o # e => tries'[o] = tries[o]
  BY <1>2, <1>4 DEF ServerInv, TriesOK
<1>8. TriesGrow
  BY <1>2, <1>4, <1>7 DEF TriesGrow, ServerInv, TriesOK
<1>9. TriesOK'
  <2>1. receipts' = receipts
    BY <1>2 DEF Accept
  <2>2. ASSUME NEW o \in Edit
        PROVE  tries'[o] <= MaxTries[o] /\ (o \in Blind => tries'[o] <= 1) /\ (tries'[o] > 1 => Refused(<<o, 1>>))
    <3>1. CASE o = e
      BY <3>1, <1>5, <1>7
    <3>2. CASE o # e
      BY <3>2, <1>4, <1>7 DEF ServerInv, TriesOK
    <3> QED
      BY <3>1, <3>2
  <2> QED
    BY <1>7, <2>1, <2>2 DEF TriesOK, Refused
<1>10. \A m \in Accepted : m[1] # s.id[1]
  BY <1>4, <1>5, <1>6, AcceptedIs DEF ServerInv, ReceiptsOK
<1>11. s.id[2] <= tries'[s.id[1]]
  BY <1>6, <1>7
<1>12. ServerInv' /\ ServerMoves
  BY <1>2, <1>3, <1>4, <1>6, <1>8, <1>9, <1>10, <1>11, AcceptKeeps
<1>13. \A d \in Device : \A o \in Writes[d] : tries'[o] = tries[o]
  BY <1>7, SyncAssumption
<1> QED
  BY <1>1, <1>8, <1>12, <1>13, ServerStepKeeps

LEMMA ServerAloneKeeps ==
    ASSUME SyncInv, ToggleRefusing \/ \E i \in Item : Commit(i), UNCHANGED deviceVars
    PROVE  SyncInv'
<1>1. UNCHANGED <<outbox, conflicts, view, cursor, pass, late, tries>> /\ ServerInv
  BY DEF deviceVars, SyncInv
<1>2. ServerInv' /\ ServerMoves
  BY <1>1, ToggleKeeps, CommitKeeps
<1> QED
  BY <1>1, <1>2, TriesStay, ServerStepKeeps

(* The results of a request are settled one by one: the rows they answer    *)
(* are still in the queue, and what they say is what the server keeps.      *)
LEMMA SettleIs ==
    ASSUME SyncInv, NEW d \in Device, pass[d].phase = "settle"
    PROVE  /\ SettleOK(d) /\ pass[d] \in SettlePass
           /\ pass[d].batch \in Seq(QueuedRow) /\ pass[d].batch # << >>
           /\ pass[d].results \in Seq(Verdict) /\ pass[d].results # << >>
           /\ Len(pass[d].results) = Len(pass[d].batch)
           /\ pass[d].merged \subseteq Mutation
<1>1. PassOK(d)
  BY DeviceParts
<1>2. SettleOK(d) /\ pass[d] \in SettlePass
  BY <1>1, PassIs DEF PassOK
<1>3. /\ pass[d].batch \in Seq(QueuedRow) /\ pass[d].results \in Seq(Verdict)
      /\ pass[d].merged \subseteq Mutation
  BY <1>2 DEF SettlePass
<1>4. Len(pass[d].results) = Len(pass[d].batch) /\ pass[d].batch # << >>
  BY <1>2 DEF SettleOK
<1>5. pass[d].results # << >>
  <2>1. Len(pass[d].batch) >= 1
    BY <1>3, <1>4, HeadIsFirst
  <2> QED
    BY <1>4, <2>1
<1> QED
  BY <1>2, <1>3, <1>4, <1>5

\* The row of a result, its place in the queue, and the result.
Answered(d, row, k, verdict) ==
    /\ row = Head(pass[d].batch) /\ verdict = Head(pass[d].results)
    /\ row \in QueuedRow /\ verdict \in Verdict /\ Named(row.base)
    /\ k \in DOMAIN outbox[d] /\ outbox[d][k].id = row.id
    /\ Rebasable(row) => Rebasable(outbox[d][k])
    /\ verdict = Blocked \/ (row.id \in DOMAIN receipts /\ verdict = receipts[row.id])

LEMMA HeadIsAnswered ==
    ASSUME SyncInv, NEW d \in Device, pass[d].phase = "settle"
    PROVE  \E k \in DOMAIN outbox[d] : Answered(d, Head(pass[d].batch), k, Head(pass[d].results))
<1> DEFINE batch == pass[d].batch
           results == pass[d].results
<1>1. /\ SettleOK(d) /\ batch \in Seq(QueuedRow) /\ batch # << >>
      /\ results \in Seq(Verdict) /\ results # << >>
  BY SettleIs
<1>2. /\ 1 \in DOMAIN batch /\ Head(batch) = batch[1] /\ Head(batch) \in QueuedRow
      /\ 1 \in DOMAIN results /\ Head(results) = results[1] /\ Head(results) \in Verdict
  BY <1>1, HeadIsFirst
<1>3. BatchOK(d, batch) /\ ResultsOK(batch, results)
  BY <1>1 DEF SettleOK
<1> HIDE DEF batch, results
<1>4. Named(batch[1].base)
  BY <1>2, <1>3 DEF BatchOK
<1>5. PICK row \in Rows(d) : row.id = batch[1].id /\ (Rebasable(batch[1]) => Rebasable(row))
  BY <1>2, <1>3 DEF BatchOK
<1>6. PICK k \in DOMAIN outbox[d] : row = outbox[d][k]
  BY <1>5 DEF Rows, ToSet
<1>7. results[1] = Blocked \/ (batch[1].id \in DOMAIN receipts /\ results[1] = receipts[batch[1].id])
  BY <1>2, <1>3 DEF ResultsOK
<1> QED
  BY <1>2, <1>4, <1>5, <1>6, <1>7 DEF Answered, batch, results

(* The pass goes on to the next result, or looks for more to submit.        *)
LEMMA OnwardKeeps ==
    ASSUME SyncInv, ServerMoves, NEW d \in Device, pass[d].phase = "settle",
           NEW merged \in SUBSET Mutation, Onward(d, merged),
           \A old \in Rows(d) : old.id # Head(pass[d].batch).id =>
               \E row \in Rows(d)' : row.id = old.id /\ (Rebasable(old) => Rebasable(row))
    PROVE  PassOK(d)' /\ pass' = [pass EXCEPT ![d] = pass'[d]]
<1>1. PICK batch, results : batch = pass[d].batch /\ results = pass[d].results
  OBVIOUS
<1>2. /\ SettleOK(d) /\ pass[d] \in SettlePass /\ batch \in Seq(QueuedRow) /\ batch # << >>
      /\ results \in Seq(Verdict) /\ results # << >> /\ Len(results) = Len(batch)
  BY <1>1, SettleIs
<1>3. BatchOK(d, batch) /\ ResultsOK(batch, results)
  BY <1>1, <1>2 DEF SettleOK
<1>4. pass' = [pass EXCEPT ![d] = pass'[d]]
  BY DEF Onward, SyncInv
<1>5. CASE Len(results) = 1
  <2>1. pass'[d] = Submitting(merged)
    BY <1>1, <1>5 DEF Onward, SyncInv
  <2>2. pass'[d] \in SubmitPass
    BY <2>1 DEF Submitting, SubmitPass
  <2> QED
    BY <1>4, <2>2, IdlePassOK
<1>6. CASE Len(results) # 1
  <2>1. pass'[d] = [pass[d] EXCEPT !.merged = merged, !.batch = Tail(batch), !.results = Tail(results)]
    <3>1. pass' = [pass EXCEPT ![d] =
                     IF Len(pass[d].results) = 1 THEN Submitting(merged)
                     ELSE [pass[d] EXCEPT !.merged = merged, !.batch = Tail(pass[d].batch),
                                          !.results = Tail(pass[d].results)]]
      BY DEF Onward
    <3>2. pass' = [pass EXCEPT ![d] =
                     [pass[d] EXCEPT !.merged = merged, !.batch = Tail(batch), !.results = Tail(results)]]
      BY <1>1, <1>6, <3>1
    <3> QED
      BY <3>2 DEF SyncInv
  <2>2. /\ pass'[d].phase = "settle" /\ pass'[d].batch = Tail(batch) /\ pass'[d].results = Tail(results)
        /\ pass'[d].merged = merged
        /\ pass'[d] = [phase |-> "settle", merged |-> merged, batch |-> Tail(batch),
                       results |-> Tail(results)]
    BY <1>2, <2>1 DEF SettlePass
  <2>3. PICK rest, left : rest = Tail(batch) /\ left = Tail(results)
    OBVIOUS
  <2>4. /\ rest \in Seq(QueuedRow) /\ left \in Seq(Verdict) /\ Len(rest) = Len(left) /\ rest # << >>
        /\ DOMAIN rest = 1 .. Len(batch) - 1 /\ DOMAIN left = 1 .. Len(batch) - 1
        /\ \A k \in 1 .. Len(batch) - 1 : /\ rest[k] = batch[k + 1] /\ left[k] = results[k + 1]
                                          /\ k + 1 \in DOMAIN batch /\ k + 1 \in DOMAIN results
                                          /\ k + 1 # 1
        /\ 1 \in DOMAIN batch /\ Head(batch) = batch[1]
    <3>1. /\ Len(batch) \in Nat /\ Len(batch) >= 1 /\ Tail(batch) \in Seq(QueuedRow)
          /\ Len(Tail(batch)) = Len(batch) - 1 /\ DOMAIN Tail(batch) = 1 .. Len(batch) - 1
          /\ \A k \in 1 .. Len(batch) - 1 : Tail(batch)[k] = batch[k + 1] /\ k + 1 \in DOMAIN batch
          /\ 1 \in DOMAIN batch /\ Head(batch) = batch[1]
      BY <1>2, HeadIsFirst
    <3>2. /\ Tail(results) \in Seq(Verdict)
          /\ Len(Tail(results)) = Len(results) - 1 /\ DOMAIN Tail(results) = 1 .. Len(results) - 1
          /\ \A k \in 1 .. Len(results) - 1 : Tail(results)[k] = results[k + 1] /\ k + 1 \in DOMAIN results
      BY <1>2, HeadIsFirst
    <3>3. \A n \in Nat : n >= 1 /\ n # 1 => n - 1 # 0 /\ \A k \in 1 .. n - 1 : k + 1 # 1
      OBVIOUS
    <3>4. Len(<< >>) = 0
      OBVIOUS
    <3> QED
      BY <1>2, <1>6, <2>3, <3>1, <3>2, <3>3, <3>4
  <2>5. BatchOK(d, rest)'
    <3>1. \A j, k \in DOMAIN rest : rest[j].id = rest[k].id => j = k
      <4>1. \A j, k \in 1 .. Len(batch) - 1 : j + 1 = k + 1 => j = k
        BY <1>2, LenProperties
      <4> QED
        BY <1>3, <2>4, <4>1 DEF BatchOK, Distinct
    <3>2. \A k \in DOMAIN batch : Named(batch[k].base)'
      BY <1>3, NamedStays DEF BatchOK
    <3>3. ASSUME NEW k \in DOMAIN batch, k # 1
          PROVE  \E row \in Rows(d)' : row.id = batch[k].id /\ (Rebasable(batch[k]) => Rebasable(row))
      <4>1. PICK old \in Rows(d) : old.id = batch[k].id /\ (Rebasable(batch[k]) => Rebasable(old))
        BY <1>3 DEF BatchOK
      <4>2. old.id # Head(pass[d].batch).id
        BY <1>1, <1>3, <2>4, <3>3, <4>1 DEF BatchOK, Distinct
      <4> QED
        BY <4>1, <4>2
    <3>4. \A k \in DOMAIN rest : /\ Named(rest[k].base)'
                                 /\ \E row \in Rows(d)' : row.id = rest[k].id /\ (Rebasable(rest[k]) => Rebasable(row))
      BY <2>4, <3>2, <3>3 DEF Named
    <3> QED
      BY <3>1, <3>4 DEF BatchOK, Distinct, Rebasable
  <2>6. ResultsOK(rest, left)'
    <3>1. \A k \in DOMAIN results :
             results[k] = Blocked \/ (batch[k].id \in DOMAIN receipts' /\ results[k] = receipts'[batch[k].id])
      BY <1>3 DEF ResultsOK, ServerMoves
    <3>2. \A k \in DOMAIN left :
             left[k] = Blocked \/ (rest[k].id \in DOMAIN receipts' /\ left[k] = receipts'[rest[k].id])
      BY <2>4, <3>1
    <3> QED
      BY <3>2 DEF ResultsOK, Blocked
  <2>7. SettleOK(d)'
    BY <2>2, <2>3, <2>4, <2>5, <2>6 DEF SettleOK
  <2>8. pass'[d] \in SettlePass
    BY <2>2, <2>3, <2>4 DEF SettlePass
  <2> QED
    BY <1>4, <2>2, <2>7, <2>8 DEF PassOK, PassState
<1> QED
  BY <1>5, <1>6

LEMMA MarkBlockedKeeps ==
    ASSUME SyncInv, NEW d \in Device, pass[d].phase = "settle",
           NEW row, MarkBlocked(d, row), Onward(d, pass[d].merged),
           UNCHANGED <<feedVars, cursor, late>>
    PROVE  SyncInv'
<1>1. UNCHANGED <<feedVars, conflicts, view, cursor, late, tries>>
  BY DEF MarkBlocked
<1>2. RowsStay(d) /\ outbox' = [outbox EXCEPT ![d] = outbox'[d]]
  BY MarkedRowsStay DEF MarkBlocked
<1>3. \A old \in Rows(d) : \E new \in Rows(d)' : new.id = old.id /\ (Rebasable(old) => Rebasable(new))
  BY <1>2, RowsStayRemain DEF RowsRemain, Rebasable
<1>4. ServerMoves /\ pass[d].merged \subseteq Mutation
  BY <1>1, QuietServer, SettleIs
<1>5. PassOK(d)' /\ pass' = [pass EXCEPT ![d] = pass'[d]]
  BY <1>3, <1>4, OnwardKeeps
<1>6. Acts(d)
  BY <1>1, <1>2, <1>5 DEF Acts, SyncInv
<1> QED
  BY <1>1, <1>2, <1>5, <1>6, QuietRest, QuietKeeps

(* The row of an answer goes, and no other.                                 *)
LEMMA RowGoes ==
    ASSUME NEW d \in Device, outbox[d] \in Seq(QueuedRow), Distinct(outbox[d]),
           NEW id, NEW k \in DOMAIN outbox[d], outbox[d][k].id = id
    PROVE  LET rest == Without(outbox[d], id)
           IN  /\ rest \in Seq(QueuedRow) /\ Distinct(rest)
               /\ \A r \in ToSet(rest) : r \in Rows(d) /\ r.id # id
               /\ \A r \in Rows(d) : r.id # id => r \in ToSet(rest)
<1>a. PICK rows : rows = outbox[d]
  OBVIOUS
<1>1. PICK rest : rest = Without(rows, rows[k].id)
  OBVIOUS
<1>b. rows \in Seq(QueuedRow) /\ Distinct(rows) /\ k \in DOMAIN rows /\ rows[k].id = id
  BY <1>a
<1>2. /\ rest \in Seq(QueuedRow) /\ Distinct(rest)
      /\ \A j \in DOMAIN rest : \E h \in DOMAIN rows : h # k /\ rest[j] = rows[h]
      /\ \A h \in DOMAIN rows : h # k => \E j \in DOMAIN rest : rest[j] = rows[h]
  BY <1>1, <1>b, WithoutIs
<1>3. \A h \in DOMAIN rows : h # k => rows[h].id # id
  BY <1>b DEF Distinct
<1>4. \A r \in ToSet(rest) : r \in ToSet(rows) /\ r.id # id
  BY <1>2, <1>3 DEF ToSet
<1>6. \A r \in ToSet(rows) : r.id # id => r \in ToSet(rest)
  BY <1>2, <1>b DEF ToSet
<1> QED
  BY <1>1, <1>2, <1>4, <1>6, <1>a, <1>b DEF Rows

(* When a row that can be rebased is refused, its edit has been refused     *)
(* under every identity it has had, and nothing else on the device is about *)
(* it.                                                                      *)
LEMMA RefusedAlone ==
    ASSUME SyncInv, NEW d \in Device, NEW row \in Rows(d), Rebasable(row), Refused(row.id)
    PROVE  /\ \A n \in 1 .. tries[row.id[1]] : Refused(<<row.id[1], n>>)
           /\ \A m \in Accepted : m[1] # row.id[1]
           /\ \A other \in Rows(d) : other.id[1] = row.id[1] => other.id = row.id
           /\ \A c \in conflicts[d] : c.id[1] # row.id[1]
<1>1. /\ ServerInv /\ row \in QueuedRow /\ RowOK(d, row) /\ RowsOK(d) /\ ConflictsOK(d)
  BY DeviceParts
<1>2. row.id = <<row.id[1], row.id[2]>>
  BY <1>1, MutationIs DEF QueuedRow
<1>3. \A n \in 1 .. tries[row.id[1]] : Refused(<<row.id[1], n>>)
  BY <1>1, <1>2 DEF RowOK
<1>4. ASSUME NEW m \in Accepted, m[1] = row.id[1]  PROVE FALSE
  <2>1. m \in Mutation /\ Issued(m) /\ m \in DOMAIN receipts /\ receipts[m].verdict = "accepted"
    BY <1>1, AcceptedIs DEF ServerInv, ReceiptsOK
  <2>2. m = <<m[1], m[2]>> /\ m[2] \in Nat /\ m[2] >= 1 /\ m[2] <= tries[row.id[1]] /\ m[1] \in Edit
    BY <1>4, <2>1, MutationIs DEF Issued
  <2>3. m[2] \in 1 .. tries[row.id[1]]
    BY <1>1, <1>4, <2>2 DEF ServerInv, TriesOK
  <2> QED
    BY <1>3, <1>4, <2>1, <2>2, <2>3 DEF Refused
<1>5. \A other \in Rows(d) : other.id[1] = row.id[1] => other.id = row.id
  BY <1>1 DEF RowsOK
<1>6. \A c \in conflicts[d] : c.id[1] # row.id[1]
  BY <1>1 DEF ConflictsOK
<1> QED
  BY <1>3, <1>4, <1>5, <1>6

LEMMA CaptureKeeps ==
    ASSUME SyncInv, NEW d \in Device, pass[d].phase = "settle",
           NEW row, NEW k, NEW verdict, Answered(d, row, k, verdict),
           verdict.verdict \in {"conflict", "rejected"},
           CaptureConflict(d, row, verdict), Onward(d, pass[d].merged),
           UNCHANGED <<feedVars, cursor, late>>
    PROVE  SyncInv'
<1>1. /\ ServerInv /\ RowsOK(d) /\ ConflictsOK(d) /\ ViewOK(d) /\ LateOK(d) /\ KeptOK(d)
      /\ outbox[d] \in Seq(QueuedRow) /\ Distinct(outbox[d])
      /\ \A r \in Rows(d) : r \in QueuedRow /\ RowOK(d, r)
  BY DeviceParts DEF RowsOK
<1>2. PICK c : c = [id |-> row.id, base |-> row.base, payload |-> row.payload,
                    verdict |-> verdict.verdict, competing |-> verdict.competing]
  OBVIOUS
<1>3. PICK rest : rest = Without(outbox[d], row.id)
  OBVIOUS
<1>4. /\ outbox' = [outbox EXCEPT ![d] = rest]
      /\ conflicts' = [conflicts EXCEPT ![d] = @ \cup {c}]
      /\ UNCHANGED <<feedVars, view, cursor, late, tries>>
  BY <1>2, <1>3 DEF CaptureConflict
<1>5. /\ row.id \in Mutation /\ row \in QueuedRow /\ verdict \in Verdict /\ Named(row.base)
      /\ outbox[d][k] \in Rows(d) /\ outbox[d][k].id = row.id /\ k \in DOMAIN outbox[d]
      /\ Rebasable(row) => Rebasable(outbox[d][k])
      /\ row = Head(pass[d].batch)
  BY DEF Answered, QueuedRow, Rows, ToSet
<1>6. Refused(row.id) /\ verdict = receipts[row.id]
  BY DEF Answered, Blocked, Refused
<1>7. /\ rest \in Seq(QueuedRow) /\ Distinct(rest)
      /\ \A r \in ToSet(rest) : r \in Rows(d) /\ r.id # row.id
      /\ \A r \in Rows(d) : r.id # row.id => r \in ToSet(rest)
  BY <1>1, <1>3, <1>5, RowGoes
<1>8. outbox'[d] = rest /\ Rows(d)' = ToSet(rest) /\ conflicts'[d] = conflicts[d] \cup {c}
  BY <1>4 DEF SyncInv, Rows
<1>9. ServerInv' /\ ServerMoves /\ TriesGrow /\ Accepted' = Accepted
  BY <1>4, QuietServer
<1>10. RowsOK(d)'
  <2>1. \A r \in Rows(d)' : RowOK(d, r)'
    BY <1>1, <1>4, <1>7, <1>8, <1>9, RowStays
  <2> QED
    BY <1>1, <1>7, <1>8, <2>1 DEF RowsOK, Rebasable
<1>11. ConflictOK(d, c)
  <2>1. /\ c.id = row.id /\ c.base = row.base /\ c.competing = verdict.competing
    BY <1>2
  <2>2. row.id[1] \in Writes[d] /\ Issued(row.id)
    BY <1>1, <1>5 DEF RowOK, Sound
  <2>3. Rebasable(row) => \A m \in Accepted : m[1] # row.id[1]
    BY <1>5, <1>6, RefusedAlone
  <2> QED
    BY <1>5, <1>6, <2>1, <2>2, <2>3 DEF ConflictOK, Rebasable
<1>12. c \in ConflictRecord
  BY <1>2, <1>5 DEF QueuedRow, Verdict, ConflictRecord
<1>13. ConflictsOK(d)'
  <2>1. \A o \in conflicts[d] \cup {c} : o \in ConflictRecord /\ ConflictOK(d, o)
    BY <1>1, <1>11, <1>12 DEF ConflictsOK
  <2>2. \A o \in conflicts[d] \cup {c} : ConflictOK(d, o)'
    BY <1>1, <1>9, <2>1, ConflictStays
  <2>3. ASSUME NEW r \in ToSet(rest), Rebasable(r)  PROVE r.id[1] # c.id[1]
    BY <1>1, <1>2, <1>5, <1>7, <2>3 DEF RowsOK
  <2>4. \A o \in conflicts[d] \cup {c} : \A r \in ToSet(rest) : Rebasable(r) => r.id[1] # o.id[1]
    BY <1>1, <1>7, <2>3 DEF ConflictsOK
  <2> QED
    BY <1>8, <2>1, <2>2, <2>4 DEF ConflictsOK, Rebasable
<1>14. ViewOK(d)' /\ LateOK(d)'
  BY <1>4, QuietRest
<1>15. PassOK(d)' /\ pass' = [pass EXCEPT ![d] = pass'[d]]
  <2>1. pass[d].merged \in SUBSET Mutation
    BY SettleIs
  <2>2. \A old \in Rows(d) : old.id # row.id =>
           \E new \in Rows(d)' : new.id = old.id /\ (Rebasable(old) => Rebasable(new))
    BY <1>7, <1>8
  <2> QED
    BY <1>5, <1>9, <2>1, <2>2, OnwardKeeps
<1>16. KeptOK(d)'
  <2>1. \A m \in Kept(d) : m \in Kept(d)'
    <3>1. c.id = row.id
      BY <1>2
    <3>2. \A r \in Rows(d) : r.id \in Kept(d)'
      BY <1>7, <1>8, <3>1 DEF Kept
    <3> QED
      BY <1>8, <3>2 DEF Kept
  <2> QED
    BY <1>1, <1>4, <1>9, <2>1 DEF KeptOK
<1>17. Acts(d)
  BY <1>4, <1>8, <1>15 DEF Acts, SyncInv
<1> QED
  BY <1>9, <1>10, <1>13, <1>14, <1>15, <1>16, <1>17, StepKeeps DEF DeviceOK

\* A base, once a local revision has its canonical name.
Renamed(base, old, new) == {IF r = old THEN new ELSE r : r \in base}

LEMMA RenamedIs ==
    ASSUME NEW base, IsFiniteSet(base), NEW old, NEW new
    PROVE  /\ IsFiniteSet(Renamed(base, old, new))
           /\ Cardinality(base) = 1 => Cardinality(Renamed(base, old, new)) = 1
           /\ base = {} => Renamed(base, old, new) = {}
           /\ old \notin base => Renamed(base, old, new) = base
<1>1. IsFiniteSet(Renamed(base, old, new))
  <2>1. Renamed(base, old, new) \subseteq base \cup {new}
    BY DEF Renamed
  <2>2. IsFiniteSet(base \cup {new})
    BY FS_AddElement
  <2> QED
    BY <2>1, <2>2, FS_Subset
<1>2. ASSUME Cardinality(base) = 1  PROVE Cardinality(Renamed(base, old, new)) = 1
  <2>1. PICK x : base = {x}
    BY <1>2, FS_Singleton
  <2>2. Renamed(base, old, new) = {IF x = old THEN new ELSE x}
    BY <2>1 DEF Renamed
  <2> QED
    BY <2>2, FS_Singleton
<1>3. base = {} => Renamed(base, old, new) = {}
  BY DEF Renamed
<1>4. old \notin base => Renamed(base, old, new) = base
  BY DEF Renamed
<1> QED
  BY <1>1, <1>2, <1>3, <1>4

(* The name an accepted edit gets disturbs no row that is left.             *)
LEMMA RowRenamed ==
    ASSUME SyncInv, NEW d \in Device, NEW row \in Rows(d),
           NEW m \in Accepted, NEW old, \E n \in Mutation : old = Local(n),
           NEW new, new = [row EXCEPT !.base = Renamed(row.base, old, Canonical(m))]
    PROVE  /\ new \in QueuedRow /\ new.id = row.id /\ RowOK(d, new)
           /\ Rebasable(row) <=> Rebasable(new)
<1> DEFINE base == Renamed(row.base, old, Canonical(m))
<1>1. ServerInv /\ row \in QueuedRow /\ RowOK(d, row)
  BY DeviceParts
<1>2. m \in Mutation /\ Canonical(m) \in DOMAIN contents /\ Canonical(m) \in Revision
  <2>1. m \in Mutation /\ Canonical(m) \in DOMAIN contents
    BY <1>1, AcceptedIs DEF ServerInv, ContentsOK, ReceiptsOK
  <2> QED
    BY <2>1, NamesAreRevisions
<1>3. /\ IsFiniteSet(base)
      /\ Cardinality(row.base) = 1 => Cardinality(base) = 1
      /\ row.base = {} => base = {}
      /\ old \notin row.base => base = row.base
  BY <1>1, RenamedIs DEF RowOK
<1>4. base \subseteq Revision /\ Named(base)
  BY <1>1, <1>2 DEF Renamed, RowOK, Named, QueuedRow
<1>5. old \notin DOMAIN contents
  <2>1. DOMAIN contents \subseteq {Origin(i) : i \in Item} \cup {Canonical(n) : n \in Accepted}
    BY <1>1 DEF ServerInv, ContentsOK
  <2> QED
    BY <2>1, RevisionsApart
<1>6. row.base \subseteq DOMAIN contents => base = row.base
  BY <1>3, <1>5
<1> HIDE DEF base
<1>7. new \in QueuedRow /\ new.id = row.id /\ new.base = base
  BY <1>1, <1>4 DEF QueuedRow, base
<1>8. Rebasable(row) <=> Rebasable(new)
  <2>1. Cardinality({}) = 0
    BY FS_EmptySet
  <2> QED
    BY <1>1, <1>3, <1>6, <1>7, <2>1 DEF RowOK, Rebasable
<1>9. Sound(new)
  <2>1. CASE row.id[2] > 1
    BY <1>1, <1>6, <1>7, <2>1 DEF RowOK, Sound
  <2>2. CASE ~(row.id[2] > 1)
    <3>1. ASSUME new.id \notin DOMAIN receipts, NEW n \in Accepted, n[1] = new.id[1]
          PROVE  FALSE
      <4>1. n \in Mutation /\ Issued(n) /\ n \in DOMAIN receipts
        BY <1>1, AcceptedIs DEF ServerInv, ReceiptsOK
      <4>2. row.id \in Mutation /\ Issued(row.id) /\ n # row.id
        BY <1>1, <1>7, <3>1, <4>1 DEF RowOK, Sound, QueuedRow
      <4> QED
        BY <1>1, <1>7, <2>2, <3>1, <4>1, <4>2, SecondThoughts
    <3> QED
      BY <1>1, <1>7, <2>2, <3>1 DEF RowOK, Sound
  <2> QED
    BY <2>1, <2>2
<1>10. Rebasable(new) \/ new.base = {} \/ new.base \subseteq DOMAIN contents
  BY <1>1, <1>3, <1>6, <1>7, <1>8 DEF RowOK
<1> QED
  BY <1>1, <1>3, <1>4, <1>7, <1>8, <1>9, <1>10 DEF RowOK

LEMMA AcknowledgeKeeps ==
    ASSUME SyncInv, NEW d \in Device, pass[d].phase = "settle",
           NEW row, NEW k, NEW verdict, Answered(d, row, k, verdict),
           verdict.verdict = "accepted",
           Acknowledge(d, row), Onward(d, pass[d].merged),
           UNCHANGED <<feedVars, cursor, late>>
    PROVE  SyncInv'
<1>1. /\ ServerInv /\ RowsOK(d) /\ ConflictsOK(d) /\ ViewOK(d) /\ LateOK(d) /\ KeptOK(d)
      /\ outbox[d] \in Seq(QueuedRow) /\ Distinct(outbox[d])
      /\ \A r \in Rows(d) : r \in QueuedRow /\ RowOK(d, r)
  BY DeviceParts DEF RowsOK
<1>2. /\ row.id \in Mutation /\ row \in QueuedRow /\ row.local \in {Local(n) : n \in Mutation}
      /\ outbox[d][k].id = row.id /\ k \in DOMAIN outbox[d]
      /\ row = Head(pass[d].batch)
  BY DEF Answered, QueuedRow
<1>3. row.id \in Accepted
  BY AcceptedIs DEF Answered, Blocked
<1>4. PICK rest : rest = Without(outbox[d], row.id)
  OBVIOUS
<1> DEFINE new(r) == [r EXCEPT !.base = Renamed(r.base, row.local, Canonical(row.id))]
           rows == [j \in DOMAIN rest |-> new(rest[j])]
           shown == [i \in Item |->
                       [view[d][i] EXCEPT !.revision =
                           IF view[d][i].revision = row.local THEN Canonical(row.id)
                           ELSE view[d][i].revision]]
<1>5. /\ outbox' = [outbox EXCEPT ![d] = rows]
      /\ view' = [view EXCEPT ![d] = shown]
      /\ UNCHANGED <<feedVars, conflicts, cursor, late, tries>>
  BY <1>4 DEF Acknowledge, Renamed
<1>6. /\ rest \in Seq(QueuedRow) /\ Distinct(rest)
      /\ \A r \in ToSet(rest) : r \in Rows(d) /\ r.id # row.id
      /\ \A r \in Rows(d) : r.id # row.id => r \in ToSet(rest)
  BY <1>1, <1>2, <1>4, RowGoes
<1>7. \A r \in ToSet(rest) : /\ new(r) \in QueuedRow /\ new(r).id = r.id /\ RowOK(d, new(r))
                             /\ Rebasable(r) <=> Rebasable(new(r))
  <2> TAKE r \in ToSet(rest)
  <2>1. r \in Rows(d)
    BY <1>6
  <2>2. PICK m, old : m = row.id /\ old = row.local
    OBVIOUS
  <2>3. PICK o : o = [r EXCEPT !.base = Renamed(r.base, old, Canonical(m))]
    OBVIOUS
  <2>4. o \in QueuedRow /\ o.id = r.id /\ RowOK(d, o) /\ (Rebasable(r) <=> Rebasable(o))
    <3>1. m \in Accepted /\ \E n \in Mutation : old = Local(n)
      BY <1>2, <1>3, <2>2
    <3> QED
      BY <2>1, <2>3, <3>1, RowRenamed
  <2> QED
    BY <2>2, <2>3, <2>4
<1> HIDE DEF new
<1>8. rows \in Seq(QueuedRow) /\ Distinct(rows) /\ ToSet(rows) = {new(r) : r \in ToSet(rest)}
  <2>1. Len(rest) \in Nat /\ DOMAIN rest = 1 .. Len(rest)
    BY <1>6, LenProperties
  <2>2. \A j \in DOMAIN rest : rest[j] \in ToSet(rest)
    BY DEF ToSet
  <2>3. \A j \in DOMAIN rest : rows[j] \in QueuedRow /\ rows[j].id = rest[j].id
    BY <1>7, <2>2
  <2>4. rows \in Seq(QueuedRow)
    BY <2>1, <2>3
  <2>5. Distinct(rows)
    BY <1>6, <2>3 DEF Distinct
  <2>6. ToSet(rows) = {new(r) : r \in ToSet(rest)}
    BY DEF ToSet
  <2> QED
    BY <2>4, <2>5, <2>6
<1> HIDE DEF rows, shown
<1>9. outbox'[d] = rows /\ Rows(d)' = {new(r) : r \in ToSet(rest)} /\ view'[d] = shown
  BY <1>5, <1>8 DEF SyncInv, Rows
<1>10. ServerInv' /\ ServerMoves /\ TriesGrow /\ Accepted' = Accepted
  BY <1>5, QuietServer
<1>11. RowsOK(d)'
  <2>1. \A r \in ToSet(rest) : RowOK(d, new(r))'
    BY <1>1, <1>5, <1>7, <1>10, RowStays
  <2>2. \A r, o \in ToSet(rest) : Rebasable(r) /\ o.id[1] = r.id[1] => o.id = r.id
    BY <1>1, <1>6 DEF RowsOK
  <2>3. \A r, o \in Rows(d)' : Rebasable(r) /\ o.id[1] = r.id[1] => o.id = r.id
    BY <1>7, <1>9, <2>2
  <2> QED
    BY <1>8, <1>9, <2>1, <2>3 DEF RowsOK, Rebasable
<1>12. ConflictsOK(d)'
  <2>1. \A c \in conflicts[d] : ConflictOK(d, c)'
    BY <1>1, <1>10, ConflictStays DEF ConflictsOK
  <2>2. \A c \in conflicts[d] : \A r \in Rows(d)' : Rebasable(r) => r.id[1] # c.id[1]
    BY <1>1, <1>6, <1>7, <1>9 DEF ConflictsOK
  <2> QED
    BY <1>1, <1>5, <2>1, <2>2 DEF ConflictsOK, Rebasable
<1>13. ViewOK(d)'
  <2>1. Canonical(row.id) \in Revision /\ Canonical(row.id) \in DOMAIN contents
    BY <1>1, <1>2, <1>3, NamesAreRevisions DEF ServerInv, ContentsOK
  <2>2. \A i \in Item : view[d][i] \in Shown /\ Displayable(view[d][i])
    BY <1>1 DEF ViewOK
  <2>3. ASSUME NEW i \in Item  PROVE shown[i] \in Shown /\ Displayable(shown[i])
    BY <2>1, <2>2 DEF shown, Shown, Displayable
  <2>4. shown \in [Item -> Shown]
    BY <2>3 DEF shown
  <2> QED
    BY <1>1, <1>5, <1>9, <2>3, <2>4 DEF ViewOK, Displayable, feedVars
<1>14. LateOK(d)'
  BY <1>5, QuietRest
<1>15. PassOK(d)' /\ pass' = [pass EXCEPT ![d] = pass'[d]]
  <2>1. pass[d].merged \in SUBSET Mutation
    BY SettleIs
  <2>2. \A old \in Rows(d) : old.id # row.id =>
           \E r \in Rows(d)' : r.id = old.id /\ (Rebasable(old) => Rebasable(r))
    BY <1>6, <1>7, <1>9
  <2> QED
    BY <1>2, <1>10, <2>1, <2>2, OnwardKeeps
<1>16. KeptOK(d)'
  <2>1. \A m \in Kept(d) : m \in Kept(d)' \/ m = row.id
    BY <1>5, <1>6, <1>7, <1>9 DEF Kept
  <2> QED
    BY <1>1, <1>3, <1>5, <1>10, <2>1 DEF KeptOK
<1>17. Acts(d)
  BY <1>5, <1>9, <1>15 DEF Acts, SyncInv
<1> QED
  BY <1>10, <1>11, <1>12, <1>13, <1>14, <1>15, <1>16, <1>17, StepKeeps DEF DeviceOK

(* A merged edit takes the place of its row under the next identity.  Every *)
(* earlier one has been refused, so the new one may stand alone for it.     *)
LEMMA RequeueKeeps ==
    ASSUME SyncInv, NEW d \in Device, pass[d].phase = "settle",
           NEW row, NEW k, NEW verdict, Answered(d, row, k, verdict),
           verdict.verdict = "conflict",
           Requeue(d, row, verdict), Onward(d, pass[d].merged \cup {Fresh(row.id[1])}),
           UNCHANGED <<feedVars, cursor, late>>
    PROVE  SyncInv'
<1>1. /\ ServerInv /\ RowsOK(d) /\ ConflictsOK(d) /\ ViewOK(d) /\ LateOK(d) /\ KeptOK(d)
      /\ outbox[d] \in Seq(QueuedRow) /\ Distinct(outbox[d])
      /\ \A r \in Rows(d) : r \in QueuedRow /\ RowOK(d, r)
  BY DeviceParts DEF RowsOK
<1>2. PICK pair \in Comparisons(row.base, verdict.competing) :
         outbox' = [outbox EXCEPT ![d] =
                      [j \in DOMAIN @ |->
                         IF @[j].id # row.id THEN @[j]
                         ELSE [@[j] EXCEPT !.id = Fresh(row.id[1]), !.status = "pending",
                                 !.payload = Merge(contents[pair[1]], row.payload, contents[pair[2]]),
                                 !.base = {pair[2]}]]]
  BY DEF Requeue
<1>3. PICK e : e = row.id[1]
  OBVIOUS
<1>4. PICK fresh : fresh = Fresh(e)
  OBVIOUS
<1>5. PICK payload : payload = Merge(contents[pair[1]], row.payload, contents[pair[2]])
  OBVIOUS
<1>6. PICK old : old = outbox[d][k]
  OBVIOUS
<1>7. PICK new : new = [old EXCEPT !.id = fresh, !.status = "pending", !.payload = payload,
                                   !.base = {pair[2]}]
  OBVIOUS
<1>8. /\ row.id \in Mutation /\ row \in QueuedRow /\ row = Head(pass[d].batch)
      /\ k \in DOMAIN outbox[d] /\ old.id = row.id /\ old \in Rows(d)
      /\ Rebasable(row) => Rebasable(old)
  BY <1>6 DEF Answered, QueuedRow, Rows, ToSet
<1>9. Refused(row.id) /\ row.id \in DOMAIN receipts /\ verdict = receipts[row.id]
  BY DEF Answered, Blocked, Refused
<1>10. /\ Rebasable(row) /\ verdict.competing # {}
       /\ pair[1] \in DOMAIN contents /\ pair[2] \in DOMAIN contents
  BY DEF Comparisons, Rebasable
<1>11. /\ \A n \in 1 .. tries[e] : Refused(<<e, n>>)
       /\ \A m \in Accepted : m[1] # e
       /\ \A other \in Rows(d) : other.id[1] = e => other.id = row.id
       /\ \A c \in conflicts[d] : c.id[1] # e
  <2>1. Rebasable(old) /\ Refused(old.id) /\ old.id[1] = e /\ old \in Rows(d)
    BY <1>3, <1>8, <1>9, <1>10
  <2>2. /\ \A n \in 1 .. tries[old.id[1]] : Refused(<<old.id[1], n>>)
        /\ \A m \in Accepted : m[1] # old.id[1]
        /\ \A other \in Rows(d) : other.id[1] = old.id[1] => other.id = old.id
        /\ \A c \in conflicts[d] : c.id[1] # old.id[1]
    BY <2>1, RefusedAlone
  <2> QED
    BY <1>8, <2>1, <2>2
<1>12. /\ e \in Edit /\ e \in Writes[d] /\ Issued(row.id)
       /\ tries[e] \in Nat /\ tries[e] >= 1 /\ tries[e] < MaxTries[e] /\ MaxTries[e] \in Nat
  <2>1. e \in Edit /\ e \in Writes[d] /\ Issued(row.id)
    BY <1>1, <1>3, <1>8, MutationIs DEF RowOK, Sound
  <2>2. tries[e] < MaxTries[e]
    BY <1>3 DEF Requeue
  <2> QED
    BY <1>1, <1>3, <1>8, <2>1, <2>2, TriesBound
<1>13. /\ fresh \in Mutation /\ fresh = <<e, tries[e] + 1>>
       /\ fresh[1] = e /\ fresh[2] = tries[e] + 1 /\ fresh[2] > 1
  <2>1. fresh = <<e, tries[e] + 1>> /\ tries[e] + 1 \in 1 .. MaxTries[e]
    BY <1>4, <1>12 DEF Fresh
  <2> QED
    BY <1>12, <2>1, MutationIs
<1>14. e \notin Blind
  BY <1>1, <1>3, <1>9, <1>10 DEF ServerInv, ReceiptsOK
<1>15. payload \in Content /\ pair[2] \in Revision
  <2>1. contents[pair[1]] \in Content /\ contents[pair[2]] \in Content /\ pair[2] \in Revision
    BY <1>1, <1>10, AcceptedIs DEF ServerInv, ContentsOK, ReceiptsOK, Revision
  <2>2. row.payload \in Content
    BY <1>8 DEF QueuedRow
  <2> QED
    BY <1>5, <2>1, <2>2, MergeTyped
<1>16. /\ new \in QueuedRow /\ new.id = fresh /\ new.base = {pair[2]}
  BY <1>1, <1>7, <1>8, <1>13, <1>15 DEF QueuedRow
<1>17. /\ tries' \in [Edit -> Nat] /\ tries'[e] = tries[e] + 1
       /\ \A o \in Edit : o # e => tries'[o] = tries[o]
       /\ UNCHANGED <<feedVars, conflicts, view, cursor, late>>
  <2>1. tries' = [tries EXCEPT ![e] = @ + 1] /\ UNCHANGED <<feedVars, conflicts, view, cursor, late>>
    BY <1>3 DEF Requeue
  <2>2. tries \in [Edit -> Nat]
    BY <1>1 DEF ServerInv, TriesOK
  <2> QED
    BY <1>12, <2>1, <2>2
<1>18. TriesGrow
  <2>1. \A o \in Edit : tries[o] \in Nat
    BY <1>1 DEF ServerInv, TriesOK
  <2>2. \A n \in Nat : n <= n /\ n <= n + 1
    OBVIOUS
  <2>3. \A o \in Edit : tries[o] <= tries'[o]
    BY <1>17, <2>1, <2>2
  <2> QED
    BY <1>17, <2>3 DEF TriesGrow
<1>19. TriesOK'
  <2>1. \A m : Refused(m)' = Refused(m)
    BY <1>17 DEF feedVars, Refused
  <2>2. Refused(<<e, 1>>)
    BY <1>11, <1>12
  <2>3. ASSUME NEW o \in Edit
        PROVE  tries'[o] <= MaxTries[o] /\ (o \in Blind => tries'[o] <= 1) /\ (tries'[o] > 1 => Refused(<<o, 1>>))
    <3>1. CASE o = e
      BY <3>1, <1>12, <1>14, <1>17, <2>2
    <3>2. CASE o # e
      BY <3>2, <1>1, <1>17 DEF ServerInv, TriesOK
    <3> QED
      BY <3>1, <3>2
  <2> QED
    BY <1>17, <2>1, <2>3 DEF TriesOK
<1>20. ServerInv' /\ ServerMoves /\ Accepted' = Accepted
  BY <1>1, <1>17, <1>18, <1>19, ServerKept
<1> DEFINE rows == [j \in DOMAIN outbox[d] |-> IF outbox[d][j].id # row.id THEN outbox[d][j] ELSE new]
<1>21. outbox' = [outbox EXCEPT ![d] = rows]
  <2>1. \A j \in DOMAIN outbox[d] : outbox[d][j].id = row.id => outbox[d][j] = old
    BY <1>1, <1>6, <1>8 DEF Distinct
  <2>2. \A j \in DOMAIN outbox[d] :
           rows[j] =
              IF outbox[d][j].id # row.id THEN outbox[d][j]
              ELSE [outbox[d][j] EXCEPT !.id = Fresh(row.id[1]), !.status = "pending",
                       !.payload = Merge(contents[pair[1]], row.payload, contents[pair[2]]),
                       !.base = {pair[2]}]
    BY <2>1, <1>3, <1>4, <1>5, <1>7
  <2> QED
    BY <1>2, <2>2
<1>22. \A r \in Rows(d) : r.id # fresh
  <2>1. \A m \in Mutation : Issued(m) => m # fresh
    BY <1>12, <1>13 DEF Issued
  <2> QED
    BY <1>1, <2>1 DEF RowOK, Sound, QueuedRow
<1>23. /\ rows \in Seq(QueuedRow) /\ Distinct(rows)
       /\ \A r \in ToSet(rows) : r = new \/ (r \in Rows(d) /\ r.id # row.id)
       /\ \A r \in Rows(d) : r.id # row.id => r \in ToSet(rows)
       /\ new \in ToSet(rows)
  <2>1. Len(outbox[d]) \in Nat /\ DOMAIN outbox[d] = 1 .. Len(outbox[d])
    BY <1>1, LenProperties
  <2>2. \A j \in DOMAIN outbox[d] : outbox[d][j] \in Rows(d)
    BY DEF Rows, ToSet
  <2>3. \A j \in DOMAIN outbox[d] : rows[j] \in QueuedRow
    BY <1>1, <1>16, <2>2
  <2>4. rows \in Seq(QueuedRow)
    <3>1. PICK n : n = Len(outbox[d])
      OBVIOUS
    <3>2. n \in Nat /\ rows = [j \in 1 .. n |-> rows[j]] /\ \A j \in 1 .. n : rows[j] \in QueuedRow
      BY <2>1, <2>3, <3>1
    <3> HIDE DEF rows
    <3>3. [j \in 1 .. n |-> rows[j]] \in Seq(QueuedRow)
      BY <3>2
    <3> QED
      BY <3>2, <3>3
  <2>5. Distinct(rows)
    BY <1>1, <1>16, <1>22, <2>2 DEF Distinct
  <2>6. rows[k] = new
    BY <1>6, <1>8
  <2> QED
    BY <1>8, <2>2, <2>4, <2>5, <2>6 DEF Rows, ToSet
<1> HIDE DEF rows
<1>24. outbox'[d] = rows /\ Rows(d)' = ToSet(rows)
  BY <1>21 DEF SyncInv, Rows
<1>25. RowOK(d, new)'
  <2>1. Issued(new.id)'
    <3>1. new.id[1] = e /\ new.id[2] = tries'[e]
      BY <1>13, <1>16, <1>17
    <3>2. new.id[2] <= tries'[new.id[1]]
      BY <1>12, <1>17, <3>1
    <3> QED
      BY <3>2 DEF Issued
  <2>2. new.base \subseteq DOMAIN contents'
    BY <1>10, <1>16, <1>20 DEF ServerMoves
  <2>3. \A m \in Accepted' : m[1] # new.id[1]
    BY <1>11, <1>13, <1>16, <1>20
  <2>4. Sound(new)'
    BY <2>1, <2>2, <2>3 DEF Sound
  <2>5. Named(new.base)' /\ IsFiniteSet(new.base)
    BY <2>2, <1>16, FS_Singleton DEF Named
  <2>6. \A n \in 1 .. tries'[e] : n # fresh[2] => Refused(<<e, n>>)'
    <3>1. \A n \in 1 .. tries'[e] : n # fresh[2] => n \in 1 .. tries[e]
      BY <1>12, <1>13, <1>17
    <3> QED
      BY <1>11, <1>20, <3>1, VerdictsStand
  <2> QED
    BY <1>12, <1>13, <1>16, <2>2, <2>4, <2>5, <2>6 DEF RowOK
<1>26. \A r \in Rows(d) : r.id # row.id => r.id[1] # e
  BY <1>11
<1>27. RowsOK(d)'
  <2>1. ASSUME NEW r \in Rows(d), r.id # row.id  PROVE RowOK(d, r)'
    <3>1. r \in QueuedRow /\ RowOK(d, r) /\ r.id[1] \in Edit /\ r.id[1] # e
      BY <1>1, <1>26, <2>1, MutationIs DEF QueuedRow
    <3>2. tries'[r.id[1]] = tries[r.id[1]]
      BY <1>17, <3>1
    <3> QED
      BY <1>1, <1>18, <1>20, <3>1, <3>2, RowStays
  <2>2. \A r \in Rows(d)' : RowOK(d, r)'
    BY <1>23, <1>24, <1>25, <2>1
  <2>3. \A r, o \in Rows(d)' : Rebasable(r) /\ o.id[1] = r.id[1] => o.id = r.id
    BY <1>1, <1>13, <1>16, <1>23, <1>24, <1>26 DEF RowsOK
  <2> QED
    BY <1>23, <1>24, <2>2, <2>3 DEF RowsOK, Rebasable
<1>28. ConflictsOK(d)'
  <2>1. \A c \in conflicts[d] : ConflictOK(d, c)'
    BY <1>1, <1>18, <1>20, ConflictStays DEF ConflictsOK
  <2>2. \A c \in conflicts[d] : \A r \in Rows(d)' : Rebasable(r) => r.id[1] # c.id[1]
    BY <1>1, <1>11, <1>13, <1>16, <1>23, <1>24 DEF ConflictsOK
  <2> QED
    BY <1>1, <1>17, <2>1, <2>2 DEF ConflictsOK, Rebasable
<1>29. ViewOK(d)' /\ LateOK(d)'
  BY <1>1, <1>17, <1>18, <1>20, ViewKept, LateKept
<1>30. PassOK(d)' /\ pass' = [pass EXCEPT ![d] = pass'[d]]
  <2>1. pass[d].merged \cup {Fresh(row.id[1])} \in SUBSET Mutation
    BY <1>3, <1>4, <1>13, SettleIs
  <2>2. \A o \in Rows(d) : o.id # row.id =>
           \E r \in Rows(d)' : r.id = o.id /\ (Rebasable(o) => Rebasable(r))
    BY <1>23, <1>24
  <2> QED
    BY <1>8, <1>20, <2>1, <2>2, OnwardKeeps
<1>31. KeptOK(d)'
  <2>1. \A m \in Kept(d) : m \in Kept(d)' \/ m = row.id
    BY <1>17, <1>23, <1>24 DEF Kept
  <2>2. fresh \in Kept(d)'
    BY <1>16, <1>23, <1>24 DEF Kept
  <2>3. ASSUME NEW o \in Writes[d], tries'[o] > 0, o # e
        PROVE  (\E m \in Kept(d)' : m[1] = o) \/ (\E m \in Accepted' : m[1] = o)
    <3>1. o \in Edit /\ tries[o] > 0
      BY <1>17, <2>3, SyncAssumption
    <3> QED
      BY <1>1, <1>3, <1>20, <2>1, <2>3, <3>1 DEF KeptOK
  <2> QED
    BY <1>13, <2>2, <2>3 DEF KeptOK
<1>32. Acts(d)
  <2>1. \A o \in Edit \ Writes[d] : tries'[o] = tries[o]
    BY <1>12, <1>17
  <2> QED
    BY <1>17, <1>21, <1>24, <1>30, <2>1 DEF Acts, SyncInv
<1> QED
  BY <1>18, <1>20, <1>27, <1>28, <1>29, <1>30, <1>31, <1>32, StepKeeps DEF DeviceOK

LEMMA SettleKeeps ==
    ASSUME SyncInv, NEW d \in Device, Settle(d)
    PROVE  SyncInv'
<1>1. pass[d].phase = "settle" /\ UNCHANGED <<feedVars, cursor, late>>
  BY DEF Settle
<1>2. PICK row, verdict : row = Head(pass[d].batch) /\ verdict = Head(pass[d].results)
  OBVIOUS
<1>3. PICK k \in DOMAIN outbox[d] : Answered(d, row, k, verdict)
  BY <1>1, <1>2, HeadIsAnswered
<1>4. CASE verdict.verdict = "accepted" /\ Acknowledge(d, row) /\ Onward(d, pass[d].merged)
  BY <1>1, <1>3, <1>4, AcknowledgeKeeps
<1>5. CASE /\ verdict.verdict = "conflict" /\ Requeue(d, row, verdict)
           /\ Onward(d, pass[d].merged \cup {Fresh(row.id[1])})
  BY <1>1, <1>3, <1>5, RequeueKeeps
<1>6. CASE /\ verdict.verdict \in {"conflict", "rejected"} /\ CaptureConflict(d, row, verdict)
           /\ Onward(d, pass[d].merged)
  BY <1>1, <1>3, <1>6, CaptureKeeps
<1>7. CASE MarkBlocked(d, row) /\ Onward(d, pass[d].merged)
  BY <1>1, <1>7, MarkBlockedKeeps
<1> QED
  BY <1>2, <1>4, <1>5, <1>6, <1>7 DEF Settle

-----------------------------------------------------------------------------
(* The whole system.                                                        *)

LEMMA InitIsSound ==
    ASSUME SyncInit
    PROVE  SyncInv
<1>1. /\ contents = [r \in {Origin(i) : i \in Item} |-> [f \in Field |-> Untouched]]
      /\ head = [i \in Item |-> Origin(i)]
      /\ receipts = << >> /\ feed = << >> /\ drawn = 0 /\ open = << >> /\ refusing = FALSE
  BY DEF SyncInit, FeedInit
<1>2. /\ outbox = [d \in Device |-> << >>] /\ conflicts = [d \in Device |-> {}]
      /\ view = [d \in Device |-> [i \in Item |-> [revision |-> head[i], content |-> contents[head[i]]]]]
      /\ cursor = [d \in Device |-> 0] /\ pass = [d \in Device |-> Idle]
      /\ late = [d \in Device |-> << >>] /\ tries = [e \in Edit |-> 0]
  BY DEF SyncInit
<1>3. DOMAIN receipts = {} /\ DOMAIN feed = {} /\ DOMAIN open = {} /\ Accepted = {}
  BY <1>1 DEF Accepted
<1>4. TriesOK
  <2>1. \A e \in Edit : MaxTries[e] \in Nat
    BY FeedAssumption
  <2>2. \A e \in Edit : 0 <= MaxTries[e]
    BY <2>1
  <2> QED
    BY <1>2, <2>2 DEF TriesOK
<1>5. [f \in Field |-> Untouched] \in Content
  BY DEF Content
<1>6. DOMAIN contents = {Origin(i) : i \in Item} /\ \A i \in Item : contents[Origin(i)] \in Content
  BY <1>1, <1>5
<1>7. ContentsOK
  BY <1>1, <1>3, <1>5, <1>6 DEF ContentsOK
<1>8. ReceiptsOK
  BY <1>3 DEF ReceiptsOK
<1>9. ChangesOK
  BY <1>1, <1>3 DEF ChangesOK
<1>10. OpenOK
  BY <1>3 DEF OpenOK
<1>11. \A i \in Item : [revision |-> head[i], content |-> contents[head[i]]] \in Shown
  BY <1>1, <1>6 DEF Shown, Revision
<1>12. ASSUME NEW d \in Device  PROVE DeviceOK(d)
  <2>1. outbox[d] = << >> /\ conflicts[d] = {} /\ cursor[d] = 0 /\ pass[d] = Idle /\ late[d] = << >>
    BY <1>2
  <2>2. Rows(d) = {}
    BY <2>1 DEF Rows, ToSet
  <2>3. RowsOK(d)
    BY <2>1, <2>2 DEF RowsOK, Distinct
  <2>4. ConflictsOK(d)
    BY <2>1 DEF ConflictsOK
  <2>5. view[d] = [i \in Item |-> [revision |-> head[i], content |-> contents[head[i]]]]
    BY <1>2
  <2>6. ViewOK(d)
    <3>1. view[d] \in [Item -> Shown]
      BY <1>11, <2>5
    <3>2. \A i \in Item : view[d][i].revision = Origin(i) /\ view[d][i] \in Shown
      <4>1. \A i \in Item : head[i] = Origin(i)
        BY <1>1
      <4>2. \A i \in Item : view[d][i] = [revision |-> head[i], content |-> contents[head[i]]]
        BY <2>5
      <4>3. ASSUME NEW i \in Item  PROVE view[d][i].revision = head[i]
        <5>1. PICK s, r, c : s = view[d][i] /\ r = head[i] /\ c = contents[head[i]]
          OBVIOUS
        <5>2. s = [revision |-> r, content |-> c]
          BY <4>2, <5>1
        <5> QED
          BY <5>1, <5>2
      <4> QED
        BY <3>1, <4>1, <4>3
    <3>3. cursor[d] \in 0 .. drawn
      BY <1>1, <2>1
    <3> QED
      BY <1>6, <3>1, <3>2, <3>3 DEF ViewOK, Displayable
  <2>7. LateOK(d)
    BY <2>1 DEF LateOK
  <2>8. PassOK(d)
    BY <2>1 DEF PassOK, PassState, Idle
  <2>9. KeptOK(d)
    <3>1. \A e \in Writes[d] : tries[e] = 0
      BY <1>2, SyncAssumption
    <3> QED
      BY <3>1 DEF KeptOK
  <2> QED
    BY <2>3, <2>4, <2>6, <2>7, <2>8, <2>9 DEF DeviceOK
<1>13. /\ outbox \in [Device -> Seq(QueuedRow)] /\ conflicts \in [Device -> SUBSET ConflictRecord]
       /\ view \in [Device -> [Item -> Shown]] /\ cursor \in [Device -> Nat]
       /\ pass \in [Device -> PassState] /\ late \in [Device -> Seq(Submission)]
  <2>1. \A d \in Device : view[d] \in [Item -> Shown]
    BY <1>12 DEF DeviceOK, ViewOK
  <2>2. DOMAIN view = Device /\ view = [d \in Device |-> view[d]]
    BY <1>2
  <2>3. view \in [Device -> [Item -> Shown]]
    BY <2>1, <2>2
  <2>4. outbox \in [Device -> Seq(QueuedRow)] /\ late \in [Device -> Seq(Submission)]
    <3>1. << >> \in Seq(QueuedRow) /\ << >> \in Seq(Submission)
      OBVIOUS
    <3> QED
      BY <1>2, <3>1
  <2>5. conflicts \in [Device -> SUBSET ConflictRecord] /\ cursor \in [Device -> Nat]
    BY <1>2
  <2>6. pass \in [Device -> PassState]
    <3>1. Idle \in PassState
      BY DEF PassState
    <3> QED
      BY <1>2, <3>1
  <2> QED
    BY <2>3, <2>4, <2>5, <2>6
<1> QED
  BY <1>4, <1>7, <1>8, <1>9, <1>10, <1>12, <1>13 DEF SyncInv, ServerInv

LEMMA StutterKeeps ==
    ASSUME SyncInv, UNCHANGED syncVars
    PROVE  SyncInv'
<1>1. /\ UNCHANGED <<feedVars, tries>>
      /\ UNCHANGED <<outbox, conflicts, view, cursor, pass, late>>
  BY DEF syncVars, deviceVars
<1>2. ServerInv' /\ ServerMoves /\ TriesGrow
  BY <1>1, QuietServer
<1> QED
  BY <1>1, <1>2, ServerStepKeeps

LEMMA NextKeeps ==
    ASSUME SyncInv, [SyncNext]_syncVars
    PROVE  SyncInv'
<1>1. ASSUME NEW d \in Device, MakeEdit(d) \/ Resolve(d)  PROVE SyncInv'
  BY <1>1, MakeEditKeeps, ResolveKeeps
<1>2. ASSUME NEW d \in Device, Pass(d)  PROVE SyncInv'
  BY <1>2, BeginKeeps, SubmitKeeps, ServeKeeps, AnswerKeeps, SettleKeeps, ListKeeps, ApplyKeeps
     DEF Pass
<1>3. ASSUME NEW d \in Device, ServeLate(d) \/ Failure(d)  PROVE SyncInv'
  BY <1>3, ServeLateKeeps, GiveUpKeeps, CrashKeeps, OfflineKeeps, ApplyKeeps DEF Failure
<1>4. ASSUME Command  PROVE SyncInv'
  BY <1>4, CommandKeeps
<1>5. ASSUME ToggleRefusing \/ \E i \in Item : Commit(i), UNCHANGED deviceVars  PROVE SyncInv'
  BY <1>5, ServerAloneKeeps
<1>6. ASSUME UNCHANGED syncVars  PROVE SyncInv'
  BY <1>6, StutterKeeps
<1> QED
  BY <1>1, <1>2, <1>3, <1>4, <1>5, <1>6 DEF SyncNext

(* What the properties below rest on: on the server, one identity of an edit *)
(* at most is accepted, and a verdict stands; on a device, an edit that may  *)
(* still be submitted under a new identity has been refused under all its    *)
(* others, or rests on revisions that its acceptance has left behind.        *)
THEOREM SyncInvHolds == SyncSpec => []SyncInv
<1>1. SyncInit => SyncInv
  BY InitIsSound
<1>2. SyncInv /\ [SyncNext]_syncVars => SyncInv'
  BY NextKeeps
<1> QED
  BY <1>1, <1>2, PTL DEF SyncSpec

(* Queue, records of refused work, screen, cursor and pass of every device,  *)
(* and the server's tables, only ever hold what the code may store in them.  *)
THEOREM SyncTypeCorrect == SyncSpec => []SyncTypeOK
<1>1. SyncInv => SyncTypeOK
  <2> SUFFICES ASSUME SyncInv  PROVE SyncTypeOK
    OBVIOUS
  <2>1. /\ head \in [Item -> DOMAIN contents]
        /\ \A r \in DOMAIN contents : contents[r] \in Content
    BY DEF SyncInv, ServerInv, ContentsOK
  <2>2. DOMAIN receipts \subseteq Mutation /\ DOMAIN feed \subseteq 1 .. drawn /\ DOMAIN open \subseteq Item
    BY DEF SyncInv, ServerInv, ReceiptsOK, ChangesOK, OpenOK
  <2>3. ASSUME NEW e \in Edit  PROVE tries[e] \in 0 .. MaxTries[e]
    BY TriesBound DEF SyncInv
  <2>4. ASSUME NEW d \in Device
        PROVE  /\ Kept(d) \subseteq Mutation
               /\ \A r \in Rows(d) : r.status \in {"pending", "sending", "blocked"}
               /\ cursor[d] \in 0 .. drawn
               /\ pass[d].phase \in {"idle", "submit", "wait", "settle", "list", "apply"}
    <3>1. /\ ConflictsOK(d) /\ ViewOK(d) /\ PassOK(d)
          /\ \A r \in Rows(d) : r \in QueuedRow
      BY DeviceParts
    <3>2. Kept(d) \subseteq Mutation
      BY <3>1 DEF Kept, ConflictsOK, QueuedRow, ConflictRecord
    <3>3. pass[d].phase \in {"idle", "submit", "wait", "settle", "list", "apply"}
      BY <3>1 DEF PassOK, PassState, Idle, Listing, SubmitPass, WaitPass, SettlePass, ApplyPass
    <3> QED
      BY <3>1, <3>2, <3>3 DEF ViewOK, QueuedRow
  <2> QED
    BY <2>1, <2>2, <2>3, <2>4 DEF SyncTypeOK
<1> QED
  BY <1>1, SyncInvHolds, PTL

(* Retries, duplicates of a request the device gave up on, rebases and       *)
(* resolutions of one edit get it into the feed once: submitMutation keeps   *)
(* the verdict of every identity, and a new identity is submitted on a base  *)
(* that an acceptance under an earlier one has moved away from.              *)
THEOREM EditsAreAcceptedOnce == SyncSpec => []AcceptedOnce
<1>1. SyncInv => AcceptedOnce
  BY DEF SyncInv, ServerInv, ReceiptsOK, ChangesOK, AcceptedOnce
<1> QED
  BY <1>1, SyncInvHolds, PTL

(* Whatever is lost, repeated, refused or interrupted, an edit made on a     *)
(* device is in its queue, in its records of refused work, or in the feed:   *)
(* the row goes in the transaction that acknowledges it or records its       *)
(* refusal, and a rebase replaces it in place.                               *)
THEOREM NoEditIsDropped == SyncSpec => []NothingDropped
<1>1. SyncInv => NothingDropped
  <2> SUFFICES ASSUME SyncInv, NEW d \in Device, NEW e \in Writes[d], tries[e] > 0
               PROVE  (\E m \in Kept(d) : m[1] = e) \/ (\E q \in DOMAIN feed : feed[q][1] = e)
    BY DEF NothingDropped
  <2>1. KeptOK(d) /\ ServerInv
    BY DeviceParts
  <2> QED
    BY <2>1 DEF KeptOK, ServerInv, ChangesOK
<1> QED
  BY <1>1, SyncInvHolds, PTL

-----------------------------------------------------------------------------
(* Devices and the feed.  A device that trusts its cursor relies on changes *)
(* appearing in the order of their numbers.                                 *)

\* What is committed has a number above everything committed before.
CommitsInOrder == \A q \in DOMAIN feed' \ DOMAIN feed : \A p \in DOMAIN feed : p < q

HeadIsLast ==
    \A q \in DOMAIN feed :
        \E p \in DOMAIN feed : p >= q /\ head[Changes(feed[q])] = Canonical(feed[p])

\* Work that is still to be answered is not among the changes applied.
AheadOK(d) ==
    \A row \in Rows(d) : \A q \in DOMAIN feed :
        row.status # "blocked" /\ feed[q] = row.id => cursor[d] < q

CursorOK(d) == cursor[d] \in DOMAIN feed \cup {0}

CurrentOK(d) ==
    \A q \in DOMAIN feed :
        LET shown == view[d][Changes(feed[q])].revision
        IN  q <= cursor[d] =>
                \/ shown[1] = "local"
                \/ \E p \in DOMAIN feed : p >= q /\ shown = Canonical(feed[p])

Steady(d) == AheadOK(d) /\ CursorOK(d) /\ CurrentOK(d)

Underway(p) == IF p.phase \in {"wait", "settle"} THEN p.batch ELSE << >>

\* A row is in flight during a pass only while its batch is, and the rows of
\* the batch are not blocked.
SendingOK(d) ==
    \A row \in Rows(d) :
        /\ row.status = "sending" /\ pass[d].phase # "idle" => row.id \in Ids(Underway(pass[d]))
        /\ row.id \in Ids(Underway(pass[d])) => row.status # "blocked"

\* A page holds every change from the cursor on, and items as of its last one.
PageOK(d) ==
    pass[d].phase = "apply" =>
        \A x \in pass[d].page :
            /\ cursor[d] < x
            /\ \E p \in DOMAIN feed :
                  p >= x /\ pass[d].items[Changes(feed[x])].revision = Canonical(feed[p])
            /\ \A q \in DOMAIN feed : cursor[d] < q /\ q <= x => q \in pass[d].page

Follows(d) == Steady(d) /\ SendingOK(d) /\ PageOK(d)
FollowInv == SyncInv /\ HeadIsLast /\ \A d \in Device : Follows(d)

(* The feed and the heads move together, and only when a transaction         *)
(* commits.                                                                  *)
LEMMA FeedSteps ==
    ASSUME [SyncNext]_syncVars
    PROVE  UNCHANGED <<feed, head>> \/ \E i \in Item : Commit(i) /\ UNCHANGED deviceVars
<1>1. \A s : Accept(s) => UNCHANGED <<feed, head>>
  BY DEF Accept
<1>2. \A s, verdict : Answers(s, verdict) => UNCHANGED <<feed, head>>
  BY DEF Answers, Refuse, WriteBlocked, feedVars
<1>3. ASSUME NEW d \in Device, MakeEdit(d) \/ Resolve(d) \/ Failure(d)  PROVE UNCHANGED <<feed, head>>
  BY <1>3 DEF MakeEdit, Resolve, Failure, GiveUp, Crash, Offline, CrashApplying, feedVars
<1>4. ASSUME NEW d \in Device, Pass(d)  PROVE UNCHANGED <<feed, head>>
  <2>1. Serve(d) => UNCHANGED <<feed, head>>
    BY <1>1, <1>2 DEF Serve
  <2> QED
    BY <1>4, <2>1 DEF Pass, Begin, Submit, Answer, Settle, List, Apply, feedVars
<1>5. ASSUME NEW d \in Device, ServeLate(d)  PROVE UNCHANGED <<feed, head>>
  BY <1>1, <1>2, <1>5 DEF ServeLate
<1>6. Command => UNCHANGED <<feed, head>>
  BY <1>1 DEF Command
<1>7. ToggleRefusing => UNCHANGED <<feed, head>>
  BY DEF ToggleRefusing
<1>8. UNCHANGED syncVars => UNCHANGED <<feed, head>>
  BY DEF syncVars, feedVars
<1> QED
  BY <1>3, <1>4, <1>5, <1>6, <1>7, <1>8 DEF SyncNext

(* A transaction that commits in order is above every cursor and every page. *)
LEMMA CommitFollows ==
    ASSUME FollowInv, NEW i \in Item, Commit(i), UNCHANGED deviceVars, CommitsInOrder
    PROVE  HeadIsLast' /\ \A d \in Device : Follows(d)'
<1>1. PICK q, m : q = open[i].sequence /\ m = open[i].id
  OBVIOUS
<1>2. /\ ServerInv /\ i \in DOMAIN open
      /\ m \in Mutation /\ Changes(m) = i /\ q \in (1 .. drawn) \ DOMAIN feed
      /\ drawn \in Nat /\ head \in [Item -> DOMAIN contents]
      /\ \A p \in DOMAIN feed : p \in 1 .. drawn /\ Changes(feed[p]) \in Item
  BY <1>1, ContentsAreRevisions DEF FollowInv, SyncInv, ServerInv, OpenOK, ContentsOK, Commit
<1>3. head' = [head EXCEPT ![i] = Canonical(m)] /\ feed' = Put(feed, q, m)
  BY <1>1 DEF Commit
<1>4. /\ DOMAIN feed' = DOMAIN feed \cup {q} /\ feed'[q] = m
      /\ \A p \in DOMAIN feed : feed'[p] = feed[p]
  BY <1>2, <1>3 DEF Put
<1>5. q \in Nat /\ q >= 1 /\ \A p \in DOMAIN feed : p \in Nat /\ p < q
  BY <1>2, <1>4 DEF CommitsInOrder
<1>6. HeadIsLast'
  <2> SUFFICES ASSUME NEW x \in DOMAIN feed'
               PROVE  \E p \in DOMAIN feed' : p >= x /\ head'[Changes(feed'[x])] = Canonical(feed'[p])
    BY DEF HeadIsLast, Changes, Canonical
  <2>1. CASE Changes(feed'[x]) = i
    <3>1. head'[i] = Canonical(feed'[q]) /\ q >= x
      BY <1>2, <1>3, <1>4, <1>5
    <3> QED
      BY <2>1, <3>1, <1>4
  <2>2. CASE Changes(feed'[x]) # i
    <3>1. x \in DOMAIN feed /\ feed'[x] = feed[x] /\ Changes(feed[x]) \in Item
      BY <2>2, <1>2, <1>4
    <3>2. PICK p \in DOMAIN feed : p >= x /\ head[Changes(feed[x])] = Canonical(feed[p])
      BY <3>1 DEF FollowInv, HeadIsLast
    <3>3. head'[Changes(feed[x])] = head[Changes(feed[x])]
      BY <2>2, <3>1, <1>2, <1>3
    <3> QED
      BY <3>1, <3>2, <3>3, <1>4
  <2> QED
    BY <2>1, <2>2
<1>7. ASSUME NEW d \in Device  PROVE Follows(d)'
  <2>1. /\ outbox' = outbox /\ view' = view /\ cursor' = cursor /\ pass' = pass
        /\ Follows(d) /\ PassOK(d)
    BY DeviceParts DEF deviceVars, FollowInv
  <2>2. cursor[d] < q /\ CursorOK(d)'
    BY <1>4, <1>5, <2>1 DEF Follows, Steady, CursorOK
  <2>3. AheadOK(d)'
    BY <1>4, <2>1, <2>2 DEF Follows, Steady, AheadOK, Rows
  <2>4. CurrentOK(d)'
    <3> SUFFICES ASSUME NEW x \in DOMAIN feed', x <= cursor[d],
                        view[d][Changes(feed'[x])].revision[1] # "local"
                 PROVE  \E p \in DOMAIN feed' :
                           p >= x /\ view[d][Changes(feed'[x])].revision = Canonical(feed'[p])
      BY <2>1 DEF CurrentOK, Changes, Canonical
    <3>1. x \in DOMAIN feed /\ feed'[x] = feed[x]
      <4>1. cursor[d] \in Nat
        BY <1>5, <2>1 DEF Follows, Steady, CursorOK
      <4>2. x # q
        BY <1>5, <2>2, <4>1
      <4> QED
        BY <4>2, <1>4
    <3>2. PICK p \in DOMAIN feed : p >= x /\ view[d][Changes(feed[x])].revision = Canonical(feed[p])
      BY <3>1, <2>1 DEF Follows, Steady, CurrentOK
    <3> QED
      BY <3>1, <3>2, <1>4
  <2>5. SendingOK(d)'
    BY <2>1 DEF Follows, SendingOK, Rows
  <2>6. PageOK(d)'
    <3> SUFFICES ASSUME pass[d].phase = "apply", NEW x \in pass[d].page
                 PROVE  /\ cursor[d] < x
                        /\ \E p \in DOMAIN feed' :
                              p >= x /\ pass[d].items[Changes(feed'[x])].revision = Canonical(feed'[p])
                        /\ \A y \in DOMAIN feed' : cursor[d] < y /\ y <= x => y \in pass[d].page
      BY <2>1 DEF PageOK, Changes, Canonical
    <3>1. x \in DOMAIN feed /\ feed'[x] = feed[x]
      BY <1>4, <2>1 DEF PassOK, ApplyOK
    <3>2. /\ cursor[d] < x
          /\ \E p \in DOMAIN feed : p >= x /\ pass[d].items[Changes(feed[x])].revision = Canonical(feed[p])
          /\ \A y \in DOMAIN feed : cursor[d] < y /\ y <= x => y \in pass[d].page
      BY <2>1 DEF Follows, PageOK
    <3>3. PICK p \in DOMAIN feed : p >= x /\ pass[d].items[Changes(feed[x])].revision = Canonical(feed[p])
      BY <3>2
    <3>4. ~(q <= x)
      BY <3>1, <1>5
    <3> QED
      BY <3>1, <3>2, <3>3, <3>4, <1>4
  <2> QED
    BY <2>2, <2>3, <2>4, <2>5, <2>6 DEF Follows, Steady
<1> QED
  BY <1>6, <1>7

(* A device that does nothing, or only moves its pass.                       *)
LEMMA QuietFollows ==
    ASSUME NEW d \in Device, Follows(d), feed' = feed,
           outbox'[d] = outbox[d], view'[d] = view[d], cursor'[d] = cursor[d],
           \/ pass'[d].phase = "idle"
           \/ pass[d].phase # "idle" /\ Underway(pass'[d]) = Underway(pass[d])
           \/ pass'[d] = pass[d],
           pass'[d].phase # "apply" \/ pass'[d] = pass[d]
    PROVE  Follows(d)'
<1>1. Rows(d)' = Rows(d)
  BY DEF Rows, ToSet
<1>2. Steady(d)'
  BY <1>1 DEF Follows, Steady, AheadOK, CursorOK, CurrentOK
<1>3. SendingOK(d)'
  <2>1. CASE pass'[d].phase = "idle"
    <3>1. Underway(pass'[d]) = << >> /\ Ids(<< >>) = {}
      BY <2>1 DEF Underway, Ids
    <3> QED
      BY <2>1, <3>1 DEF SendingOK
  <2>2. CASE pass[d].phase # "idle" /\ Underway(pass'[d]) = Underway(pass[d])
    BY <1>1, <2>2 DEF Follows, SendingOK, Underway, Ids
  <2>3. CASE pass'[d] = pass[d]
    BY <1>1, <2>3 DEF Follows, SendingOK, Underway, Ids
  <2> QED
    BY <2>1, <2>2, <2>3
<1>4. PageOK(d)'
  BY DEF Follows, PageOK
<1> QED
  BY <1>2, <1>3, <1>4 DEF Follows

RowsMarked(d, ids, s) ==
    \A row \in Rows(d)' : \E old \in Rows(d) :
        /\ row.id = old.id
        /\ row.status = IF old.id \in ids THEN s ELSE old.status

(* Rows whose status is changed remain the same work.                        *)
LEMMA MarkedRows ==
    ASSUME NEW d \in Device, outbox \in [Device -> Seq(QueuedRow)], NEW ids, NEW s,
           outbox' = [outbox EXCEPT ![d] = Marked(@, ids, s)]
    PROVE  RowsMarked(d, ids, s)
<1>1. PICK rows : rows = outbox[d]
  OBVIOUS
<1>2. outbox'[d] = Marked(rows, ids, s) /\ rows \in Seq(QueuedRow)
  BY <1>1
<1>3. \A k \in DOMAIN rows : rows[k] \in QueuedRow
  BY <1>2, ElementOfSeq
<1>4. ASSUME NEW k \in DOMAIN rows
      PROVE  /\ Marked(rows, ids, s)[k].id = rows[k].id
             /\ Marked(rows, ids, s)[k].status = IF rows[k].id \in ids THEN s ELSE rows[k].status
  BY <1>3 DEF Marked, QueuedRow
<1>5. DOMAIN Marked(rows, ids, s) = DOMAIN rows
  BY DEF Marked
<1>6. SUFFICES ASSUME NEW row \in Rows(d)'
               PROVE  \E old \in Rows(d) : /\ row.id = old.id
                                           /\ row.status = IF old.id \in ids THEN s ELSE old.status
  BY DEF RowsMarked
<1>7. PICK k \in DOMAIN rows : row = Marked(rows, ids, s)[k]
  BY <1>2, <1>5 DEF Rows, ToSet
<1>8. rows[k] \in Rows(d)
  BY <1>1 DEF Rows, ToSet
<1> QED
  BY <1>4, <1>7, <1>8

(* Nothing that was set aside comes back.                                    *)
LEMMA MarkedSteady ==
    ASSUME SyncInv, NEW d \in Device, Steady(d), UNCHANGED <<feed, view, cursor>>, NEW ids, NEW s,
           outbox' = [outbox EXCEPT ![d] = Marked(@, ids, s)],
           s = "blocked" \/ \A old \in Rows(d) : old.id \in ids => old.status # "blocked"
    PROVE  Steady(d)'
<1>1. \A row \in Rows(d)' : \E old \in Rows(d) :
         row.id = old.id /\ (row.status # "blocked" => old.status # "blocked")
  <2>1. \A row \in Rows(d)' : \E old \in Rows(d) :
           row.id = old.id /\ row.status = IF old.id \in ids THEN s ELSE old.status
    <3>1. outbox \in [Device -> Seq(QueuedRow)]
      BY DEF SyncInv
    <3>2. RowsMarked(d, ids, s)
      BY <3>1, MarkedRows
    <3> QED
      BY <3>2 DEF RowsMarked
  <2> QED
    BY <2>1
<1>2. AheadOK(d)'
  BY <1>1 DEF Steady, AheadOK
<1> QED
  BY <1>2 DEF Steady, CursorOK, CurrentOK

(* A pass that begins takes back what the last one left in flight.           *)
LEMMA BeginFollows ==
    ASSUME SyncInv, NEW d \in Device, Follows(d), Begin(d)
    PROVE  Follows(d)'
<1>1. PICK ids : ids = {r.id : r \in {q \in Rows(d) : q.status = "sending"}}
  OBVIOUS
<1>2. /\ UNCHANGED <<feed, view, cursor>> /\ pass' = [pass EXCEPT ![d] = Submitting({})]
      /\ outbox' = [outbox EXCEPT ![d] = Marked(@, ids, "pending")]
  BY <1>1 DEF Begin, feedVars, Rows
<1>3. \A old \in Rows(d) : old.id \in ids <=> old.status = "sending"
  <2>1. \A r, q \in Rows(d) : r.id = q.id => r = q
    BY DeviceParts DEF RowsOK, Distinct, Rows, ToSet
  <2> QED
    BY <1>1, <2>1
<1>4. Steady(d)'
  BY <1>2, <1>3, MarkedSteady DEF Follows
<1>5. \A row \in Rows(d)' : row.status # "sending"
  <2>1. \A row \in Rows(d)' : \E old \in Rows(d) :
           row.id = old.id /\ row.status = IF old.id \in ids THEN "pending" ELSE old.status
    <3>1. outbox \in [Device -> Seq(QueuedRow)]
      BY DEF SyncInv
    <3>2. RowsMarked(d, ids, "pending")
      BY <1>2, <3>1, MarkedRows
    <3> QED
      BY <3>2 DEF RowsMarked
  <2> QED
    BY <1>3, <2>1
<1>6. pass'[d].phase = "submit"
  BY <1>2 DEF SyncInv, Submitting
<1>7. SendingOK(d)'
  <2>1. Underway(pass'[d]) = << >> /\ Ids(<< >>) = {}
    BY <1>6 DEF Underway, Ids
  <2> QED
    BY <1>5, <2>1 DEF SendingOK
<1> QED
  BY <1>4, <1>6, <1>7 DEF Follows, PageOK

LEMMA SubmitFollows ==
    ASSUME SyncInv, NEW d \in Device, Follows(d), Submit(d)
    PROVE  Follows(d)'
<1>1. PICK order \in InOrder(CausalBatch(outbox[d])) :
         LET batch == [k \in DOMAIN order |-> outbox[d][order[k]]]
         IN  /\ outbox' = [outbox EXCEPT ![d] = Marked(@, Ids(batch), "sending")]
             /\ pass' = [pass EXCEPT ![d] =
                           [phase |-> "wait", merged |-> @.merged, batch |-> batch,
                            todo |-> [k \in DOMAIN batch |-> Sent(batch[k])], results |-> << >>]]
  BY DEF Submit
<1>2. PICK batch : batch = [k \in DOMAIN order |-> outbox[d][order[k]]]
  OBVIOUS
<1>3. PICK ids : ids = Ids(batch)
  OBVIOUS
<1>4. /\ UNCHANGED <<feed, view, cursor>> /\ pass[d].phase = "submit" /\ Pending(outbox[d]) # {}
      /\ outbox' = [outbox EXCEPT ![d] = Marked(@, ids, "sending")]
  BY <1>1, <1>2, <1>3 DEF Submit, feedVars
<1>5. pass'[d].phase = "wait" /\ pass'[d].batch = batch
  BY <1>1, <1>2 DEF SyncInv
<1>6. \A r, q \in Rows(d) : r.id = q.id => r = q
  BY DeviceParts DEF RowsOK, Distinct, Rows, ToSet
<1>7. \A k \in DOMAIN batch : batch[k] \in Rows(d) /\ batch[k].status = "pending"
  <2>1. DOMAIN order = DOMAIN batch /\ \A k \in DOMAIN order : order[k] \in DOMAIN outbox[d]
    BY <1>2, <1>4, DeviceParts, BatchIs
  <2>2. \A k \in DOMAIN order : order[k] \in CausalBatch(outbox[d])
    BY DEF InOrder
  <2>3. \A k \in DOMAIN order : order[k] \in Pending(outbox[d])
    BY <2>2 DEF CausalBatch
  <2> QED
    BY <1>2, <2>1, <2>3 DEF Rows, ToSet, Pending
<1>8. \A old \in Rows(d) : old.id \in ids => old.status = "pending"
  BY <1>3, <1>6, <1>7 DEF Ids
<1>9. Steady(d)'
  BY <1>4, <1>8, MarkedSteady DEF Follows
<1>10. \A old \in Rows(d) : old.status # "sending"
  <2>1. Underway(pass[d]) = << >> /\ Ids(<< >>) = {}
    BY <1>4 DEF Underway, Ids
  <2> QED
    BY <1>4, <2>1 DEF Follows, SendingOK
<1>11. \A row \in Rows(d)' : \E old \in Rows(d) :
          row.id = old.id /\ row.status = IF old.id \in ids THEN "sending" ELSE old.status
  <2>1. outbox \in [Device -> Seq(QueuedRow)]
    BY DEF SyncInv
  <2>2. RowsMarked(d, ids, "sending")
    BY <1>4, <2>1, MarkedRows
  <2> QED
    BY <2>2 DEF RowsMarked
<1>12. \A row \in Rows(d)' :
          (row.status = "sending" => row.id \in ids) /\ (row.id \in ids => row.status # "blocked")
  BY <1>10, <1>11
<1>13. SendingOK(d)'
  <2>1. Ids(Underway(pass'[d])) = ids
    BY <1>3, <1>5 DEF Underway
  <2> QED
    BY <1>12, <2>1 DEF SendingOK
<1> QED
  BY <1>5, <1>9, <1>13 DEF Follows, PageOK

LEMMA GiveUpFollows ==
    ASSUME SyncInv, NEW d \in Device, Follows(d), GiveUp(d)
    PROVE  Follows(d)'
<1>1. PICK ids : ids = Ids(pass[d].batch)
  OBVIOUS
<1>2. /\ UNCHANGED <<feed, view, cursor>> /\ pass[d].phase = "wait" /\ pass' = [pass EXCEPT ![d] = Idle]
      /\ outbox' = [outbox EXCEPT ![d] = Marked(@, ids, "pending")]
  BY <1>1 DEF GiveUp, feedVars
<1>3. \A old \in Rows(d) : old.id \in ids => old.status # "blocked"
  BY <1>1, <1>2 DEF Follows, SendingOK, Underway
<1>4. Steady(d)'
  BY <1>2, <1>3, MarkedSteady DEF Follows
<1>5. pass'[d].phase = "idle"
  BY <1>2 DEF SyncInv, Idle
<1>6. SendingOK(d)'
  <2>1. Underway(pass'[d]) = << >> /\ Ids(<< >>) = {}
    BY <1>5 DEF Underway, Ids
  <2> QED
    BY <1>5, <2>1 DEF SendingOK
<1> QED
  BY <1>4, <1>5, <1>6 DEF Follows, PageOK

LEMMA PauseFollows ==
    ASSUME SyncInv, NEW d \in Device, Follows(d), Crash(d) \/ Offline(d) \/ Answer(d) \/ Serve(d)
    PROVE  Follows(d)'
<1>1. outbox' = outbox /\ view' = view /\ cursor' = cursor
  BY DEF Crash, Offline, Answer, Serve
<1>2. feed' = feed
  <2>1. \A s : Accept(s) => feed' = feed
    BY DEF Accept
  <2>2. \A s, verdict : Answers(s, verdict) => feed' = feed
    BY DEF Answers, Refuse, WriteBlocked, feedVars
  <2>3. Serve(d) => feed' = feed
    BY <2>1, <2>2 DEF Serve
  <2> QED
    BY <2>3 DEF Crash, Offline, Answer, feedVars
<1>3. CASE Crash(d) \/ Offline(d)
  <2>1. pass'[d].phase = "idle"
    BY <1>3 DEF Crash, Offline, SyncInv, Idle
  <2> QED
    BY <1>1, <1>2, <2>1, QuietFollows
<1>4. CASE Answer(d)
  <2>1. pass[d].phase = "wait" /\ pass'[d].phase = "settle" /\ pass'[d].batch = pass[d].batch
    BY <1>4 DEF Answer, SyncInv
  <2>2. Underway(pass'[d]) = Underway(pass[d])
    BY <2>1 DEF Underway
  <2> QED
    BY <1>1, <1>2, <2>1, <2>2, QuietFollows
<1>5. CASE Serve(d)
  <2>1. pass'[d] = pass[d] \/ \E todo, results : pass'[d] = [pass[d] EXCEPT !.todo = todo, !.results = results]
    <3>1. CASE UNCHANGED pass
      BY <3>1
    <3>2. ASSUME NEW verdict,
                 pass' = [pass EXCEPT ![d].todo = Tail(@), ![d].results = Append(@, verdict)]
          PROVE  \E todo, results : pass'[d] = [pass[d] EXCEPT !.todo = todo, !.results = results]
      BY <3>2 DEF SyncInv
    <3> QED
      BY <1>5, <3>1, <3>2 DEF Serve
  <2>2. pass[d] \in WaitPass /\ pass[d].phase = "wait"
    BY <1>5, WaitIs DEF Serve
  <2>3. pass'[d].phase = "wait" /\ pass'[d].batch = pass[d].batch
    BY <2>1, <2>2 DEF WaitPass
  <2>4. Underway(pass'[d]) = Underway(pass[d])
    BY <2>2, <2>3 DEF Underway
  <2> QED
    BY <1>1, <1>2, <2>2, <2>3, <2>4, QuietFollows
<1> QED
  BY <1>3, <1>4, <1>5

(* A new identity is nowhere yet.                                            *)
LEMMA FreshIsNew ==
    ASSUME SyncInv, NEW e \in Edit
    PROVE  /\ \A q \in DOMAIN feed : feed[q] # Fresh(e)
           /\ \A d \in Device : \A row \in Rows(d) : row.id # Fresh(e)
<1>1. ServerInv /\ tries[e] \in Nat
  BY DEF SyncInv, ServerInv, TriesOK
<1>2. \A m : Issued(m) => m # Fresh(e)
  BY <1>1 DEF Issued, Fresh
<1>3. \A q \in DOMAIN feed : Issued(feed[q])
  BY <1>1, ContentsAreRevisions, AcceptedIs DEF ServerInv, ReceiptsOK
<1>4. \A d \in Device : \A row \in Rows(d) : Issued(row.id)
  BY DeviceParts DEF RowOK, Sound
<1> QED
  BY <1>2, <1>3, <1>4

(* The first row of a batch, and the others.                                 *)
LEMMA TailIds ==
    ASSUME NEW batch \in Seq(QueuedRow), batch # << >>, Distinct(batch)
    PROVE  /\ Ids(batch) = {Head(batch).id} \cup Ids(Tail(batch))
           /\ Head(batch).id \notin Ids(Tail(batch))
           /\ Len(batch) = 1 => Ids(Tail(batch)) = {}
<1>1. PICK tail : tail = Tail(batch)
  OBVIOUS
<1>2. PICK n : n = Len(batch)
  OBVIOUS
<1>3. /\ n \in Nat /\ n >= 1 /\ 1 \in DOMAIN batch /\ Head(batch) = batch[1]
      /\ DOMAIN batch = 1 .. n /\ DOMAIN tail = 1 .. n - 1
      /\ \A k \in 1 .. n - 1 : tail[k] = batch[k + 1] /\ k + 1 \in DOMAIN batch
  BY <1>1, <1>2, HeadIsFirst
<1>4. \A k \in 1 .. n : k = 1 \/ (k - 1 \in 1 .. n - 1 /\ (k - 1) + 1 = k)
  BY <1>3
<1>5. ASSUME NEW k \in 1 .. n, k # 1  PROVE batch[k].id \in Ids(tail)
  <2>1. k - 1 \in DOMAIN tail /\ tail[k - 1] = batch[k]
    BY <1>3, <1>4, <1>5
  <2> QED
    BY <2>1 DEF Ids
<1>6. \A x \in Ids(tail) : \E k \in 1 .. n : k # 1 /\ x = batch[k].id
  <2> SUFFICES ASSUME NEW h \in DOMAIN tail  PROVE \E k \in 1 .. n : k # 1 /\ tail[h].id = batch[k].id
    BY DEF Ids
  <2>1. h + 1 \in 1 .. n /\ h + 1 # 1 /\ tail[h] = batch[h + 1]
    BY <1>3
  <2> QED
    BY <2>1
<1>7. Head(batch).id \notin Ids(tail)
  BY <1>3, <1>6 DEF Distinct
<1>8. Ids(batch) = {Head(batch).id} \cup Ids(tail)
  <2>1. \A x \in Ids(batch) : \E k \in 1 .. n : x = batch[k].id
    BY <1>3 DEF Ids
  <2>2. \A k \in 1 .. n : batch[k].id \in Ids(batch)
    BY <1>3 DEF Ids
  <2>3. \A x \in Ids(batch) : x = Head(batch).id \/ x \in Ids(tail)
    BY <1>3, <1>5, <2>1
  <2>4. Head(batch).id \in Ids(batch) /\ Ids(tail) \subseteq Ids(batch)
    BY <1>3, <1>6, <2>2
  <2> QED
    BY <2>3, <2>4
<1>9. n = 1 => Ids(tail) = {}
  BY <1>6
<1> QED
  BY <1>1, <1>2, <1>7, <1>8, <1>9

\* A row that was settled, or one that was not.
Settled(d, row) ==
    \/ row.status # "sending" /\ row.id \notin Ids(Tail(pass[d].batch))
    \/ \E old \in Rows(d) :
          old.id = row.id /\ old.status = row.status /\ old.id # Head(pass[d].batch).id

(* What is left of a batch is still what is in flight.                       *)
LEMMA OnwardFollows ==
    ASSUME SyncInv, NEW d \in Device, pass[d].phase = "settle", SendingOK(d),
           NEW merged, Onward(d, merged), \A row \in Rows(d)' : Settled(d, row)
    PROVE  SendingOK(d)' /\ pass'[d].phase # "apply"
<1>1. PICK batch, results : batch = pass[d].batch /\ results = pass[d].results
  OBVIOUS
<1>2. PICK tail, first : tail = Ids(Tail(batch)) /\ first = Head(batch).id
  OBVIOUS
<1>3. /\ pass[d] \in SettlePass /\ Len(batch) = Len(results)
      /\ Ids(batch) = {first} \cup tail /\ first \notin tail
      /\ Len(batch) = 1 => tail = {}
  BY <1>1, <1>2, SettleIs, TailIds DEF SettleOK, BatchOK
<1>4. \A row \in Rows(d) : /\ row.status = "sending" => row.id \in Ids(batch)
                           /\ row.id \in Ids(batch) => row.status # "blocked"
  BY <1>1 DEF SendingOK, Underway
<1>5. \A row \in Rows(d)' :
         \/ row.status # "sending" /\ row.id \notin tail
         \/ \E old \in Rows(d) : old.id = row.id /\ old.status = row.status /\ old.id # first
  BY <1>1, <1>2 DEF Settled
<1>6. \A row \in Rows(d)' : /\ row.status = "sending" => row.id \in tail
                            /\ row.id \in tail => row.status # "blocked"
  BY <1>3, <1>4, <1>5
<1>7. pass'[d].phase # "apply" /\ Ids(Underway(pass'[d])) = tail
  <2>1. CASE Len(results) = 1
    <3>1. pass'[d] = Submitting(merged)
      BY <1>1, <2>1 DEF Onward, SyncInv
    <3>2. pass'[d].phase = "submit" /\ Ids(<< >>) = {}
      BY <3>1 DEF Submitting, Ids
    <3> QED
      BY <1>3, <2>1, <3>2 DEF Underway
  <2>2. CASE Len(results) # 1
    <3>1. pass' = [pass EXCEPT ![d] =
                     IF Len(pass[d].results) = 1 THEN Submitting(merged)
                     ELSE [pass[d] EXCEPT !.merged = merged, !.batch = Tail(pass[d].batch),
                                          !.results = Tail(pass[d].results)]]
      BY DEF Onward
    <3>2. pass'[d] = [pass[d] EXCEPT !.merged = merged, !.batch = Tail(batch), !.results = Tail(results)]
      BY <1>1, <2>2, <3>1 DEF SyncInv
    <3>3. pass'[d].phase = "settle" /\ pass'[d].batch = Tail(batch)
      BY <1>3, <3>2 DEF SettlePass
    <3> QED
      BY <1>2, <3>3 DEF Underway
  <2> QED
    BY <2>1, <2>2
<1>8. SendingOK(d)'
  BY <1>6, <1>7 DEF SendingOK
<1> QED
  BY <1>7, <1>8

LEMMA MarkBlockedFollows ==
    ASSUME SyncInv, NEW d \in Device, Follows(d), pass[d].phase = "settle",
           NEW row, row = Head(pass[d].batch), MarkBlocked(d, row), Onward(d, pass[d].merged),
           UNCHANGED <<feedVars, cursor, late>>
    PROVE  Follows(d)'
<1>1. /\ outbox' = [outbox EXCEPT ![d] = Marked(@, {row.id}, "blocked")]
      /\ UNCHANGED <<feed, view, cursor>>
  BY DEF MarkBlocked, feedVars
<1>2. Steady(d)'
  BY <1>1, MarkedSteady DEF Follows
<1>3. RowsMarked(d, {row.id}, "blocked")
  <2>1. outbox \in [Device -> Seq(QueuedRow)]
    BY DEF SyncInv
  <2> QED
    BY <1>1, <2>1, MarkedRows
<1>4. row.id \notin Ids(Tail(pass[d].batch))
  BY SettleIs, TailIds DEF SettleOK, BatchOK
<1>5. \A new \in Rows(d)' : Settled(d, new)
  BY <1>3, <1>4 DEF RowsMarked, Settled
<1>6. SendingOK(d)' /\ pass'[d].phase # "apply"
  BY <1>5, OnwardFollows DEF Follows
<1> QED
  BY <1>2, <1>6 DEF Follows, PageOK

LEMMA CaptureFollows ==
    ASSUME SyncInv, NEW d \in Device, Follows(d), pass[d].phase = "settle",
           NEW row, NEW k, NEW verdict, Answered(d, row, k, verdict),
           CaptureConflict(d, row, verdict), Onward(d, pass[d].merged),
           UNCHANGED <<feedVars, cursor, late>>
    PROVE  Follows(d)'
<1>1. /\ outbox' = [outbox EXCEPT ![d] = Without(@, row.id)]
      /\ UNCHANGED <<feed, view, cursor>>
  BY DEF CaptureConflict, feedVars
<1>2. \A new \in Rows(d)' : new \in Rows(d) /\ new.id # row.id
  <2>1. PICK rest : rest = Without(outbox[d], row.id)
    OBVIOUS
  <2>2. \A r \in ToSet(rest) : r \in Rows(d) /\ r.id # row.id
    BY <2>1, DeviceParts, RowGoes DEF RowsOK, Answered
  <2>3. outbox'[d] = rest
    BY <1>1, <2>1 DEF SyncInv
  <2> QED
    BY <2>2, <2>3 DEF Rows
<1>3. Steady(d)'
  BY <1>1, <1>2 DEF Follows, Steady, AheadOK, CursorOK, CurrentOK
<1>4. \A new \in Rows(d)' : Settled(d, new)
  BY <1>2 DEF Settled, Answered
<1>5. SendingOK(d)' /\ pass'[d].phase # "apply"
  BY <1>4, OnwardFollows DEF Follows
<1> QED
  BY <1>3, <1>5 DEF Follows, PageOK

(* The revision that takes its canonical name is of a change the cursor has  *)
(* not come to.                                                              *)
LEMMA AcknowledgeFollows ==
    ASSUME SyncInv, NEW d \in Device, Follows(d), pass[d].phase = "settle",
           NEW row, NEW k, NEW verdict, Answered(d, row, k, verdict),
           verdict.verdict = "accepted",
           Acknowledge(d, row), Onward(d, pass[d].merged),
           UNCHANGED <<feedVars, cursor, late>>
    PROVE  Follows(d)'
<1>1. PICK rest : rest = Without(outbox[d], row.id)
  OBVIOUS
<1> DEFINE rows == [j \in DOMAIN rest |->
                      [rest[j] EXCEPT !.base = Renamed(rest[j].base, row.local, Canonical(row.id))]]
           shown == [i \in Item |->
                       [view[d][i] EXCEPT !.revision =
                           IF view[d][i].revision = row.local THEN Canonical(row.id)
                           ELSE view[d][i].revision]]
<1>2. /\ outbox' = [outbox EXCEPT ![d] = rows] /\ view' = [view EXCEPT ![d] = shown]
      /\ UNCHANGED <<feed, cursor>>
  BY <1>1 DEF Acknowledge, Renamed, feedVars
<1>3. \A new \in Rows(d)' : \E old \in Rows(d) :
         old.id = new.id /\ old.status = new.status /\ old.id # row.id
  <2>1. \A r \in ToSet(rest) : r \in Rows(d) /\ r.id # row.id /\ r \in QueuedRow
    BY <1>1, DeviceParts, RowGoes DEF RowsOK, Answered
  <2>2. \A j \in DOMAIN rest : rest[j] \in ToSet(rest)
    BY DEF ToSet
  <2>3. \A j \in DOMAIN rows : rows[j].id = rest[j].id /\ rows[j].status = rest[j].status
    BY <2>1, <2>2 DEF QueuedRow
  <2>4. outbox'[d] = rows /\ DOMAIN rows = DOMAIN rest
    BY <1>2 DEF SyncInv
  <2>5. \A new \in Rows(d)' : \E j \in DOMAIN rest : new = rows[j]
    BY <2>4 DEF Rows, ToSet
  <2> QED
    BY <2>1, <2>2, <2>3, <2>5
<1> HIDE DEF rows
<1>4. AheadOK(d)'
  BY <1>2, <1>3 DEF Follows, Steady, AheadOK
<1>5. PICK p \in DOMAIN feed : feed[p] = row.id /\ cursor[d] < p
  <2>1. row.id \in Accepted /\ outbox[d][k] \in Rows(d) /\ outbox[d][k].id = row.id
    BY AcceptedIs DEF Answered, Blocked, Rows, ToSet
  <2>2. \E p \in DOMAIN feed : feed[p] = row.id
    BY <2>1 DEF SyncInv, ServerInv, ChangesOK
  <2>3. row.id \in Ids(Underway(pass[d]))
    <3>1. Underway(pass[d]) = pass[d].batch /\ row.id \in Ids(pass[d].batch)
      BY SettleIs, TailIds DEF SettleOK, BatchOK, Underway, Answered
    <3> QED
      BY <3>1
  <2>4. outbox[d][k].status # "blocked"
    BY <2>1, <2>3 DEF Follows, SendingOK
  <2> QED
    BY <2>1, <2>2, <2>4 DEF Follows, Steady, AheadOK
<1>6. /\ cursor[d] \in Nat
      /\ \A q \in DOMAIN feed : q \in Nat /\ Changes(feed[q]) \in Item
  BY ContentsAreRevisions DEF SyncInv
<1>7. \A i \in Item : view[d][i] \in Shown
  BY DEF SyncInv
<1>8. CurrentOK(d)'
  <2> SUFFICES ASSUME NEW q \in DOMAIN feed, q <= cursor[d],
                      shown[Changes(feed[q])].revision[1] # "local"
               PROVE  \E x \in DOMAIN feed :
                         x >= q /\ shown[Changes(feed[q])].revision = Canonical(feed[x])
    <3>1. view'[d] = shown /\ feed' = feed /\ cursor' = cursor
      BY <1>2 DEF SyncInv
    <3> HIDE DEF shown
    <3> QED
      BY <3>1 DEF CurrentOK, Changes, Canonical
  <2>1. PICK i : i = Changes(feed[q])
    OBVIOUS
  <2>2. i \in Item /\ view[d][i] \in Shown
    BY <1>6, <1>7, <2>1
  <2>3. CASE view[d][i].revision = row.local
    <3>1. shown[i].revision = Canonical(feed[p])
      BY <1>5, <2>2, <2>3 DEF Shown
    <3>2. p >= q
      BY <1>5, <1>6
    <3> QED
      BY <2>1, <3>1, <3>2
  <2>4. CASE view[d][i].revision # row.local
    <3>1. shown[i].revision = view[d][i].revision
      BY <2>2, <2>4 DEF Shown
    <3> QED
      BY <2>1, <3>1 DEF Follows, Steady, CurrentOK
  <2> QED
    BY <2>3, <2>4
<1>9. Steady(d)'
  BY <1>2, <1>4, <1>8 DEF Follows, Steady, CursorOK
<1>10. \A new \in Rows(d)' : Settled(d, new)
  BY <1>3 DEF Settled, Answered
<1>11. SendingOK(d)' /\ pass'[d].phase # "apply"
  BY <1>10, OnwardFollows DEF Follows
<1> QED
  BY <1>9, <1>11 DEF Follows, PageOK

(* A merged edit has an identity the feed does not know.                     *)
LEMMA RequeueFollows ==
    ASSUME SyncInv, NEW d \in Device, Follows(d), pass[d].phase = "settle",
           NEW row, NEW k, NEW verdict, Answered(d, row, k, verdict),
           Requeue(d, row, verdict), Onward(d, pass[d].merged \cup {Fresh(row.id[1])}),
           UNCHANGED <<feedVars, cursor, late>>
    PROVE  Follows(d)'
<1>1. PICK fresh : fresh = Fresh(row.id[1])
  OBVIOUS
<1>2. PICK pair \in Comparisons(row.base, verdict.competing) :
         outbox' = [outbox EXCEPT ![d] =
                      [j \in DOMAIN @ |->
                         IF @[j].id # row.id THEN @[j]
                         ELSE [@[j] EXCEPT !.id = fresh, !.status = "pending",
                                 !.payload = Merge(contents[pair[1]], row.payload, contents[pair[2]]),
                                 !.base = {pair[2]}]]]
  BY <1>1 DEF Requeue
<1>3. PICK payload, base : /\ payload = Merge(contents[pair[1]], row.payload, contents[pair[2]])
                           /\ base = {pair[2]}
  OBVIOUS
<1>4. PICK rows : rows = outbox[d]
  OBVIOUS
<1> DEFINE merged(r) == [r EXCEPT !.id = fresh, !.status = "pending", !.payload = payload, !.base = base]
           new == [j \in DOMAIN rows |-> IF rows[j].id # row.id THEN rows[j] ELSE merged(rows[j])]
<1>5. outbox'[d] = new /\ UNCHANGED <<feed, view, cursor>>
  BY <1>2, <1>3, <1>4 DEF Requeue, feedVars, SyncInv
<1>6. rows \in Seq(QueuedRow) /\ \A j \in DOMAIN rows : rows[j] \in QueuedRow /\ rows[j] \in Rows(d)
  BY <1>4, DeviceParts DEF Rows, ToSet
<1>7. \A j \in DOMAIN rows : merged(rows[j]).id = fresh /\ merged(rows[j]).status = "pending"
  BY <1>6 DEF QueuedRow
<1> HIDE DEF merged
<1>8. \A r \in Rows(d)' : \/ r.id = fresh /\ r.status = "pending"
                          \/ r \in Rows(d) /\ r.id # row.id
  <2>1. \A r \in Rows(d)' : \E j \in DOMAIN rows : r = new[j]
    BY <1>5 DEF Rows, ToSet
  <2> QED
    BY <1>6, <1>7, <2>1
<1>9. row.id[1] \in Edit
  BY MutationIs DEF Answered, QueuedRow
<1>10. AheadOK(d)'
  BY <1>1, <1>5, <1>8, <1>9, FreshIsNew DEF Follows, Steady, AheadOK
<1>11. Steady(d)'
  BY <1>5, <1>10 DEF Follows, Steady, CursorOK, CurrentOK
<1>12. fresh \notin Ids(Tail(pass[d].batch))
  <2>1. \A j \in DOMAIN pass[d].batch : \E r \in Rows(d) : r.id = pass[d].batch[j].id
    BY SettleIs DEF SettleOK, BatchOK
  <2>2. fresh \notin Ids(pass[d].batch)
    BY <1>1, <1>9, <2>1, FreshIsNew DEF Ids
  <2> QED
    BY <2>2, SettleIs, TailIds DEF SettleOK, BatchOK
<1>13. \A r \in Rows(d)' : Settled(d, r)
  BY <1>8, <1>12 DEF Settled, Answered
<1>14. SendingOK(d)' /\ pass'[d].phase # "apply"
  BY <1>13, OnwardFollows DEF Follows
<1> QED
  BY <1>11, <1>14 DEF Follows, PageOK

LEMMA SettleFollows ==
    ASSUME SyncInv, NEW d \in Device, Follows(d), Settle(d)
    PROVE  Follows(d)'
<1>1. pass[d].phase = "settle" /\ UNCHANGED <<feedVars, cursor, late>>
  BY DEF Settle
<1>2. PICK row, verdict : row = Head(pass[d].batch) /\ verdict = Head(pass[d].results)
  OBVIOUS
<1>3. PICK k \in DOMAIN outbox[d] : Answered(d, row, k, verdict)
  BY <1>1, <1>2, HeadIsAnswered
<1>4. CASE verdict.verdict = "accepted" /\ Acknowledge(d, row) /\ Onward(d, pass[d].merged)
  BY <1>1, <1>3, <1>4, AcknowledgeFollows
<1>5. CASE Requeue(d, row, verdict) /\ Onward(d, pass[d].merged \cup {Fresh(row.id[1])})
  BY <1>1, <1>3, <1>5, RequeueFollows
<1>6. CASE CaptureConflict(d, row, verdict) /\ Onward(d, pass[d].merged)
  BY <1>1, <1>3, <1>6, CaptureFollows
<1>7. CASE MarkBlocked(d, row) /\ Onward(d, pass[d].merged)
  BY <1>1, <1>2, <1>7, MarkBlockedFollows
<1> QED
  BY <1>2, <1>4, <1>5, <1>6, <1>7 DEF Settle

(* A page is listed whole from the cursor on, with the items as they are.    *)
LEMMA ListFollows ==
    ASSUME SyncInv, HeadIsLast, NEW d \in Device, Follows(d), List(d)
    PROVE  Follows(d)'
<1> DEFINE listed == {q \in ChangesAfter(cursor[d]) :
                        Cardinality({p \in ChangesAfter(cursor[d]) : p < q}) < PageLimit}
<1>1. PICK page : page = listed
  OBVIOUS
<1>2. PICK items : items = [i \in {Changes(feed[q]) : q \in page} |->
                              [revision |-> head[i], content |-> contents[head[i]]]]
  OBVIOUS
<1>3. /\ outbox' = outbox /\ view' = view /\ cursor' = cursor /\ feed' = feed /\ CatchesUp(d)
      /\ \E more : pass' = [pass EXCEPT ![d] = [phase |-> "apply", page |-> page, items |-> items, more |-> more]]
  BY <1>1, <1>2 DEF List, feedVars
<1>4. pass'[d].phase = "apply" /\ pass'[d].page = page /\ pass'[d].items = items
  BY <1>3 DEF SyncInv
<1>5. cursor[d] \in Nat /\ drawn \in Nat /\ DOMAIN feed \subseteq 1 .. drawn
  BY ContentsAreRevisions DEF SyncInv
<1>6. Steady(d)'
  BY <1>3 DEF Follows, Steady, AheadOK, CursorOK, CurrentOK, Rows
<1>7. SendingOK(d)'
  <2>1. pass[d].phase \notin {"idle", "wait", "settle"}
    BY <1>3 DEF CatchesUp
  <2>2. Underway(pass[d]) = << >> /\ Underway(pass'[d]) = << >>
    BY <1>4, <2>1 DEF Underway
  <2>3. Rows(d)' = Rows(d)
    BY <1>3 DEF Rows
  <2> QED
    BY <2>1, <2>2, <2>3 DEF Follows, SendingOK, Ids
<1>8. ASSUME NEW x \in page
      PROVE  /\ cursor[d] < x
             /\ \E p \in DOMAIN feed : p >= x /\ items[Changes(feed[x])].revision = Canonical(feed[p])
             /\ \A q \in DOMAIN feed : cursor[d] < q /\ q <= x => q \in page
  <2>1. x \in DOMAIN feed /\ cursor[d] < x
    BY <1>1, <1>5 DEF ChangesAfter
  <2>2. items[Changes(feed[x])].revision = head[Changes(feed[x])]
    BY <1>2
  <2>3. ASSUME NEW q \in DOMAIN feed, cursor[d] < q, q <= x  PROVE q \in page
    <3>1. PICK before, through : /\ before = {p \in ChangesAfter(cursor[d]) : p < q}
                                 /\ through = {p \in ChangesAfter(cursor[d]) : p < x}
      OBVIOUS
    <3>2. before \subseteq through /\ through \subseteq 1 .. drawn
      BY <1>5, <2>1, <2>3, <3>1 DEF ChangesAfter
    <3>3. IsFiniteSet(through)
      <4>1. IsFiniteSet(1 .. drawn)
        BY <1>5, FS_Interval
      <4> QED
        BY <3>2, <4>1, FS_Subset
    <3>4. /\ IsFiniteSet(before) /\ Cardinality(before) <= Cardinality(through)
      BY <3>2, <3>3, FS_Subset
    <3>5. Cardinality(before) \in Nat /\ Cardinality(through) \in Nat
      BY <3>3, <3>4, FS_CardinalityType
    <3>6. Cardinality(through) < PageLimit /\ PageLimit \in Nat
      BY <1>1, <3>1, SyncAssumption
    <3>7. Cardinality(before) < PageLimit
      BY <3>4, <3>5, <3>6
    <3>8. q \in ChangesAfter(cursor[d])
      BY <1>5, <2>3 DEF ChangesAfter
    <3> QED
      BY <1>1, <3>1, <3>7, <3>8
  <2> QED
    BY <2>1, <2>2, <2>3 DEF HeadIsLast
<1>9. PageOK(d)'
  BY <1>3, <1>4, <1>8 DEF PageOK, Changes, Canonical
<1> QED
  BY <1>6, <1>7, <1>9 DEF Follows

(* A page is applied from its first change on.                               *)
LEMMA InstallFollows ==
    ASSUME SyncInv, NEW d \in Device, Follows(d), pass[d].phase = "apply", Pending(outbox[d]) = {},
           NEW part \in SUBSET pass[d].page,
           \A x \in part : \A y \in pass[d].page : y <= x => y \in part,
           Install(d, part), UNCHANGED <<feed, outbox>>
    PROVE  Steady(d)'
<1>1. /\ view'[d] = Refreshed(d, part)
      /\ cursor'[d] = Max(part \cup {cursor[d]})
  BY DEF Install, SyncInv
<1>2. /\ part \subseteq DOMAIN feed /\ pass[d].page \subseteq DOMAIN feed
      /\ cursor[d] \in 0 .. drawn /\ drawn \in Nat /\ cursor[d] \in DOMAIN feed \cup {0}
      /\ \A q \in DOMAIN feed : q \in 1 .. drawn /\ Changes(feed[q]) \in Item
  BY DeviceParts, ContentsAreRevisions DEF PassOK, ApplyOK, ViewOK, Follows, Steady, CursorOK
<1>3. PICK last : last = Max(part \cup {cursor[d]})
  OBVIOUS
<1>4. last \in part \cup {cursor[d]} /\ \A x \in part \cup {cursor[d]} : x <= last
  <2>1. part \cup {cursor[d]} \in SUBSET (0 .. drawn)
    BY <1>2
  <2> QED
    BY <1>2, <1>3, <2>1, MaxIsIn
<1>5. AheadOK(d)'
  <2>1. \A row \in Rows(d) : row.status = "blocked"
    <3>1. Underway(pass[d]) = << >> /\ Ids(<< >>) = {}
      BY DEF Underway, Ids
    <3>2. \A row \in Rows(d) : row.status # "sending"
      BY <3>1 DEF Follows, SendingOK
    <3>3. \A row \in Rows(d) : row.status # "pending"
      BY DEF Rows, ToSet, Pending
    <3>4. \A row \in Rows(d) : row.status \in {"pending", "sending", "blocked"}
      BY DeviceParts DEF QueuedRow
    <3> QED
      BY <3>2, <3>3, <3>4
  <2> QED
    BY <2>1 DEF AheadOK, Rows
<1>6. CursorOK(d)'
  BY <1>1, <1>2, <1>3, <1>4 DEF CursorOK
<1>7. ASSUME NEW q \in DOMAIN feed, q <= last
      PROVE  LET shown == Refreshed(d, part)[Changes(feed[q])].revision
             IN  \/ shown[1] = "local"
                 \/ \E p \in DOMAIN feed : p >= q /\ shown = Canonical(feed[p])
  <2>1. CASE \E x \in part : Changes(feed[x]) = Changes(feed[q]) /\ q <= x
    <3>1. PICK x \in part : Changes(feed[x]) = Changes(feed[q]) /\ q <= x
      BY <2>1
    <3>2. Refreshed(d, part)[Changes(feed[q])] = pass[d].items[Changes(feed[x])]
      BY <1>2, <3>1 DEF Refreshed
    <3>3. PICK p \in DOMAIN feed :
             p >= x /\ pass[d].items[Changes(feed[x])].revision = Canonical(feed[p])
      BY DEF Follows, PageOK
    <3>4. p >= q
      BY <1>2, <3>1, <3>3
    <3> QED
      BY <3>2, <3>3, <3>4
  <2>2. CASE ~ \E x \in part : Changes(feed[x]) = Changes(feed[q]) /\ q <= x
    <3>1. q <= cursor[d]
      <4> SUFFICES ASSUME cursor[d] < q  PROVE FALSE
        BY <1>2
      <4>1. last \in part
        BY <1>2, <1>4, <1>7
      <4>2. q \in part
        BY <1>7, <4>1 DEF Follows, PageOK
      <4> QED
        BY <1>2, <2>2, <4>2
    <3>2. \A x \in part : cursor[d] < x
      BY DEF Follows, PageOK
    <3>3. ~ \E x \in part : Changes(feed[x]) = Changes(feed[q])
      BY <1>2, <2>2, <3>1, <3>2
    <3>4. Refreshed(d, part)[Changes(feed[q])] = view[d][Changes(feed[q])]
      BY <1>2, <3>3 DEF Refreshed
    <3> QED
      BY <3>1, <3>4 DEF Follows, Steady, CurrentOK
  <2> QED
    BY <2>1, <2>2
<1>8. CurrentOK(d)'
  <2>1. PICK shown : shown = Refreshed(d, part)
    OBVIOUS
  <2>2. view'[d] = shown /\ cursor'[d] = last /\ feed' = feed
    BY <1>1, <1>3, <2>1
  <2> QED
    BY <1>7, <2>1, <2>2 DEF CurrentOK, Changes, Canonical
<1> QED
  BY <1>5, <1>6, <1>8 DEF Steady

LEMMA ApplyFollows ==
    ASSUME SyncInv, NEW d \in Device, Follows(d), Apply(d) \/ CrashApplying(d)
    PROVE  Follows(d)'
<1>1. /\ UNCHANGED <<feed, outbox>> /\ pass[d].phase = "apply"
      /\ \E p \in {Idle, Listing} : pass' = [pass EXCEPT ![d] = p]
  <2>1. CASE Apply(d)
    <3>1. PICK more : more = pass[d].more
      OBVIOUS
    <3>2. \/ pass' = [pass EXCEPT ![d] = IF more THEN Listing ELSE Idle]
          \/ pass' = [pass EXCEPT ![d] = Idle]
      BY <2>1, <3>1 DEF Apply
    <3> QED
      BY <2>1, <3>2 DEF Apply, feedVars
  <2>2. CASE CrashApplying(d)
    BY <2>2 DEF CrashApplying, feedVars
  <2> QED
    BY <2>1, <2>2
<1>2. pass'[d].phase \in {"idle", "list"}
  BY <1>1 DEF SyncInv, Idle, Listing
<1>3. Steady(d)'
  <2>1. CASE Apply(d) /\ Pending(outbox[d]) = {}
    <3>1. Install(d, pass[d].page)
      BY <2>1 DEF Apply
    <3> QED
      BY <1>1, <2>1, <3>1, InstallFollows
  <2>2. CASE Apply(d) /\ Pending(outbox[d]) # {}
    BY <1>1, <2>2 DEF Apply, Follows, Steady, AheadOK, CursorOK, CurrentOK, Rows
  <2>3. CASE CrashApplying(d)
    <3>1. PICK next \in pass[d].page : Install(d, {q \in pass[d].page : q < next})
      BY <2>3 DEF CrashApplying
    <3>2. PICK part : part = {q \in pass[d].page : q < next}
      OBVIOUS
    <3>3. \A y \in pass[d].page : y \in Nat
      <4>1. ServerInv /\ ApplyOK(d)
        BY <1>1, DeviceParts DEF PassOK
      <4> QED
        BY <4>1, ContentsAreRevisions DEF ApplyOK
    <3>4. \A x \in part : \A y \in pass[d].page : y <= x => y \in part
      BY <3>2, <3>3
    <3>5. part \in SUBSET pass[d].page /\ Install(d, part) /\ Pending(outbox[d]) = {}
      BY <2>3, <3>1, <3>2 DEF CrashApplying
    <3> QED
      BY <1>1, <3>4, <3>5, InstallFollows
  <2> QED
    BY <2>1, <2>2, <2>3
<1>4. SendingOK(d)'
  <2>1. Underway(pass[d]) = << >> /\ Underway(pass'[d]) = << >> /\ Ids(<< >>) = {}
    BY <1>1, <1>2 DEF Underway, Ids
  <2> QED
    BY <1>1, <2>1 DEF Follows, SendingOK, Rows
<1> QED
  BY <1>2, <1>3, <1>4 DEF Follows, PageOK

(* Work that is queued takes the screen, under an identity the feed does not *)
(* know.                                                                     *)
LEMMA EnqueueFollows ==
    ASSUME SyncInv, NEW d \in Device, Follows(d), NEW e \in Edit, NEW row \in QueuedRow,
           row.id = Fresh(e), row.status = "pending", Enqueue(d, row), UNCHANGED <<feedVars, cursor>>,
           pass'[d] = pass[d] \/ pass'[d] = Idle
    PROVE  Follows(d)'
<1>1. PICK item, shown : /\ item = Changes(row.id)
                         /\ shown = [revision |-> row.local, content |-> row.payload]
  OBVIOUS
<1>2. /\ outbox'[d] = Append(outbox[d], row) /\ feed' = feed /\ cursor' = cursor
      /\ view' = [view EXCEPT ![d][item] = shown]
  BY <1>1 DEF Enqueue, SyncInv, feedVars
<1>3. view'[d] = [view[d] EXCEPT ![item] = shown] /\ view[d] \in [Item -> Shown]
  BY <1>2 DEF SyncInv
<1>4. \A new \in Rows(d)' : new \in Rows(d) \/ new = row
  <2>1. outbox[d] \in Seq(QueuedRow) /\ Distinct(outbox[d])
    BY DeviceParts DEF RowsOK
  <2>2. \A k \in DOMAIN outbox[d] : outbox[d][k].id # row.id
    BY FreshIsNew DEF Rows, ToSet
  <2>3. ToSet(Append(outbox[d], row)) = ToSet(outbox[d]) \cup {row}
    BY <2>1, <2>2, AppendIs
  <2> QED
    BY <1>2, <2>3 DEF Rows
<1>5. AheadOK(d)'
  BY <1>2, <1>4, FreshIsNew DEF Follows, Steady, AheadOK
<1>6. shown.revision[1] = "local"
  BY <1>1, RevisionsApart DEF QueuedRow
<1>7. CurrentOK(d)'
  <2> SUFFICES ASSUME NEW q \in DOMAIN feed, q <= cursor[d],
                      view'[d][Changes(feed[q])].revision[1] # "local"
               PROVE  \E x \in DOMAIN feed :
                         x >= q /\ view'[d][Changes(feed[q])].revision = Canonical(feed[x])
    BY <1>2 DEF CurrentOK, Changes, Canonical
  <2>1. Changes(feed[q]) \in Item
    BY ContentsAreRevisions DEF SyncInv
  <2>2. view'[d][Changes(feed[q])] = view[d][Changes(feed[q])]
    BY <1>3, <1>6, <2>1
  <2> QED
    BY <2>2 DEF Follows, Steady, CurrentOK
<1>8. Steady(d)'
  BY <1>2, <1>5, <1>7 DEF Follows, Steady, CursorOK
<1>9. SendingOK(d)' /\ PageOK(d)'
  <2>1. CASE pass'[d] = Idle
    <3>1. pass'[d].phase = "idle" /\ Underway(pass'[d]) = << >> /\ Ids(<< >>) = {}
      BY <2>1 DEF Idle, Underway, Ids
    <3> QED
      BY <3>1 DEF SendingOK, PageOK
  <2>2. CASE pass'[d] = pass[d]
    <3>1. SendingOK(d)'
      <4>1. Underway(pass'[d]) = Underway(pass[d])
        BY <2>2
      <4> QED
        BY <1>4, <2>2, <4>1 DEF Follows, SendingOK
    <3>2. PageOK(d)'
      BY <1>2, <2>2 DEF Follows, PageOK, Changes, Canonical
    <3> QED
      BY <3>1, <3>2
  <2> QED
    BY <2>1, <2>2
<1> QED
  BY <1>8, <1>9 DEF Follows

\* What the owner's choice queues.
Resolution(c, pair, choice) ==
    Row(Fresh(c.id[1]), {pair[1], pair[2]},
        [f \in Field |-> IF f \in Clash(contents[pair[1]], c.payload, contents[pair[2]]) THEN choice[f]
                         ELSE Merge(contents[pair[1]], c.payload, contents[pair[2]])[f]])

LEMMA EditFollows ==
    ASSUME SyncInv, NEW d \in Device, Follows(d), MakeEdit(d) \/ Resolve(d)
    PROVE  Follows(d)'
<1>1. ASSUME NEW e \in Edit, NEW base \in SUBSET Revision, NEW payload \in Content,
             tries[e] < MaxTries[e],
             Enqueue(d, Row(Fresh(e), base, payload)), UNCHANGED <<feedVars, cursor>>,
             pass'[d] = pass[d] \/ pass'[d] = Idle
      PROVE  Follows(d)'
  <2>1. PICK row : row = Row(Fresh(e), base, payload)
    OBVIOUS
  <2>2. Fresh(e) \in Mutation
    <3>1. tries[e] \in Nat /\ MaxTries[e] \in Nat
      BY TriesBound DEF SyncInv
    <3>2. tries[e] + 1 \in 1 .. MaxTries[e]
      BY <1>1, <3>1
    <3> QED
      BY <3>2, MutationIs DEF Fresh
  <2>3. row \in QueuedRow /\ row.id = Fresh(e) /\ row.status = "pending"
    BY <2>1, <2>2 DEF Row, QueuedRow
  <2> QED
    BY <1>1, <2>1, <2>3, EnqueueFollows
<1>2. \A r \in DOMAIN contents : r \in Revision /\ contents[r] \in Content
  BY ContentsAreRevisions DEF SyncInv, ServerInv, ContentsOK
<1>3. CASE MakeEdit(d)
  <2>1. PICK e \in Writes[d] :
           /\ tries[e] = 0
           /\ Enqueue(d, Row(Fresh(e), IF e \in Blind THEN {} ELSE {view[d][ItemOf[e]].revision},
                             [view[d][ItemOf[e]].content EXCEPT ![FieldOf[e]] = e]))
    BY <1>3 DEF MakeEdit
  <2>2. /\ e \in Edit /\ ItemOf[e] \in Item /\ FieldOf[e] \in Field
        /\ view[d][ItemOf[e]] \in Shown
    BY SyncAssumption, FeedAssumption DEF SyncInv
  <2>3. PICK base, payload :
           /\ base = IF e \in Blind THEN {} ELSE {view[d][ItemOf[e]].revision}
           /\ payload = [view[d][ItemOf[e]].content EXCEPT ![FieldOf[e]] = e]
    OBVIOUS
  <2>4. base \in SUBSET Revision /\ payload \in Content
    BY <2>2, <2>3 DEF Shown, Content
  <2>5. tries[e] < MaxTries[e]
    <3>1. MaxTries[e] \in Nat /\ MaxTries[e] >= 1
      BY <2>2, TriesBound DEF SyncInv
    <3> QED
      BY <2>1, <3>1
  <2>6. UNCHANGED <<feedVars, cursor>> /\ pass' = pass
    BY <1>3, <2>1 DEF MakeEdit
  <2> QED
    BY <1>1, <2>1, <2>2, <2>3, <2>4, <2>5, <2>6
<1>4. CASE Resolve(d)
  <2>1. PICK c \in conflicts[d] : \E pair \in Comparisons(c.base, c.competing) :
           \E choice \in {c.payload, contents[pair[2]]} :
              /\ tries[c.id[1]] < MaxTries[c.id[1]]
              /\ Enqueue(d, Resolution(c, pair, choice))
              /\ pass' = [pass EXCEPT ![d] = Idle] \/ UNCHANGED pass
    BY <1>4 DEF Resolve, Resolution
  <2>2. PICK pair \in Comparisons(c.base, c.competing) :
           \E choice \in {c.payload, contents[pair[2]]} :
              /\ tries[c.id[1]] < MaxTries[c.id[1]]
              /\ Enqueue(d, Resolution(c, pair, choice))
              /\ pass' = [pass EXCEPT ![d] = Idle] \/ UNCHANGED pass
    BY <2>1
  <2>3. PICK choice \in {c.payload, contents[pair[2]]} :
              /\ tries[c.id[1]] < MaxTries[c.id[1]]
              /\ Enqueue(d, Resolution(c, pair, choice))
              /\ pass' = [pass EXCEPT ![d] = Idle] \/ UNCHANGED pass
    BY <2>2
  <2>4. /\ c \in ConflictRecord /\ pair[1] \in DOMAIN contents /\ pair[2] \in DOMAIN contents
    BY DeviceParts DEF Comparisons, ConflictsOK
  <2>5. PICK base, payload :
           /\ base = {pair[1], pair[2]}
           /\ payload = [f \in Field |->
                           IF f \in Clash(contents[pair[1]], c.payload, contents[pair[2]]) THEN choice[f]
                           ELSE Merge(contents[pair[1]], c.payload, contents[pair[2]])[f]]
    OBVIOUS
  <2>6. c.id[1] \in Edit /\ choice \in Content
    BY <1>2, <2>4, MutationIs DEF ConflictRecord
  <2>7. base \in SUBSET Revision /\ payload \in Content
    <3>1. Merge(contents[pair[1]], c.payload, contents[pair[2]]) \in Content
      BY <1>2, <2>4, MergeTyped DEF ConflictRecord
    <3>2. \A f \in Field : payload[f] \in Edit \cup {Untouched}
      BY <2>5, <2>6, <3>1 DEF Content
    <3>3. payload = [f \in Field |-> payload[f]]
      BY <2>5
    <3> QED
      BY <1>2, <2>4, <2>5, <3>2, <3>3 DEF Content
  <2>8. UNCHANGED <<feedVars, cursor>> /\ (pass'[d] = pass[d] \/ pass'[d] = Idle)
    BY <1>4, <2>3 DEF Resolve, SyncInv
  <2> QED
    BY <1>1, <2>3, <2>5, <2>6, <2>7, <2>8 DEF Resolution
<1> QED
  BY <1>3, <1>4

(* A step of one device leaves the others alone.                             *)
LEMMA StepFollows ==
    ASSUME FollowInv, NEW d \in Device, feed' = feed, Follows(d)',
           \A o \in Device \ {d} : /\ outbox'[o] = outbox[o] /\ view'[o] = view[o]
                                   /\ cursor'[o] = cursor[o] /\ pass'[o] = pass[o]
    PROVE  \A o \in Device : Follows(o)'
<1>1. ASSUME NEW o \in Device \ {d}  PROVE Follows(o)'
  BY <1>1, QuietFollows DEF FollowInv
<1> QED
  BY <1>1

LEMMA FeedKept ==
    ASSUME UNCHANGED <<feed, head>>, HeadIsLast
    PROVE  HeadIsLast'
BY DEF HeadIsLast, Changes, Canonical

(* Each step of a device changes what is its own.                            *)
LEMMA OthersStay ==
    ASSUME SyncInv, NEW d \in Device, NEW o \in Device \ {d},
           MakeEdit(d) \/ Resolve(d) \/ Pass(d) \/ ServeLate(d) \/ Failure(d)
    PROVE  /\ outbox'[o] = outbox[o] /\ view'[o] = view[o]
           /\ cursor'[o] = cursor[o] /\ pass'[o] = pass[o]
<1> USE DEF SyncInv
<1>1. CASE MakeEdit(d)
  BY <1>1 DEF MakeEdit, Enqueue
<1>2. CASE Resolve(d)
  <2>1. PICK row : Enqueue(d, row)
    <3>1. \E row : Enqueue(d, row)
      <4>1. \E c \in conflicts[d] : \E pair \in Comparisons(c.base, c.competing) :
               \E choice \in {c.payload, contents[pair[2]]} : Enqueue(d, Resolution(c, pair, choice))
        BY <1>2 DEF Resolve, Resolution
      <4> QED
        BY <4>1
    <3> QED
      BY <3>1
  <2>2. cursor' = cursor /\ (pass' = pass \/ pass' = [pass EXCEPT ![d] = Idle])
    BY <1>2 DEF Resolve
  <2> QED
    BY <2>1, <2>2 DEF Enqueue
<1>3. CASE Pass(d)
  <2>1. CASE Begin(d)
    BY <2>1 DEF Begin
  <2>2. CASE Submit(d)
    BY <2>2 DEF Submit
  <2>3. CASE Serve(d)
    BY <2>3 DEF Serve
  <2>4. CASE Answer(d)
    BY <2>4 DEF Answer
  <2>5. CASE Settle(d)
    BY <2>5 DEF Settle, Onward, Acknowledge, Requeue, CaptureConflict, MarkBlocked
  <2>6. CASE List(d)
    BY <2>6 DEF List
  <2>7. CASE Apply(d)
    BY <2>7 DEF Apply, Install
  <2> QED
    BY <1>3, <2>1, <2>2, <2>3, <2>4, <2>5, <2>6, <2>7 DEF Pass
<1>4. CASE ServeLate(d)
  BY <1>4 DEF ServeLate
<1>5. CASE Failure(d)
  BY <1>5 DEF Failure, GiveUp, Crash, Offline, CrashApplying, Install
<1> QED
  BY <1>1, <1>2, <1>3, <1>4, <1>5

LEMMA DeviceFollows ==
    ASSUME FollowInv, NEW d \in Device,
           MakeEdit(d) \/ Resolve(d) \/ Pass(d) \/ ServeLate(d) \/ Failure(d),
           UNCHANGED <<feed, head>>
    PROVE  HeadIsLast' /\ \A o \in Device : Follows(o)'
<1>1. SyncInv /\ HeadIsLast /\ Follows(d)
  BY DEF FollowInv
<1>2. Follows(d)'
  <2>1. CASE MakeEdit(d) \/ Resolve(d)
    BY <1>1, <2>1, EditFollows
  <2>2. CASE Pass(d)
    BY <1>1, <2>2, BeginFollows, SubmitFollows, PauseFollows, SettleFollows, ListFollows, ApplyFollows
       DEF Pass
  <2>3. CASE ServeLate(d)
    <3>1. UNCHANGED <<outbox, view, cursor, pass>>
      BY <2>3 DEF ServeLate
    <3> QED
      BY <1>1, <3>1, QuietFollows
  <2>4. CASE Failure(d)
    BY <1>1, <2>4, GiveUpFollows, PauseFollows, ApplyFollows DEF Failure
  <2> QED
    BY <2>1, <2>2, <2>3, <2>4
<1>3. \A o \in Device \ {d} : /\ outbox'[o] = outbox[o] /\ view'[o] = view[o]
                              /\ cursor'[o] = cursor[o] /\ pass'[o] = pass[o]
  BY <1>1, OthersStay
<1> QED
  BY <1>1, <1>2, <1>3, FeedKept, StepFollows

LEMMA StillFollows ==
    ASSUME FollowInv, UNCHANGED <<feed, head, outbox, view, cursor, pass>>
    PROVE  HeadIsLast' /\ \A o \in Device : Follows(o)'
<1>1. ASSUME NEW o \in Device  PROVE Follows(o)'
  BY QuietFollows DEF FollowInv
<1> QED
  BY <1>1, FeedKept DEF FollowInv

LEMMA FollowKeeps ==
    ASSUME FollowInv, [SyncNext]_syncVars, [CommitsInOrder]_syncVars
    PROVE  FollowInv'
<1>1. SyncInv'
  BY NextKeeps DEF FollowInv
<1>2. HeadIsLast' /\ \A o \in Device : Follows(o)'
  <2>1. CASE UNCHANGED syncVars
    <3>1. UNCHANGED <<feed, head, outbox, view, cursor, pass>>
      BY <2>1 DEF syncVars, feedVars, deviceVars
    <3> QED
      BY <3>1, StillFollows
  <2>2. CASE \E i \in Item : Commit(i) /\ UNCHANGED deviceVars
    <3>1. PICK i \in Item : Commit(i) /\ UNCHANGED deviceVars
      BY <2>2
    <3>2. CASE CommitsInOrder
      BY <3>1, <3>2, CommitFollows
    <3>3. CASE UNCHANGED syncVars
      BY <3>3, <2>1
    <3> QED
      BY <3>2, <3>3
  <2>3. CASE SyncNext /\ UNCHANGED <<feed, head>>
    <3>1. ASSUME NEW d \in Device,
                 MakeEdit(d) \/ Resolve(d) \/ Pass(d) \/ ServeLate(d) \/ Failure(d)
          PROVE  HeadIsLast' /\ \A o \in Device : Follows(o)'
      BY <2>3, <3>1, DeviceFollows
    <3>2. CASE Command
      <4>1. UNCHANGED <<outbox, view, cursor, pass>>
        BY <3>2 DEF Command
      <4> QED
        BY <2>3, <4>1, StillFollows
    <3>3. CASE UNCHANGED deviceVars
      <4>1. UNCHANGED <<outbox, view, cursor, pass>>
        BY <3>3 DEF deviceVars
      <4> QED
        BY <2>3, <4>1, StillFollows
    <3> QED
      BY <2>3, <3>1, <3>2, <3>3 DEF SyncNext
  <2> QED
    BY <2>1, <2>2, <2>3, FeedSteps
<1> QED
  BY <1>1, <1>2 DEF FollowInv

LEMMA FollowStarts ==
    ASSUME SyncInit
    PROVE  FollowInv
<1>1. SyncInv
  BY InitIsSound
<1>2. DOMAIN feed = {}
  BY DEF SyncInit, FeedInit
<1>3. ASSUME NEW d \in Device  PROVE Follows(d)
  <2>1. outbox[d] = << >> /\ cursor[d] = 0 /\ pass[d].phase = "idle"
    BY DEF SyncInit, Idle
  <2>2. Rows(d) = {}
    BY <2>1 DEF Rows, ToSet
  <2> QED
    BY <1>2, <2>1, <2>2 DEF Follows, Steady, AheadOK, CursorOK, CurrentOK, SendingOK, PageOK
<1> QED
  BY <1>1, <1>2, <1>3 DEF FollowInv, HeadIsLast

(* While transactions commit in the order of their numbers, a device's       *)
(* cursor stands for every change up to it: nothing listCommittedChanges     *)
(* gives after a cursor, and no answer, refusal, retry or crash on the way,  *)
(* leaves an item on screen older than the changes counted as applied.  The  *)
(* order is all that is needed: whatever breaks this breaks the order first. *)
THEOREM NoChangeIsSkipped ==
    SyncSpec /\ [][CommitsInOrder]_syncVars => []NoChangeSkipped
<1>1. SyncInit => FollowInv
  BY FollowStarts
<1>2. FollowInv /\ [SyncNext]_syncVars /\ [CommitsInOrder]_syncVars => FollowInv'
  BY FollowKeeps
<1>3. FollowInv => NoChangeSkipped
  BY DEF FollowInv, Follows, Steady, CurrentOK, NoChangeSkipped
<1> QED
  BY <1>1, <1>2, <1>3, PTL DEF SyncSpec

-----------------------------------------------------------------------------
(* One transaction at a time.                                               *)

OneAtATime ==
    /\ \A i, j \in DOMAIN open : i = j
    /\ \A i \in DOMAIN open : \A q \in DOMAIN feed : q < open[i].sequence

(* A transaction opens, one commits, or neither.                             *)
LEMMA OpenSteps ==
    ASSUME [SyncNext]_syncVars
    PROVE  \/ \E s : Accept(s)
           \/ \E i \in Item : Commit(i)
           \/ UNCHANGED <<feed, open>>
<1>1. ASSUME NEW s, NEW verdict, Answers(s, verdict)  PROVE UNCHANGED <<feed, open>>
  BY <1>1 DEF Answers, Refuse, WriteBlocked, feedVars
<1>2. ASSUME NEW d \in Device, MakeEdit(d) \/ Resolve(d) \/ Failure(d)  PROVE UNCHANGED <<feed, open>>
  BY <1>2 DEF MakeEdit, Resolve, Failure, GiveUp, Crash, Offline, CrashApplying, feedVars
<1>3. ASSUME NEW d \in Device, Pass(d)  PROVE (\E s : Accept(s)) \/ UNCHANGED <<feed, open>>
  <2>1. Serve(d) => (\E s : Accept(s)) \/ UNCHANGED <<feed, open>>
    BY <1>1 DEF Serve
  <2> QED
    BY <1>3, <2>1 DEF Pass, Begin, Submit, Answer, Settle, List, Apply, feedVars
<1>4. ASSUME NEW d \in Device, ServeLate(d)  PROVE (\E s : Accept(s)) \/ UNCHANGED <<feed, open>>
  BY <1>1, <1>4 DEF ServeLate
<1>5. Command => \E s : Accept(s)
  BY DEF Command
<1>6. ToggleRefusing => UNCHANGED <<feed, open>>
  BY DEF ToggleRefusing
<1>7. UNCHANGED syncVars => UNCHANGED <<feed, open>>
  BY DEF syncVars, feedVars
<1> QED
  BY <1>2, <1>3, <1>4, <1>5, <1>6, <1>7 DEF SyncNext

LEMMA OneAtATimeKeeps ==
    ASSUME MaxOpen = 1, SyncInv, OneAtATime, [SyncNext]_syncVars
    PROVE  OneAtATime' /\ CommitsInOrder
<1>1. drawn \in Nat /\ \A q \in DOMAIN feed : q \in 1 .. drawn
  BY ContentsAreRevisions DEF SyncInv
<1>2. ASSUME NEW s, Accept(s)  PROVE OneAtATime' /\ CommitsInOrder
  <2>1. PICK i, entry : i = Changes(s.id) /\ entry = [id |-> s.id, sequence |-> drawn + 1, content |-> Result(s)]
    OBVIOUS
  <2>2. Cardinality(DOMAIN open) < 1 /\ open' = Put(open, i, entry) /\ feed' = feed
    BY <1>2, <2>1 DEF Accept
  <2>3. DOMAIN open = {}
    <3> SUFFICES ASSUME NEW j \in DOMAIN open  PROVE FALSE
      OBVIOUS
    <3>1. DOMAIN open = {j}
      BY DEF OneAtATime
    <3>2. Cardinality({j}) = 1
      BY FS_Singleton
    <3> QED
      BY <2>2, <3>1, <3>2
  <2>4. DOMAIN open' = {i} /\ open'[i] = entry
    BY <2>2, <2>3 DEF Put
  <2>5. entry.sequence = drawn + 1
    BY <2>1
  <2> QED
    BY <1>1, <2>2, <2>4, <2>5 DEF OneAtATime, CommitsInOrder
<1>3. ASSUME NEW i \in Item, Commit(i)  PROVE OneAtATime' /\ CommitsInOrder
  <2>1. /\ i \in DOMAIN open /\ feed' = Put(feed, open[i].sequence, open[i].id)
        /\ open' = [j \in DOMAIN open \ {i} |-> open[j]]
    BY <1>3 DEF Commit
  <2>2. DOMAIN open' = {}
    BY <2>1 DEF OneAtATime
  <2>3. DOMAIN feed' = DOMAIN feed \cup {open[i].sequence}
    BY <2>1 DEF Put
  <2> QED
    BY <2>1, <2>2, <2>3 DEF OneAtATime, CommitsInOrder
<1>4. UNCHANGED <<feed, open>> => OneAtATime' /\ CommitsInOrder
  BY DEF OneAtATime, CommitsInOrder
<1> QED
  BY <1>2, <1>3, <1>4, OpenSteps

(* A server that runs one transaction at a time commits in order, so that    *)
(* its devices skip nothing; with two, a run of TLC shows the change lost.   *)
THEOREM NothingSkippedOneAtATime ==
    ASSUME MaxOpen = 1
    PROVE  SyncSpec => []NoChangeSkipped
<1>1. SyncInit => OneAtATime
  BY DEF SyncInit, FeedInit, OneAtATime
<1>2. SyncInv /\ OneAtATime /\ [SyncNext]_syncVars => OneAtATime' /\ CommitsInOrder
  BY OneAtATimeKeeps
<1>3. SyncSpec => [](SyncInv /\ OneAtATime)
  BY <1>1, <1>2, SyncInvHolds, PTL DEF SyncSpec
<1>4. SyncSpec => [][CommitsInOrder]_syncVars
  BY <1>2, <1>3, PTL DEF SyncSpec
<1> QED
  BY <1>4, NoChangeIsSkipped, PTL

=============================================================================
