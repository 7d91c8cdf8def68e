------------------------- MODULE ProtectedFilesProofs -------------------------
(***************************************************************************)
(* Proofs about the storage of files under transfers, for any files, any   *)
(* number of workers and any number of faults: nothing on disk is out of   *)
(* reach of the cleanup, nothing a row references is missing, and what is  *)
(* stored is what was sent.                                                *)
(***************************************************************************)
EXTENDS FileTransfer, FunctionTheorems, SequenceTheorems, WellFoundedInduction, TLAPS

-----------------------------------------------------------------------------
(* The inductive invariant.                                                 *)

IsSequence(s) == s \in Seq(ToSet(s))

Requests == {"received", "append", "verify", "publish"}
Writes == {"append", "publish"}

WithinFile(r) ==
    /\ r.of \in Upload /\ r.offset \in Nat /\ r.size \in Nat
    /\ r.offset + r.size <= Length[r.of]

\* What a worker may be doing.
Entry(t) ==
    /\ "op" \in DOMAIN t
    /\ t.op \in {"idle", "read"} \cup Requests
    /\ t.op \in Requests => {"of", "offset", "size", "heard"} \subseteq DOMAIN t /\ WithinFile(t)
    /\ t.op \in Writes => {"fresh", "intent", "left", "known"} \subseteq DOMAIN t /\ IsSequence(t.fresh)

UploadsOK ==
    /\ Unfinished \subseteq Upload
    /\ \A u \in Unfinished :
          /\ DOMAIN uploads[u] = {"received", "chunks"}
          /\ uploads[u].received \in Nat /\ uploads[u].received <= Length[u]
          /\ IsSequence(uploads[u].chunks)

ContentsOK ==
    /\ Verified \subseteq Published
    /\ \A c \in Verified : IsSequence(contents[c])
    /\ \A u \in Published : files[u] \in Verified

TxOK == DOMAIN tx = Worker /\ \A w \in Worker : Entry(tx[w])

\* What is referenced is on disk, and nothing is out of reach of the cleanup.
Accounted == Referenced \subseteq blobs /\ NothingLeaked

\* A transaction holds the row of its upload alone.
RowsHeld ==
    \A w \in Worker : Writing(w) =>
        /\ tx[w].of \in Unfinished
        /\ tx[w].known \subseteq Verified
        /\ \A v \in Worker : Writing(v) /\ v # w => tx[v].of # tx[w].of

\* What a transaction has put on disk or is about to, and no row references.
Own(t) == ToSet(t.fresh) \cup t.intent

\* It is journalled, and nobody else's.
OwnApart ==
    \A w \in Worker : Writing(w) =>
        /\ ToSet(tx[w].fresh) \subseteq blobs
        /\ Own(tx[w]) \subseteq journal
        /\ Own(tx[w]) \cap Referenced = {}
        /\ \A v \in Worker : Writing(v) /\ v # w => Own(tx[v]) \cap Own(tx[w]) = {}

\* Nothing but maintenance takes a chunk from a content.
ReadersPinned ==
    \A w \in Worker : tx[w].op = "read" => tx[w].chunks \subseteq ContentChunks

StoreInv == UploadsOK /\ ContentsOK /\ TxOK /\ Accounted /\ RowsHeld /\ OwnApart /\ ReadersPinned

\* Requests stay within their file, and a file that is done is published.
Standing(u, d) ==
    /\ d.at = "send" => d.offset \in Nat /\ d.offset <= Length[u]
    /\ d = Done => u \in Published

SentOK(r) ==
    /\ {"kind", "of", "heard"} \subseteq DOMAIN r
    /\ r.of \in Upload
    /\ r.kind = "patch" => {"offset", "size"} \subseteq DOMAIN r /\ WithinFile(r)

DeviceInv ==
    /\ DOMAIN device = Sending
    /\ \A u \in Sending : Standing(u, device[u])
    /\ \A r \in sent : SentOK(r)

FilesInv == StoreInv /\ DeviceInv

-----------------------------------------------------------------------------
(* Sequences of chunks and the sets of their elements.                      *)

LEMMA SequenceIs ==
    ASSUME NEW s, NEW n \in Int, DOMAIN s = 1 .. n, s = [i \in 1 .. n |-> s[i]]
    PROVE  IsSequence(s)
<1>1. CASE n >= 0
  <2>1. s \in [1 .. n -> ToSet(s)]
    BY DEF ToSet
  <2> QED
    BY <1>1, <2>1 DEF IsSequence
<1>2. CASE n < 0
  <2>1. DOMAIN s = 1 .. 0
    BY <1>2
  <2>2. s \in [1 .. 0 -> ToSet(s)]
    BY <2>1, <1>2 DEF ToSet
  <2> QED
    BY <2>2 DEF IsSequence
<1> QED
  BY <1>1, <1>2

LEMMA EmptyIs == IsSequence(<< >>) /\ ToSet(<< >>) = {}
  BY DEF IsSequence, ToSet

LEMMA AppendIs ==
    ASSUME NEW s, IsSequence(s), NEW k
    PROVE  IsSequence(Append(s, k)) /\ ToSet(Append(s, k)) = ToSet(s) \cup {k}
<1> DEFINE S == ToSet(s) \cup {k}
<1>1. s \in Seq(S)
  BY DEF IsSequence
<1>2. /\ Append(s, k) \in Seq(S)
      /\ Len(Append(s, k)) = Len(s) + 1
      /\ \A i \in 1 .. Len(s) : Append(s, k)[i] = s[i]
      /\ Append(s, k)[Len(s) + 1] = k
  BY <1>1
<1>3. /\ DOMAIN s = 1 .. Len(s) /\ Len(s) \in Nat
      /\ DOMAIN Append(s, k) = 1 .. Len(s) + 1
  BY <1>1, <1>2
<1>4. ToSet(Append(s, k)) = S
  BY <1>2, <1>3 DEF ToSet
<1> QED
  BY <1>2, <1>4 DEF IsSequence

LEMMA ConcatIs ==
    ASSUME NEW s, NEW t, IsSequence(s), IsSequence(t)
    PROVE  IsSequence(s \o t) /\ ToSet(s \o t) = ToSet(s) \cup ToSet(t)
<1> DEFINE S == ToSet(s) \cup ToSet(t)
<1>1. s \in Seq(S) /\ t \in Seq(S)
  BY DEF IsSequence
<1>2. s \o t \in Seq(S) /\ Range(s \o t) = Range(s) \cup Range(t)
  BY <1>1, RangeConcatenation
<1>3. ToSet(s \o t) = S
  BY <1>2 DEF ToSet, Range
<1> QED
  BY <1>2, <1>3 DEF IsSequence

\* A sequence is cut in two at any place.
LEMMA CutIs ==
    ASSUME NEW s, IsSequence(s), NEW n \in 0 .. Len(s)
    PROVE  /\ IsSequence(SubSeq(s, 1, n))
           /\ ToSet(SubSeq(s, 1, n)) \subseteq ToSet(s)
           /\ ToSet(SubSeq(s, n + 1, Len(s))) \subseteq ToSet(s)
           /\ ToSet(s) = ToSet(SubSeq(s, 1, n)) \cup ToSet(SubSeq(s, n + 1, Len(s)))
<1>1. s \in Seq(ToSet(s)) /\ Len(s) \in Nat /\ DOMAIN s = 1 .. Len(s)
  BY DEF IsSequence
<1> DEFINE a == SubSeq(s, 1, n)
           b == SubSeq(s, n + 1, Len(s))
<1>2. a = [i \in 1 .. n |-> s[i]] /\ DOMAIN a = 1 .. n
  BY <1>1
<1>3. DOMAIN b = 1 .. Len(s) - n /\ \A i \in 1 .. Len(s) - n : b[i] = s[n + i]
  BY <1>1
<1>4. n \in Nat /\ n <= Len(s)
  BY <1>1
<1> HIDE DEF a, b
<1>5. IsSequence(a)
  <2>1. a = [i \in 1 .. n |-> a[i]]
    BY <1>2
  <2>2. n \in Int
    BY <1>4
  <2> QED
    BY <1>2, <2>1, <2>2, SequenceIs
<1>6. ToSet(a) \subseteq ToSet(s)
  BY <1>1, <1>2, <1>4 DEF ToSet
<1>7. ToSet(b) \subseteq ToSet(s)
  BY <1>1, <1>3, <1>4 DEF ToSet
<1>8. ASSUME NEW i \in 1 .. Len(s)
      PROVE  s[i] \in ToSet(a) \cup ToSet(b)
  <2>1. CASE i <= n
    <3>1. i \in DOMAIN a /\ a[i] = s[i]
      BY <1>1, <1>2, <1>4, <2>1
    <3> QED
      BY <3>1 DEF ToSet
  <2>2. CASE i > n
    <3>1. i - n \in 1 .. Len(s) - n /\ n + (i - n) = i
      BY <1>1, <1>4, <2>2
    <3>2. i - n \in DOMAIN b /\ b[i - n] = s[i]
      BY <1>3, <3>1
    <3> QED
      BY <3>2 DEF ToSet
  <2> QED
    BY <1>1, <1>4, <2>1, <2>2
<1>9. ToSet(s) \subseteq ToSet(a) \cup ToSet(b)
  BY <1>1, <1>8 DEF ToSet
<1> QED
  BY <1>5, <1>6, <1>7, <1>9 DEF a, b

LEMMA ReplacedIs ==
    ASSUME NEW s, IsSequence(s), NEW old, NEW new
    PROVE  /\ IsSequence(Replaced(s, old, new))
           /\ ToSet(Replaced(s, old, new)) \subseteq ToSet(s) \cup {new}
           /\ ToSet(s) \subseteq ToSet(Replaced(s, old, new)) \cup {old}
<1> DEFINE t == Replaced(s, old, new)
<1>1. DOMAIN s = 1 .. Len(s) /\ Len(s) \in Nat
  BY DEF IsSequence
<1>2. DOMAIN t = 1 .. Len(s) /\ \A i \in DOMAIN s : t[i] = IF s[i] = old THEN new ELSE s[i]
  BY <1>1 DEF Replaced
<1>3. t = [i \in 1 .. Len(s) |-> t[i]]
  BY <1>1 DEF Replaced
<1> HIDE DEF t
<1>4. IsSequence(t)
  <2>1. Len(s) \in Int /\ DOMAIN t = 1 .. Len(s)
    BY <1>1, <1>2
  <2> QED
    BY <1>3, <2>1, SequenceIs
<1>5. ToSet(t) \subseteq ToSet(s) \cup {new} /\ ToSet(s) \subseteq ToSet(t) \cup {old}
  BY <1>1, <1>2 DEF ToSet
<1> QED
  BY <1>4, <1>5 DEF t

LEMMA AppendKeeps ==
    ASSUME FilesAssumption, UploadsOK, NEW u \in Unfinished
    PROVE  /\ IsSequence(Kept(u))
           /\ ToSet(Kept(u)) \subseteq ChunksOf(u)
           /\ ToSet(LastChunk(u)) \subseteq ChunksOf(u)
           /\ ChunksOf(u) = ToSet(Kept(u)) \cup ToSet(LastChunk(u))
<1>1. /\ uploads[u].received \in Nat
      /\ IsSequence(uploads[u].chunks)
      /\ Len(uploads[u].chunks) \in Nat
  BY DEF UploadsOK, IsSequence
<1>2. uploads[u].received \div Holds \in Nat
  BY <1>1 DEF FilesAssumption
<1>3. FullChunks(u) \in 0 .. Len(uploads[u].chunks)
  BY <1>1, <1>2 DEF FullChunks
<1> QED
  BY <1>1, <1>3, CutIs DEF Kept, LastChunk, ChunksOf

-----------------------------------------------------------------------------
(* Steps of one worker, and steps of maintenance.                           *)

\* A worker takes a step that leaves alone what the others own and hold.
LEMMA OneWorker ==
    ASSUME StoreInv, NEW w \in Worker, NEW t, tx' = [tx EXCEPT ![w] = t], Entry(t),
           UploadsOK', ContentsOK', Accounted',
           Verified \subseteq Verified', ContentChunks \subseteq ContentChunks',
           \A v \in Worker : v # w /\ Writing(v) =>
               /\ tx[v].of \in Unfinished'
               /\ ToSet(tx[v].fresh) \subseteq blobs'
               /\ Own(tx[v]) \subseteq journal'
               /\ Own(tx[v]) \cap Referenced' = {},
           t.op \in Writes =>
               /\ t.of \in Unfinished'
               /\ t.known \subseteq Verified'
               /\ ToSet(t.fresh) \subseteq blobs'
               /\ Own(t) \subseteq journal'
               /\ Own(t) \cap Referenced' = {}
               /\ \A v \in Worker : v # w /\ Writing(v) => tx[v].of # t.of /\ Own(tx[v]) \cap Own(t) = {},
           t.op = "read" => t.chunks \subseteq ContentChunks'
    PROVE  StoreInv'
<1>1. DOMAIN tx = Worker
  BY DEF StoreInv, TxOK
<1>2. /\ DOMAIN tx' = Worker
      /\ tx'[w] = t
      /\ \A v \in Worker : v # w => tx'[v] = tx[v]
  BY <1>1
<1>3. Worker' = Worker /\ Upload' = Upload
  BY DEF Worker
<1>4. \A v \in Worker : v # w => (Writing(v)' <=> Writing(v))
  BY <1>2 DEF Writing
<1>5. Writing(w)' <=> t.op \in Writes
  BY <1>2 DEF Writing, Writes
<1>6. TxOK'
  <2>1. \A v \in Worker : Entry(tx'[v])
    BY <1>2 DEF StoreInv, TxOK
  <2> QED
    BY <1>2, <2>1 DEF TxOK, Worker, Entry, Requests, Writes, WithinFile, IsSequence
<1>7. RowsHeld'
  <2> SUFFICES ASSUME NEW x \in Worker, Writing(x)'
               PROVE  /\ tx'[x].of \in Unfinished'
                      /\ tx'[x].known \subseteq Verified'
                      /\ \A v \in Worker : Writing(v)' /\ v # x => tx'[v].of # tx'[x].of
    BY <1>3 DEF RowsHeld
  <2>1. CASE x = w
    BY <1>2, <1>4, <1>5, <2>1
  <2>2. CASE x # w
    <3>1. Writing(x) /\ tx'[x] = tx[x]
      BY <1>2, <1>4, <2>2
    <3>2. tx[x].of \in Unfinished' /\ tx[x].known \subseteq Verified'
      BY <2>2, <3>1 DEF StoreInv, RowsHeld
    <3>3. ASSUME NEW v \in Worker, Writing(v)', v # x
          PROVE  tx'[v].of # tx[x].of
      <4>1. CASE v = w
        BY <1>2, <1>5, <2>2, <3>1, <3>3, <4>1
      <4>2. CASE v # w
        BY <1>2, <1>4, <3>1, <3>3, <4>2 DEF StoreInv, RowsHeld
      <4> QED
        BY <4>1, <4>2
    <3> QED
      BY <3>1, <3>2, <3>3
  <2> QED
    BY <2>1, <2>2
<1>8. OwnApart'
  <2> SUFFICES ASSUME NEW x \in Worker, Writing(x)'
               PROVE  /\ ToSet(tx'[x].fresh) \subseteq blobs'
                      /\ Own(tx'[x]) \subseteq journal'
                      /\ Own(tx'[x]) \cap Referenced' = {}
                      /\ \A v \in Worker : Writing(v)' /\ v # x => Own(tx'[v]) \cap Own(tx'[x]) = {}
    BY <1>3 DEF OwnApart, Own, ToSet
  <2>1. CASE x = w
    BY <1>2, <1>4, <1>5, <2>1
  <2>2. CASE x # w
    <3>1. Writing(x) /\ tx'[x] = tx[x]
      BY <1>2, <1>4, <2>2
    <3>2. /\ ToSet(tx[x].fresh) \subseteq blobs'
          /\ Own(tx[x]) \subseteq journal'
          /\ Own(tx[x]) \cap Referenced' = {}
      BY <2>2, <3>1
    <3>3. ASSUME NEW v \in Worker, Writing(v)', v # x
          PROVE  Own(tx'[v]) \cap Own(tx[x]) = {}
      <4>1. CASE v = w
        BY <1>2, <1>5, <2>2, <3>1, <3>3, <4>1
      <4>2. CASE v # w
        BY <1>2, <1>4, <3>1, <3>3, <4>2 DEF StoreInv, OwnApart
      <4> QED
        BY <4>1, <4>2
    <3> QED
      BY <3>1, <3>2, <3>3
  <2> QED
    BY <2>1, <2>2
<1>9. ReadersPinned'
  <2> SUFFICES ASSUME NEW x \in Worker, tx'[x].op = "read"
               PROVE  tx'[x].chunks \subseteq ContentChunks'
    BY <1>3 DEF ReadersPinned
  <2>1. CASE x = w
    BY <1>2, <2>1
  <2>2. CASE x # w
    BY <1>2, <2>2 DEF StoreInv, ReadersPinned
  <2> QED
    BY <2>1, <2>2
<1> QED
  BY <1>6, <1>7, <1>8, <1>9 DEF StoreInv

\* A worker turns to something else, and the storage stays.
LEMMA TurnStep ==
    ASSUME StoreInv, NEW w \in Worker, NEW t, Turn(w, t), Entry(t),
           t.op \in Writes =>
               /\ t.of \in Unfinished
               /\ t.known \subseteq Verified
               /\ t.fresh = << >> /\ t.intent = {}
               /\ \A v \in Worker : Writing(v) => tx[v].of # t.of,
           t.op = "read" => t.chunks \subseteq ContentChunks
    PROVE  StoreInv'
<1>1. /\ tx' = [tx EXCEPT ![w] = t]
      /\ blobs' = blobs /\ journal' = journal /\ uploads' = uploads
      /\ contents' = contents /\ files' = files
  BY DEF Turn, storage
<1>2. UploadsOK' /\ ContentsOK' /\ Accounted'
  BY <1>1 DEF StoreInv, UploadsOK, ContentsOK, Accounted, NothingLeaked, Referenced, UploadChunks, ContentChunks, ChunksOf,
              Unfinished, Verified, Published, IsSequence
<1>3. Unfinished' = Unfinished /\ Verified' = Verified /\ ContentChunks' = ContentChunks /\ Referenced' = Referenced
  BY <1>1 DEF Unfinished, Verified, Referenced, UploadChunks, ContentChunks, ChunksOf
<1>4. \A v \in Worker : v # w /\ Writing(v) =>
          /\ tx[v].of \in Unfinished'
          /\ ToSet(tx[v].fresh) \subseteq blobs'
          /\ Own(tx[v]) \subseteq journal'
          /\ Own(tx[v]) \cap Referenced' = {}
  BY <1>1, <1>3 DEF StoreInv, RowsHeld, OwnApart
<1>5. t.op \in Writes =>
          /\ t.of \in Unfinished'
          /\ t.known \subseteq Verified'
          /\ ToSet(t.fresh) \subseteq blobs'
          /\ Own(t) \subseteq journal'
          /\ Own(t) \cap Referenced' = {}
          /\ \A v \in Worker : v # w /\ Writing(v) => tx[v].of # t.of /\ Own(tx[v]) \cap Own(t) = {}
  <2> SUFFICES ASSUME t.op \in Writes
               PROVE  /\ t.of \in Unfinished'
                      /\ t.known \subseteq Verified'
                      /\ ToSet(t.fresh) \subseteq blobs'
                      /\ Own(t) \subseteq journal'
                      /\ Own(t) \cap Referenced' = {}
                      /\ \A v \in Worker : v # w /\ Writing(v) => tx[v].of # t.of /\ Own(tx[v]) \cap Own(t) = {}
    OBVIOUS
  <2>1. ToSet(t.fresh) = {} /\ Own(t) = {}
    BY EmptyIs DEF Own
  <2> QED
    BY <1>3, <2>1
<1>6. t.op = "read" => t.chunks \subseteq ContentChunks'
  BY <1>3
<1> QED
  BY <1>1, <1>2, <1>3, <1>4, <1>5, <1>6, OneWorker

\* Maintenance has the lock: nobody writes and nobody reads.
LEMMA MaintenanceStep ==
    ASSUME StoreInv, MaintenanceFree, tx' = tx, UploadsOK', ContentsOK', Accounted'
    PROVE  StoreInv'
<1>1. \A w \in Worker : ~Writing(w)' /\ tx'[w].op # "read"
  BY DEF MaintenanceFree, Writing
<1>2. Worker' = Worker
  BY DEF Worker
<1>3. TxOK'
  BY DEF StoreInv, TxOK, Worker, Entry, Requests, Writes, WithinFile, IsSequence
<1>4. RowsHeld' /\ OwnApart' /\ ReadersPinned'
  BY <1>1, <1>2 DEF RowsHeld, OwnApart, ReadersPinned
<1> QED
  BY <1>3, <1>4 DEF StoreInv

\* Nothing a worker does changes.
LEMMA StandingStep ==
    ASSUME StoreInv, tx' = tx, UploadsOK', ContentsOK', Accounted',
           Unfinished \subseteq Unfinished', Verified \subseteq Verified', blobs \subseteq blobs',
           journal \subseteq journal', Referenced' = Referenced, ContentChunks \subseteq ContentChunks'
    PROVE  StoreInv'
<1>1. Worker' = Worker
  BY DEF Worker
<1>2. TxOK'
  BY DEF StoreInv, TxOK, Worker, Entry, Requests, Writes, WithinFile, IsSequence
<1>3. \A w \in Worker : Writing(w)' <=> Writing(w)
  BY DEF Writing
<1>4. RowsHeld'
  BY <1>1, <1>3 DEF StoreInv, RowsHeld
<1>5. OwnApart'
  <2> SUFFICES ASSUME NEW x \in Worker, Writing(x)
               PROVE  /\ ToSet(tx[x].fresh) \subseteq blobs'
                      /\ Own(tx[x]) \subseteq journal'
                      /\ Own(tx[x]) \cap Referenced' = {}
                      /\ \A v \in Worker : Writing(v) /\ v # x => Own(tx[v]) \cap Own(tx[x]) = {}
    BY <1>1, <1>3 DEF OwnApart, Own, ToSet
  <2> QED
    BY DEF StoreInv, OwnApart
<1>6. ReadersPinned'
  BY <1>1 DEF StoreInv, ReadersPinned
<1> QED
  BY <1>2, <1>4, <1>5, <1>6 DEF StoreInv

LEMMA WorkerFacts ==
    ASSUME StoreInv, NEW w \in Worker
    PROVE  /\ DOMAIN tx = Worker
           /\ Entry(tx[w])
           /\ Writing(w) <=> tx[w].op \in Writes
           /\ Writing(w) => tx[w].of \in Unfinished /\ tx[w].known \subseteq Verified
  BY DEF StoreInv, TxOK, Writing, Writes, RowsHeld

LEMMA IdleIs == Entry(Idle) /\ Idle.op = "idle" /\ Idle.op \notin Writes
  BY DEF Idle, Entry, Requests, Writes

-----------------------------------------------------------------------------
(* The steps of a request that change no row and no chunk.                  *)

LEMMA DoingIs ==
    ASSUME NEW r, WithinFile(r), NEW op \in {"received", "verify"}
    PROVE  /\ Entry(Doing(r, op))
           /\ Doing(r, op).op \notin Writes
           /\ Doing(r, op).op # "read"
  BY DEF Doing, Entry, Requests, Writes, WithinFile

LEMMA ReceiveStep ==
    ASSUME StoreInv, NEW w \in Worker, NEW r, WithinFile(r), Receive(w, r)
    PROVE  StoreInv'
<1>1. Turn(w, Doing(r, "received"))
  BY DEF Receive, Turn
<1> QED
  BY <1>1, DoingIs, TurnStep

LEMMA RestStep ==
    ASSUME StoreInv, NEW w \in Worker, Turn(w, Idle)
    PROVE  StoreInv'
  BY IdleIs, TurnStep

\* A transaction that has the row of its upload begins.
LEMMA OpenStep ==
    ASSUME StoreInv, NEW w \in Worker, tx[w].op \in Requests, RowFree(tx[w].of), tx[w].of \in Unfinished,
           NEW op \in Writes, NEW parts, NEW known \in SUBSET Verified,
           Turn(w, Transaction(tx[w], op, parts, known))
    PROVE  StoreInv'
<1> DEFINE t == Transaction(tx[w], op, parts, known)
<1>1. /\ DOMAIN t = {"of", "offset", "size", "heard", "op", "left", "fresh", "intent", "known"}
      /\ t.of = tx[w].of /\ t.offset = tx[w].offset /\ t.size = tx[w].size
      /\ t.op = op /\ t.fresh = << >> /\ t.intent = {} /\ t.known = known
  BY DEF Transaction
<1> HIDE DEF t
<1>2. Entry(tx[w]) /\ WithinFile(tx[w])
  BY WorkerFacts DEF Entry
<1>3. Entry(t)
  BY <1>1, <1>2, EmptyIs DEF Entry, Requests, Writes, WithinFile
<1>4. \A v \in Worker : Writing(v) => tx[v].of # t.of
  BY <1>1 DEF RowFree
<1>5. t.op # "read"
  BY <1>1 DEF Writes
<1> QED
  BY <1>1, <1>3, <1>4, <1>5, TurnStep DEF t

LEMMA OpenAppendStep ==
    ASSUME StoreInv, NEW w \in Worker, OpenAppend(w)
    PROVE  StoreInv'
<1> DEFINE parts == Stored(LastChunk(tx[w].of)) \o Body(tx[w])
<1>1. /\ tx[w].op = "received" /\ RowFree(tx[w].of) /\ tx[w].of \in Unfinished
      /\ Turn(w, Transaction(tx[w], "append", parts, {}))
  BY DEF OpenAppend
<1> HIDE DEF parts
<1>2. tx[w].op \in Requests /\ "append" \in Writes /\ {} \in SUBSET Verified
  BY <1>1 DEF Requests, Writes
<1> QED
  BY <1>1, <1>2, OpenStep

LEMMA OpenPublishStep ==
    ASSUME StoreInv, NEW w \in Worker, OpenPublish(w)
    PROVE  StoreInv'
<1> DEFINE parts == Stored(uploads[tx[w].of].chunks)
<1>1. /\ tx[w].op = "verify" /\ RowFree(tx[w].of) /\ tx[w].of \in Unfinished
      /\ \E known \in SUBSET Duplicates(tx[w].of) : Turn(w, Transaction(tx[w], "publish", parts, known))
  BY DEF OpenPublish, Complete
<1> HIDE DEF parts
<1>2. PICK known \in SUBSET Duplicates(tx[w].of) : Turn(w, Transaction(tx[w], "publish", parts, known))
  BY <1>1
<1>3. tx[w].op \in Requests /\ "publish" \in Writes /\ known \in SUBSET Verified
  BY <1>1 DEF Requests, Writes, Duplicates
<1> QED
  BY <1>1, <1>2, <1>3, OpenStep

LEMMA OpenReadStep ==
    ASSUME StoreInv, NEW w \in Worker, OpenRead(w)
    PROVE  StoreInv'
<1>1. PICK u \in Published : Turn(w, [op |-> "read", chunks |-> ToSet(contents[files[u]])])
  BY DEF OpenRead
<1> DEFINE t == [op |-> "read", chunks |-> ToSet(contents[files[u]])]
<1>2. files[u] \in Verified
  BY DEF StoreInv, ContentsOK
<1>3. t.chunks \subseteq ContentChunks
  BY <1>2 DEF ContentChunks
<1>4. Entry(t) /\ t.op \notin Writes
  BY DEF Entry, Requests, Writes
<1> HIDE DEF t
<1> QED
  BY <1>1, <1>3, <1>4, TurnStep DEF t

-----------------------------------------------------------------------------
(* The steps of a request that write.                                       *)

LEMMA RegisterIntentStep ==
    ASSUME StoreInv, NEW w \in Worker, RegisterIntent(w)
    PROVE  StoreInv'
<1>1. PICK k \in FreshKeys(FirstOf(tx[w].left)) :
          /\ journal' = journal \cup {k}
          /\ tx' = [tx EXCEPT ![w].intent = {k}]
  BY DEF RegisterIntent, Intending
<1>2. /\ Writing(w)
      /\ blobs' = blobs /\ uploads' = uploads /\ contents' = contents /\ files' = files
  BY DEF RegisterIntent
<1>3. k \notin blobs /\ k \notin journal /\ k \notin Referenced
  BY DEF FreshKeys, Unused
<1> DEFINE t == [tx[w] EXCEPT !.intent = {k}]
<1>4. DOMAIN tx = Worker /\ Entry(tx[w]) /\ tx[w].op \in Writes
  BY <1>2, WorkerFacts
<1>5. {"op", "of", "offset", "size", "heard", "fresh", "intent", "left", "known"} \subseteq DOMAIN tx[w]
  BY <1>4 DEF Entry, Requests, Writes
<1>6. tx' = [tx EXCEPT ![w] = t]
  BY <1>1, <1>4
<1>7. /\ DOMAIN t = DOMAIN tx[w]
      /\ t.op = tx[w].op /\ t.of = tx[w].of /\ t.offset = tx[w].offset /\ t.size = tx[w].size
      /\ t.fresh = tx[w].fresh /\ t.known = tx[w].known /\ t.intent = {k}
  BY <1>5
<1> HIDE DEF t
<1>8. Entry(t) /\ t.op # "read"
  BY <1>4, <1>5, <1>7 DEF Entry, WithinFile, Writes
<1>9. Unfinished' = Unfinished /\ Verified' = Verified /\ Referenced' = Referenced /\ ContentChunks' = ContentChunks
  BY <1>2 DEF Unfinished, Verified, Referenced, UploadChunks, ContentChunks, ChunksOf
<1>10. UploadsOK' /\ ContentsOK'
  BY <1>2 DEF StoreInv, UploadsOK, ContentsOK, Unfinished, Verified, Published, IsSequence
<1>11. Accounted'
  BY <1>1, <1>2, <1>9 DEF StoreInv, Accounted, NothingLeaked
<1>12. \A v \in Worker : v # w /\ Writing(v) =>
           /\ tx[v].of \in Unfinished'
           /\ ToSet(tx[v].fresh) \subseteq blobs'
           /\ Own(tx[v]) \subseteq journal'
           /\ Own(tx[v]) \cap Referenced' = {}
  BY <1>1, <1>2, <1>9 DEF StoreInv, RowsHeld, OwnApart
<1>13. Own(t) \subseteq Own(tx[w]) \cup {k} /\ k \in Own(t) /\ ToSet(t.fresh) \subseteq blobs
  BY <1>2, <1>7 DEF Own, StoreInv, OwnApart
<1>14. /\ t.of \in Unfinished' /\ t.known \subseteq Verified'
       /\ ToSet(t.fresh) \subseteq blobs' /\ Own(t) \subseteq journal' /\ Own(t) \cap Referenced' = {}
  BY <1>1, <1>2, <1>3, <1>7, <1>9, <1>13 DEF StoreInv, RowsHeld, OwnApart
<1>15. \A v \in Worker : v # w /\ Writing(v) => tx[v].of # t.of /\ Own(tx[v]) \cap Own(t) = {}
  BY <1>2, <1>3, <1>7, <1>13 DEF StoreInv, RowsHeld, OwnApart
<1> QED
  BY <1>6, <1>8, <1>9, <1>10, <1>11, <1>12, <1>14, <1>15, OneWorker

LEMMA PutBlobStep ==
    ASSUME StoreInv, NEW w \in Worker, PutBlob(w)
    PROVE  StoreInv'
<1>1. PICK k \in tx[w].intent :
          /\ blobs' = blobs \cup {k}
          /\ tx' = [tx EXCEPT ![w].fresh = Append(@, k), ![w].intent = {},
                              ![w].left = SubSeq(@, Len(k.parts) + 1, Len(@))]
  BY DEF PutBlob
<1>2. /\ Writing(w)
      /\ journal' = journal /\ uploads' = uploads /\ contents' = contents /\ files' = files
  BY DEF PutBlob
<1> DEFINE t == [tx[w] EXCEPT !.fresh = Append(@, k), !.intent = {},
                              !.left = SubSeq(@, Len(k.parts) + 1, Len(@))]
<1>3. DOMAIN tx = Worker /\ Entry(tx[w]) /\ tx[w].op \in Writes
  BY <1>2, WorkerFacts
<1>4. {"op", "of", "offset", "size", "heard", "fresh", "intent", "left", "known"} \subseteq DOMAIN tx[w]
  BY <1>3 DEF Entry, Requests, Writes
<1>5. tx' = [tx EXCEPT ![w] = t]
  BY <1>1, <1>3, <1>4
<1>6. /\ DOMAIN t = DOMAIN tx[w]
      /\ t.op = tx[w].op /\ t.of = tx[w].of /\ t.offset = tx[w].offset /\ t.size = tx[w].size
      /\ t.fresh = Append(tx[w].fresh, k) /\ t.known = tx[w].known /\ t.intent = {}
  BY <1>4
<1> HIDE DEF t
<1>7. IsSequence(tx[w].fresh)
  BY <1>3 DEF Entry
<1>8. IsSequence(t.fresh) /\ ToSet(t.fresh) = ToSet(tx[w].fresh) \cup {k}
  BY <1>6, <1>7, AppendIs
<1>9. Entry(t) /\ t.op # "read"
  BY <1>3, <1>4, <1>6, <1>8 DEF Entry, WithinFile, Writes
<1>10. Unfinished' = Unfinished /\ Verified' = Verified /\ Referenced' = Referenced /\ ContentChunks' = ContentChunks
  BY <1>2 DEF Unfinished, Verified, Referenced, UploadChunks, ContentChunks, ChunksOf
<1>11. UploadsOK' /\ ContentsOK'
  BY <1>2 DEF StoreInv, UploadsOK, ContentsOK, Unfinished, Verified, Published, IsSequence
<1>12. k \in journal /\ Own(t) \subseteq Own(tx[w])
  BY <1>2, <1>6, <1>8 DEF Own, StoreInv, OwnApart
<1>13. Accounted'
  BY <1>1, <1>2, <1>10, <1>12 DEF StoreInv, Accounted, NothingLeaked
<1>14. \A v \in Worker : v # w /\ Writing(v) =>
           /\ tx[v].of \in Unfinished'
           /\ ToSet(tx[v].fresh) \subseteq blobs'
           /\ Own(tx[v]) \subseteq journal'
           /\ Own(tx[v]) \cap Referenced' = {}
  BY <1>1, <1>2, <1>10 DEF StoreInv, RowsHeld, OwnApart
<1>15. /\ t.of \in Unfinished' /\ t.known \subseteq Verified'
       /\ ToSet(t.fresh) \subseteq blobs' /\ Own(t) \subseteq journal' /\ Own(t) \cap Referenced' = {}
  BY <1>1, <1>2, <1>6, <1>8, <1>10, <1>12 DEF StoreInv, RowsHeld, OwnApart
<1>16. \A v \in Worker : v # w /\ Writing(v) => tx[v].of # t.of /\ Own(tx[v]) \cap Own(t) = {}
  BY <1>2, <1>6, <1>12 DEF StoreInv, RowsHeld, OwnApart
<1> QED
  BY <1>5, <1>9, <1>10, <1>11, <1>13, <1>14, <1>15, <1>16, OneWorker

\* The transaction that adds parts to an upload commits.
LEMMA CommitAppendStep ==
    ASSUME FilesAssumption, StoreInv, NEW w \in Worker, CommitAppend(w)
    PROVE  StoreInv'
<1> DEFINE u == tx[w].of
           fresh == ToSet(tx[w].fresh)
           kept == ToSet(Kept(u))
           last == ToSet(LastChunk(u))
           received == tx[w].offset + tx[w].size
           row == [received |-> received, chunks |-> Kept(u) \o tx[w].fresh]
           t == IF received = Length[u] THEN Doing(tx[w], "verify") ELSE Idle
<1>1. /\ Writing(w)
      /\ uploads' = [uploads EXCEPT ![u] = row]
      /\ journal' = (journal \ fresh) \cup last
      /\ tx' = [tx EXCEPT ![w] = t]
      /\ blobs' = blobs /\ contents' = contents /\ files' = files
  BY DEF CommitAppend, Written, Writing
<1>2. Entry(tx[w]) /\ tx[w].op \in Writes /\ u \in Unfinished
  BY <1>1, WorkerFacts
<1>3. WithinFile(tx[w]) /\ IsSequence(tx[w].fresh)
  BY <1>2 DEF Entry, Requests, Writes
<1>4. received \in Nat /\ received <= Length[u] /\ u \in Upload
  BY <1>3 DEF WithinFile
<1>5. /\ IsSequence(Kept(u))
      /\ ToSet(Kept(u)) \subseteq ChunksOf(u)
      /\ last \subseteq ChunksOf(u)
      /\ ChunksOf(u) = ToSet(Kept(u)) \cup last
  BY <1>2, AppendKeeps DEF StoreInv
<1>6. IsSequence(row.chunks) /\ ToSet(row.chunks) = ToSet(Kept(u)) \cup fresh
  BY <1>3, <1>5, ConcatIs
<1>7. Entry(t) /\ t.op \notin Writes /\ t.op # "read"
  BY <1>3, DoingIs, IdleIs
<1>8. DOMAIN row = {"received", "chunks"} /\ row.received = received
  OBVIOUS
<1> HIDE DEF t, row, received, kept, last, fresh, u
<1>9. Unfinished' = Unfinished /\ uploads'[u] = row /\ \A v \in Unfinished : v # u => uploads'[v] = uploads[v]
  BY <1>1, <1>2 DEF Unfinished
<1>10. Verified' = Verified /\ ContentChunks' = ContentChunks
  BY <1>1 DEF Verified, ContentChunks
<1>11. UploadsOK'
  <2>1. \A v \in Unfinished : /\ DOMAIN uploads'[v] = {"received", "chunks"}
                              /\ uploads'[v].received \in Nat /\ uploads'[v].received <= Length[v]
                              /\ IsSequence(uploads'[v].chunks)
    BY <1>4, <1>6, <1>8, <1>9 DEF StoreInv, UploadsOK
  <2> QED
    BY <1>9, <2>1 DEF StoreInv, UploadsOK, IsSequence
<1>12. ContentsOK'
  BY <1>1 DEF StoreInv, ContentsOK, Verified, Published, IsSequence
<1>13. \A v \in Unfinished : ChunksOf(v)' = ToSet(uploads'[v].chunks)
  BY DEF ChunksOf
<1>14. ASSUME NEW v \in Unfinished
       PROVE  \/ ChunksOf(v)' = ChunksOf(v)
              \/ ChunksOf(v)' = kept \cup fresh /\ ChunksOf(v) = kept \cup last
  <2>1. CASE v = u
    <3>1. ChunksOf(v) = kept \cup last
      BY <1>5, <2>1 DEF kept
    <3>2. ChunksOf(v)' = kept \cup fresh
      BY <1>6, <1>9, <1>13, <2>1 DEF kept
    <3> QED
      BY <3>1, <3>2
  <2>2. CASE v # u
    BY <1>9, <1>13, <2>2 DEF ChunksOf
  <2> QED
    BY <2>1, <2>2
<1>15. UploadChunks' \subseteq UploadChunks \cup fresh
  <2> SUFFICES ASSUME NEW v \in Unfinished, NEW k \in ChunksOf(v)'
               PROVE  k \in UploadChunks \cup fresh
    BY <1>9 DEF UploadChunks
  <2>1. k \in ChunksOf(v) \/ k \in fresh
    BY <1>14
  <2> QED
    BY <2>1 DEF UploadChunks
<1>16. UploadChunks \subseteq UploadChunks' \cup last
  <2> SUFFICES ASSUME NEW v \in Unfinished, NEW k \in ChunksOf(v), k \notin last
               PROVE  k \in UploadChunks'
    BY DEF UploadChunks
  <2>1. k \in ChunksOf(v)'
    BY <1>14
  <2> QED
    BY <1>9, <2>1 DEF UploadChunks
<1>17. fresh \subseteq UploadChunks'
  <2>1. fresh \subseteq ToSet(uploads'[u].chunks)
    BY <1>6, <1>9
  <2> QED
    BY <1>2, <1>9, <1>13, <2>1 DEF UploadChunks
<1>18. Referenced' \subseteq Referenced \cup fresh /\ Referenced \subseteq Referenced' \cup last /\ fresh \subseteq Referenced'
  BY <1>10, <1>15, <1>16, <1>17 DEF Referenced
<1>19. fresh \subseteq blobs
  BY <1>1 DEF StoreInv, OwnApart, fresh
<1>20. Accounted'
  BY <1>1, <1>18, <1>19 DEF StoreInv, Accounted, NothingLeaked
<1>21. ASSUME NEW v \in Worker, v # w, Writing(v)
       PROVE  /\ tx[v].of \in Unfinished'
              /\ ToSet(tx[v].fresh) \subseteq blobs'
              /\ Own(tx[v]) \subseteq journal'
              /\ Own(tx[v]) \cap Referenced' = {}
  <2>1. Own(tx[v]) \cap fresh = {}
    BY <1>1, <1>21 DEF StoreInv, OwnApart, Own, fresh
  <2> QED
    BY <1>1, <1>9, <1>18, <1>21, <2>1 DEF StoreInv, RowsHeld, OwnApart
<1> QED
  BY <1>1, <1>7, <1>10, <1>11, <1>12, <1>20, <1>21, OneWorker

\* The end of a transfer takes its row, and no other.
LEMMA RetireIs ==
    ASSUME NEW u, Retire(u), UploadsOK
    PROVE  /\ Unfinished' = Unfinished \ {u}
           /\ UploadsOK'
           /\ UploadChunks' \subseteq UploadChunks
           /\ UploadChunks \subseteq UploadChunks' \cup ChunksOf(u)
<1>1. Unfinished' = Unfinished \ {u} /\ \A v \in Unfinished \ {u} : uploads'[v] = uploads[v]
  BY DEF Retire, Unfinished
<1>2. UploadsOK'
  BY <1>1 DEF UploadsOK, IsSequence
<1>3. \A v \in Unfinished \ {u} : ChunksOf(v)' = ChunksOf(v)
  BY <1>1 DEF ChunksOf
<1> QED
  BY <1>1, <1>2, <1>3 DEF UploadChunks

\* A worker is done with a publication; the storage may have lost what it wrote.
LEMMA PublishedStep ==
    ASSUME StoreInv, NEW w \in Worker, Writing(w), tx' = [tx EXCEPT ![w] = Idle],
           UploadsOK', ContentsOK', Accounted', Verified \subseteq Verified',
           Unfinished \ {tx[w].of} \subseteq Unfinished',
           ContentChunks \subseteq ContentChunks', journal \subseteq journal',
           blobs \ ToSet(tx[w].fresh) \subseteq blobs',
           Referenced' \subseteq Referenced \cup ToSet(tx[w].fresh)
    PROVE  StoreInv'
<1>1. ASSUME NEW v \in Worker, v # w, Writing(v)
      PROVE  /\ tx[v].of \in Unfinished'
             /\ ToSet(tx[v].fresh) \subseteq blobs'
             /\ Own(tx[v]) \subseteq journal'
             /\ Own(tx[v]) \cap Referenced' = {}
  <2>1. tx[v].of # tx[w].of /\ tx[v].of \in Unfinished
    BY <1>1 DEF StoreInv, RowsHeld
  <2>2. Own(tx[v]) \cap ToSet(tx[w].fresh) = {} /\ ToSet(tx[v].fresh) \subseteq Own(tx[v])
    BY <1>1 DEF StoreInv, OwnApart, Own
  <2> QED
    BY <1>1, <2>1, <2>2 DEF StoreInv, OwnApart
<1> QED
  BY <1>1, IdleIs, OneWorker

LEMMA PublishNewStep ==
    ASSUME StoreInv, NEW w \in Worker, PublishNew(w)
    PROVE  StoreInv'
<1> DEFINE u == tx[w].of
           fresh == ToSet(tx[w].fresh)
<1>1. /\ Writing(w)
      /\ contents' = With(contents, u, tx[w].fresh)
      /\ files' = With(files, u, u)
      /\ journal' = journal \cup ChunksOf(u)
      /\ Retire(u)
      /\ tx' = [tx EXCEPT ![w] = Idle] /\ blobs' = blobs
  BY DEF PublishNew, PublishJournal, Written, Writing
<1>2. IsSequence(tx[w].fresh)
  BY <1>1, WorkerFacts DEF Entry
<1>3. u \in Unfinished /\ fresh \subseteq blobs /\ fresh \subseteq journal
  BY <1>1 DEF StoreInv, RowsHeld, OwnApart, Own
<1>4. ChunksOf(u) \subseteq UploadChunks
  BY <1>3 DEF UploadChunks
<1> HIDE DEF u
<1>5. /\ Unfinished' = Unfinished \ {u}
      /\ UploadsOK'
      /\ UploadChunks' \subseteq UploadChunks
      /\ UploadChunks \subseteq UploadChunks' \cup ChunksOf(u)
  BY <1>1, RetireIs DEF StoreInv
<1>6. /\ Verified' = Verified \cup {u} /\ contents'[u] = tx[w].fresh
      /\ \A c \in Verified : c # u => contents'[c] = contents[c]
  BY <1>1 DEF Verified, With
<1>7. Published' = Published \cup {u} /\ files'[u] = u /\ \A f \in Published : f # u => files'[f] = files[f]
  BY <1>1 DEF Published, With
<1>8. u \notin Verified /\ Verified \subseteq Published
  BY DEF PublishNew, StoreInv, ContentsOK, u
<1>9. ContentsOK'
  <2>1. \A c \in Verified' : IsSequence(contents'[c])
    BY <1>2, <1>6 DEF StoreInv, ContentsOK
  <2>2. \A f \in Published' : files'[f] \in Verified'
    BY <1>6, <1>7 DEF StoreInv, ContentsOK
  <2>3. Verified' \subseteq Published'
    BY <1>6, <1>7, <1>8
  <2> QED
    BY <2>1, <2>2, <2>3 DEF ContentsOK, IsSequence
<1>10. /\ ContentChunks' = ContentChunks \cup fresh
       /\ Verified \subseteq Verified'
  <2>1. \A c \in Verified : ToSet(contents'[c]) = ToSet(contents[c])
    BY <1>6, <1>8
  <2> QED
    BY <1>6, <1>8, <2>1 DEF ContentChunks
<1>11. Referenced' \subseteq Referenced \cup fresh /\ Referenced \subseteq Referenced' \cup ChunksOf(u)
  BY <1>5, <1>10 DEF Referenced
<1>12. Accounted'
  BY <1>1, <1>3, <1>11 DEF StoreInv, Accounted, NothingLeaked
<1> HIDE DEF fresh
<1> QED
  BY <1>1, <1>5, <1>9, <1>10, <1>11, <1>12, PublishedStep DEF u, fresh

LEMMA PublishReusedStep ==
    ASSUME StoreInv, NEW w \in Worker, PublishReused(w)
    PROVE  StoreInv'
<1> DEFINE u == tx[w].of
           fresh == ToSet(tx[w].fresh)
<1>1. /\ Writing(w) /\ u \notin Published
      /\ blobs' = blobs \ fresh
      /\ journal' = journal \cup ChunksOf(u)
      /\ Retire(u)
      /\ tx' = [tx EXCEPT ![w] = Idle] /\ contents' = contents
  BY DEF PublishReused, PublishJournal, Written, Writing
<1>2. PICK c \in tx[w].known : files' = With(files, u, c)
  BY DEF PublishReused
<1>3. c \in Verified
  BY <1>1, <1>2, WorkerFacts
<1>4. fresh \cap Referenced = {}
  BY <1>1 DEF StoreInv, OwnApart, Own
<1> HIDE DEF u, fresh
<1>5. /\ Unfinished' = Unfinished \ {u}
      /\ UploadsOK'
      /\ UploadChunks' \subseteq UploadChunks
      /\ UploadChunks \subseteq UploadChunks' \cup ChunksOf(u)
  BY <1>1, RetireIs DEF StoreInv
<1>6. Verified' = Verified /\ ContentChunks' = ContentChunks
  BY <1>1 DEF Verified, ContentChunks
<1>7. Published' = Published \cup {u} /\ files'[u] = c /\ \A f \in Published : f # u => files'[f] = files[f]
  BY <1>2 DEF Published, With
<1>8. ContentsOK'
  <2>1. \A f \in Published' : files'[f] \in Verified'
    BY <1>3, <1>6, <1>7 DEF StoreInv, ContentsOK
  <2>2. Verified' \subseteq Published' /\ \A d \in Verified' : IsSequence(contents'[d])
    BY <1>1, <1>6, <1>7 DEF StoreInv, ContentsOK
  <2> QED
    BY <2>1, <2>2 DEF ContentsOK, IsSequence
<1>9. Referenced' \subseteq Referenced /\ Referenced \subseteq Referenced' \cup ChunksOf(u)
  BY <1>5, <1>6 DEF Referenced
<1>10. Accounted'
  BY <1>1, <1>4, <1>9 DEF StoreInv, Accounted, NothingLeaked
<1> QED
  BY <1>1, <1>5, <1>6, <1>8, <1>9, <1>10, PublishedStep DEF u, fresh

LEMMA PublishUndoneStep ==
    ASSUME StoreInv, NEW w \in Worker, PublishUndone(w)
    PROVE  StoreInv'
<1> DEFINE fresh == ToSet(tx[w].fresh)
<1>1. /\ Writing(w)
      /\ blobs \ fresh \subseteq blobs' /\ blobs' \subseteq blobs
      /\ tx' = [tx EXCEPT ![w] = Idle]
      /\ journal' = journal /\ uploads' = uploads /\ contents' = contents /\ files' = files
  BY DEF PublishUndone, Written, Writing
<1>2. fresh \cap Referenced = {}
  BY <1>1 DEF StoreInv, OwnApart, Own
<1> HIDE DEF fresh
<1>3. Unfinished' = Unfinished /\ Verified' = Verified /\ Referenced' = Referenced /\ ContentChunks' = ContentChunks
  BY <1>1 DEF Unfinished, Verified, Referenced, UploadChunks, ContentChunks, ChunksOf
<1>4. UploadsOK' /\ ContentsOK'
  BY <1>1 DEF StoreInv, UploadsOK, ContentsOK, Unfinished, Verified, Published, IsSequence
<1>5. Accounted'
  BY <1>1, <1>2, <1>3 DEF StoreInv, Accounted, NothingLeaked
<1> QED
  BY <1>1, <1>3, <1>4, <1>5, PublishedStep DEF fresh

LEMMA CreateStep ==
    ASSUME FilesAssumption, StoreInv, NEW u \in Upload, Create(u)
    PROVE  StoreInv'
<1> DEFINE row == [received |-> 0, chunks |-> << >>]
<1>1. /\ u \notin Unfinished
      /\ uploads' = With(uploads, u, row)
      /\ tx' = tx /\ blobs' = blobs /\ journal' = journal /\ contents' = contents /\ files' = files
  BY DEF Create
<1>2. /\ DOMAIN row = {"received", "chunks"} /\ row.received = 0
      /\ IsSequence(row.chunks) /\ ToSet(row.chunks) = {}
  BY EmptyIs
<1> HIDE DEF row
<1>3. /\ Unfinished' = Unfinished \cup {u} /\ uploads'[u] = row
      /\ \A v \in Unfinished : uploads'[v] = uploads[v]
  BY <1>1 DEF Unfinished, With
<1>4. Length[u] \in Nat
  BY DEF FilesAssumption
<1>5. UploadsOK'
  <2>1. \A v \in Unfinished' : /\ DOMAIN uploads'[v] = {"received", "chunks"}
                               /\ uploads'[v].received \in Nat /\ uploads'[v].received <= Length[v]
                               /\ IsSequence(uploads'[v].chunks)
    BY <1>2, <1>3, <1>4 DEF StoreInv, UploadsOK
  <2> QED
    BY <1>3, <2>1 DEF StoreInv, UploadsOK, IsSequence
<1>6. ContentsOK' /\ Verified' = Verified /\ ContentChunks' = ContentChunks
  BY <1>1 DEF StoreInv, ContentsOK, Verified, Published, ContentChunks, IsSequence
<1>7. UploadChunks' = UploadChunks
  <2>1. \A v \in Unfinished : ChunksOf(v)' = ChunksOf(v)
    BY <1>3 DEF ChunksOf
  <2>2. ChunksOf(u)' = {}
    BY <1>2, <1>3 DEF ChunksOf
  <2> QED
    BY <1>3, <2>1, <2>2 DEF UploadChunks
<1>8. Referenced' = Referenced
  BY <1>6, <1>7 DEF Referenced
<1>9. Accounted'
  BY <1>1, <1>8 DEF StoreInv, Accounted, NothingLeaked
<1> QED
  BY <1>1, <1>3, <1>5, <1>6, <1>8, <1>9, StandingStep

-----------------------------------------------------------------------------
(* Maintenance.                                                             *)

LEMMA RetireExpiredStep ==
    ASSUME StoreInv, NEW u, RetireExpired(u)
    PROVE  StoreInv'
<1>1. /\ MaintenanceFree /\ u \in Unfinished /\ Retire(u)
      /\ journal' = journal \cup ChunksOf(u)
      /\ tx' = tx /\ blobs' = blobs /\ contents' = contents /\ files' = files
  BY DEF RetireExpired
<1>2. /\ UploadsOK'
      /\ UploadChunks' \subseteq UploadChunks
      /\ UploadChunks \subseteq UploadChunks' \cup ChunksOf(u)
  BY <1>1, RetireIs DEF StoreInv
<1>3. ContentsOK' /\ ContentChunks' = ContentChunks
  BY <1>1 DEF StoreInv, ContentsOK, Verified, Published, ContentChunks, IsSequence
<1>4. Accounted'
  BY <1>1, <1>2, <1>3 DEF StoreInv, Accounted, NothingLeaked, Referenced
<1> QED
  BY <1>1, <1>2, <1>3, <1>4, MaintenanceStep

LEMMA RotateStep ==
    ASSUME StoreInv, Rotate
    PROVE  StoreInv'
<1>1. PICK old \in Referenced : \E new \in FreshKeys(old.parts) :
          /\ blobs' = blobs \cup {new}
          /\ journal' = journal \cup {old, new}
          /\ uploads' = [u \in Unfinished |-> [uploads[u] EXCEPT !.chunks = Replaced(@, old, new)]]
          /\ contents' = [c \in Verified |-> Replaced(contents[c], old, new)]
  BY DEF Rotate
<1>2. PICK new \in FreshKeys(old.parts) :
          /\ blobs' = blobs \cup {new}
          /\ journal' = journal \cup {old, new}
          /\ uploads' = [u \in Unfinished |-> [uploads[u] EXCEPT !.chunks = Replaced(@, old, new)]]
          /\ contents' = [c \in Verified |-> Replaced(contents[c], old, new)]
  BY <1>1
<1>3. MaintenanceFree /\ tx' = tx /\ files' = files
  BY DEF Rotate
<1>4. Unfinished' = Unfinished /\ Verified' = Verified /\ Published' = Published
  BY <1>2, <1>3 DEF Unfinished, Verified, Published
<1>5. ASSUME NEW u \in Unfinished
      PROVE  /\ DOMAIN uploads'[u] = {"received", "chunks"}
             /\ uploads'[u].received = uploads[u].received
             /\ uploads'[u].chunks = Replaced(uploads[u].chunks, old, new)
  BY <1>2 DEF StoreInv, UploadsOK
<1>6. \A u \in Unfinished : /\ IsSequence(uploads'[u].chunks)
                            /\ ToSet(uploads'[u].chunks) \subseteq ChunksOf(u) \cup {new}
                            /\ ChunksOf(u) \subseteq ToSet(uploads'[u].chunks) \cup {old}
  BY <1>5, ReplacedIs DEF StoreInv, UploadsOK, ChunksOf
<1>7. \A c \in Verified : /\ IsSequence(contents'[c])
                          /\ ToSet(contents'[c]) \subseteq ToSet(contents[c]) \cup {new}
                          /\ ToSet(contents[c]) \subseteq ToSet(contents'[c]) \cup {old}
  BY <1>2, ReplacedIs DEF StoreInv, ContentsOK
<1>8. UploadsOK'
  BY <1>4, <1>5, <1>6 DEF StoreInv, UploadsOK, IsSequence
<1>9. ContentsOK'
  BY <1>3, <1>4, <1>7 DEF StoreInv, ContentsOK, IsSequence
<1>10. UploadChunks' \subseteq UploadChunks \cup {new} /\ UploadChunks \subseteq UploadChunks' \cup {old}
  <2>1. \A u \in Unfinished : ChunksOf(u)' = ToSet(uploads'[u].chunks)
    BY DEF ChunksOf
  <2> QED
    BY <1>4, <1>6, <2>1 DEF UploadChunks
<1>11. ContentChunks' \subseteq ContentChunks \cup {new} /\ ContentChunks \subseteq ContentChunks' \cup {old}
  BY <1>4, <1>7 DEF ContentChunks
<1>12. Accounted'
  BY <1>2, <1>10, <1>11 DEF StoreInv, Accounted, NothingLeaked, Referenced
<1> QED
  BY <1>3, <1>8, <1>9, <1>12, MaintenanceStep

\* Maintenance that changes no row.
LEMMA SweepStep ==
    ASSUME StoreInv, MaintenanceFree, UNCHANGED <<uploads, contents, files, tx>>,
           Referenced \subseteq blobs', blobs' \subseteq Referenced \cup journal'
    PROVE  StoreInv'
<1>1. UploadsOK' /\ ContentsOK' /\ Referenced' = Referenced
  BY DEF StoreInv, UploadsOK, ContentsOK, Unfinished, Verified, Published, IsSequence,
         Referenced, UploadChunks, ContentChunks, ChunksOf
<1>2. Accounted'
  BY <1>1 DEF Accounted, NothingLeaked
<1> QED
  BY <1>1, <1>2, MaintenanceStep

LEMMA RotateInterruptedStep ==
    ASSUME StoreInv, RotateInterrupted
    PROVE  StoreInv'
<1>1. PICK old \in Referenced : \E new \in FreshKeys(old.parts) :
          journal' = journal \cup {new} /\ blobs' \in {blobs, blobs \cup {new}}
  BY DEF RotateInterrupted
<1>2. PICK new \in FreshKeys(old.parts) : journal' = journal \cup {new} /\ blobs' \in {blobs, blobs \cup {new}}
  BY <1>1
<1>3. Referenced \subseteq blobs' /\ blobs' \subseteq Referenced \cup journal'
  BY <1>2 DEF StoreInv, Accounted, NothingLeaked
<1> QED
  BY <1>3, SweepStep DEF RotateInterrupted

LEMMA CollectStep ==
    ASSUME StoreInv, Collect \/ CollectInterrupted
    PROVE  StoreInv'
<1>1. CASE Collect
  <2>1. Referenced \subseteq blobs' /\ blobs' \subseteq Referenced \cup journal'
    BY <1>1 DEF Collect, StoreInv, Accounted, NothingLeaked
  <2> QED
    BY <1>1, <2>1, SweepStep DEF Collect
<1>2. CASE CollectInterrupted
  <2>1. Referenced \subseteq blobs' /\ blobs' \subseteq Referenced \cup journal'
    BY <1>2 DEF CollectInterrupted, StoreInv, Accounted, NothingLeaked
  <2> QED
    BY <1>2, <2>1, SweepStep DEF CollectInterrupted
<1> QED
  BY <1>1, <1>2

LEMMA SameStorageStep ==
    ASSUME StoreInv, UNCHANGED storage, tx' = tx
    PROVE  StoreInv'
<1>1. UploadsOK' /\ ContentsOK' /\ Accounted'
  BY DEF StoreInv, UploadsOK, ContentsOK, Accounted, NothingLeaked, Referenced, UploadChunks, ContentChunks,
         ChunksOf, Unfinished, Verified, Published, IsSequence, storage
<1>2. Unfinished' = Unfinished /\ Verified' = Verified /\ Referenced' = Referenced /\ ContentChunks' = ContentChunks
  BY DEF Unfinished, Verified, Referenced, UploadChunks, ContentChunks, ChunksOf, storage
<1> QED
  BY <1>1, <1>2, StandingStep DEF storage

\* A device gives up: nobody listens to its requests any more.
LEMMA HeardStep ==
    ASSUME StoreInv, NEW u, UNCHANGED storage,
           tx' = [w \in Worker |-> IF tx[w].op \in Requests /\ tx[w].of = u THEN Unheard(tx[w]) ELSE tx[w]]
    PROVE  StoreInv'
<1>1. DOMAIN tx' = Worker /\ Worker' = Worker
  BY DEF Worker
<1>2. ASSUME NEW w \in Worker
      PROVE  /\ Entry(tx'[w])
             /\ tx'[w].op = tx[w].op
             /\ Writing(w) => /\ tx'[w].of = tx[w].of /\ tx'[w].fresh = tx[w].fresh
                             /\ tx'[w].intent = tx[w].intent /\ tx'[w].known = tx[w].known
             /\ tx[w].op = "read" => tx'[w] = tx[w]
  <2>1. Entry(tx[w]) /\ (Writing(w) <=> tx[w].op \in Writes)
    BY WorkerFacts
  <2>2. CASE tx'[w] = tx[w]
    BY <2>1, <2>2
  <2>3. CASE tx[w].op \in Requests /\ tx'[w] = Unheard(tx[w])
    <3> DEFINE t == tx[w]
    <3>1. {"op", "of", "offset", "size", "heard"} \subseteq DOMAIN t
      BY <2>1, <2>3 DEF Entry
    <3>2. /\ DOMAIN Unheard(t) = DOMAIN t
          /\ \A f \in DOMAIN t : f # "heard" => Unheard(t)[f] = t[f]
      BY DEF Unheard
    <3>3. /\ Unheard(t).op = t.op /\ Unheard(t).of = t.of
          /\ Unheard(t).offset = t.offset /\ Unheard(t).size = t.size
      BY <3>1, <3>2
    <3>4. t.op \in Writes => /\ Unheard(t).fresh = t.fresh /\ Unheard(t).intent = t.intent
                            /\ Unheard(t).known = t.known
      BY <2>1, <3>2 DEF Entry
    <3> HIDE DEF t
    <3>5. Entry(t) => Entry(Unheard(t))
      BY <3>1, <3>2, <3>3, <3>4 DEF Entry, WithinFile
    <3>6. t.op # "read"
      BY <2>3 DEF Requests, t
    <3> QED
      BY <2>1, <2>3, <3>3, <3>4, <3>5, <3>6 DEF t
  <2> QED
    BY <1>1, <2>2, <2>3
<1>3. \A w \in Worker : Writing(w)' <=> Writing(w)
  BY <1>2 DEF Writing
<1>4. UploadsOK' /\ ContentsOK' /\ Accounted'
  BY DEF StoreInv, UploadsOK, ContentsOK, Accounted, NothingLeaked, Referenced, UploadChunks, ContentChunks,
         ChunksOf, Unfinished, Verified, Published, IsSequence, storage
<1>5. Unfinished' = Unfinished /\ Verified' = Verified /\ Referenced' = Referenced /\ ContentChunks' = ContentChunks
  BY DEF Unfinished, Verified, Referenced, UploadChunks, ContentChunks, ChunksOf, storage
<1>6. TxOK'
  BY <1>1, <1>2 DEF TxOK, Entry, Requests, Writes, WithinFile, IsSequence
<1>7. RowsHeld'
  BY <1>1, <1>2, <1>3, <1>5 DEF StoreInv, RowsHeld
<1>8. \A w \in Worker : Writing(w) => Own(tx'[w]) = Own(tx[w])
  BY <1>2 DEF Own
<1>9. OwnApart'
  <2> SUFFICES ASSUME NEW x \in Worker, Writing(x)
               PROVE  /\ ToSet(tx'[x].fresh) \subseteq blobs'
                      /\ Own(tx'[x]) \subseteq journal'
                      /\ Own(tx'[x]) \cap Referenced' = {}
                      /\ \A v \in Worker : Writing(v) /\ v # x => Own(tx'[v]) \cap Own(tx'[x]) = {}
    BY <1>1, <1>3 DEF OwnApart, Own, ToSet
  <2> QED
    BY <1>2, <1>5, <1>8 DEF StoreInv, OwnApart, storage
<1>10. ReadersPinned'
  BY <1>1, <1>2, <1>5 DEF StoreInv, ReadersPinned
<1> QED
  BY <1>4, <1>6, <1>7, <1>9, <1>10 DEF StoreInv

-----------------------------------------------------------------------------
(* The device.                                                              *)

\* The device stands somewhere else with one file, or is where it was.
LEMMA DeviceStep ==
    ASSUME DeviceInv, Published \subseteq Published', NEW u, NEW next,
           device' = device \/ device' = [device EXCEPT ![u] = next],
           u \in Sending => /\ next.at = "send" => next.offset \in Nat /\ next.offset <= Length[u]
                            /\ next = Done => u \in Published',
           \A r \in sent' : SentOK(r)
    PROVE  DeviceInv'
<1>1. Sending' = Sending /\ DOMAIN device' = Sending
  BY DEF DeviceInv, Sending
<1>2. ASSUME NEW v \in Sending
      PROVE  /\ device'[v].at = "send" => device'[v].offset \in Nat /\ device'[v].offset <= Length[v]
             /\ device'[v] = Done => v \in Published'
  <2>1. device'[v] = device[v] \/ (v = u /\ device'[v] = next)
    BY DEF DeviceInv
  <2> QED
    BY <2>1 DEF DeviceInv, Standing
<1>3. \A v \in Sending : Standing(v, device[v])'
  BY <1>2 DEF Standing, Done, At
<1> QED
  BY <1>1, <1>3 DEF DeviceInv, SentOK, WithinFile

LEMMA DeviceRests ==
    ASSUME DeviceInv, Published \subseteq Published', device' = device, sent' \subseteq sent
    PROVE  DeviceInv'
<1>1. \A r \in sent' : SentOK(r)
  BY DEF DeviceInv
<1>2. \A v \in Sending : Standing(v, device[v])'
  BY DEF DeviceInv, Standing, Done, At
<1> QED
  BY <1>1, <1>2 DEF DeviceInv, Sending, SentOK, WithinFile

\* Where the device may be put without more ado.
LEMMA Places ==
    /\ \A n : Offset(n).at = "send" /\ Offset(n).offset = n /\ Offset(n) # Done
    /\ \A phase \in {"ask", "missing", "create", "creating", "sending", "lost", "rest", "absent"} :
           At(phase).at # "send" /\ At(phase) # Done
    /\ Done.at # "send" /\ Resting.at # "send" /\ Resting # Done
  BY DEF Offset, At, Done, Resting

LEMMA ContinueStep ==
    ASSUME FilesAssumption, TransferAssumption, StoreInv, DeviceInv, NEW u \in Sending, Continue(u)
    PROVE  StoreInv' /\ DeviceInv'
<1>1. /\ UNCHANGED fileVars
      /\ StoreInv'
      /\ Published' = Published
  <2>1. UNCHANGED fileVars
    BY DEF Continue, Discover, LookForFile, Ask, SendCreate, SendPatch
  <2> QED
    BY <2>1, SameStorageStep DEF fileVars, storage, Published
<1>2. u \in Upload /\ Length[u] \in Nat /\ DOMAIN device = Sending /\ Standing(u, device[u])
  BY DEF Sending, FilesAssumption, DeviceInv
<1>3. \A r \in sent : SentOK(r)
  BY DEF DeviceInv
<1>4. CASE Discover(u)
  BY <1>1, <1>3, <1>4, Places, DeviceStep DEF Discover, Becomes
<1>5. CASE LookForFile(u)
  BY <1>1, <1>3, <1>5, Places, DeviceStep DEF LookForFile, Becomes
<1>6. CASE Ask(u)
  <2>1. /\ Learnt(u).at = "send" => Learnt(u).offset \in Nat /\ Learnt(u).offset <= Length[u]
        /\ Learnt(u) # Done
    BY <1>2, Places DEF Learnt, StoreInv, UploadsOK
  <2> QED
    BY <1>1, <1>3, <1>6, <2>1, DeviceStep DEF Ask, Becomes
<1>7. CASE SendCreate(u)
  <2>1. SentOK(Creation(u))
    BY <1>2 DEF SentOK, Creation
  <2> QED
    BY <1>1, <1>3, <1>7, <2>1, Places, DeviceStep DEF SendCreate, Becomes
<1>8. CASE SendPatch(u)
  <2>1. device[u].offset \in Nat /\ device[u].offset <= Length[u]
    BY <1>2, <1>8 DEF SendPatch, Standing
  <2>2. SentOK(Patch(u))
    BY <1>2, <2>1 DEF SentOK, Patch, WithinFile, TransferAssumption
  <2> QED
    BY <1>1, <1>3, <1>8, <2>2, Places, DeviceStep DEF SendPatch, Becomes
<1> QED
  BY <1>4, <1>5, <1>6, <1>7, <1>8 DEF Continue

LEMMA ArriveStep ==
    ASSUME FilesAssumption, StoreInv, DeviceInv, NEW r \in sent, Arrive(r)
    PROVE  StoreInv' /\ DeviceInv'
<1>1. SentOK(r) /\ \A q \in sent : SentOK(q)
  BY DEF DeviceInv
<1>2. CASE ArriveCreate(r)
  <2>1. CASE Create(r.of) /\ Answer(r, At("ask"))
    <3>1. StoreInv' /\ Published' = Published
      BY <1>1, <2>1, CreateStep DEF SentOK, Create, Published
    <3> QED
      BY <1>1, <1>2, <2>1, <3>1, Places, DeviceStep DEF ArriveCreate, Answer
  <2>2. CASE Answer(r, Resting) /\ UNCHANGED fileVars
    <3>1. StoreInv' /\ Published' = Published
      BY <2>2, SameStorageStep DEF fileVars, storage, Published
    <3> QED
      BY <1>1, <1>2, <2>2, <3>1, Places, DeviceStep DEF ArriveCreate, Answer
  <2> QED
    BY <1>2, <2>1, <2>2 DEF ArriveCreate
<1>3. CASE \E w \in Worker : ArrivePatch(r, w)
  <2>1. PICK w \in Worker : ArrivePatch(r, w)
    BY <1>3
  <2>2. CASE r.of \in Published
    <3>1. StoreInv' /\ Published' = Published
      BY <2>1, <2>2, SameStorageStep DEF ArrivePatch, fileVars, storage, Published
    <3> QED
      BY <1>1, <2>1, <2>2, <3>1, Places, DeviceStep DEF ArrivePatch, Answer
  <2>3. CASE r.of \notin Published
    <3>1. StoreInv' /\ Published' = Published
      BY <1>1, <2>1, <2>3, ReceiveStep DEF ArrivePatch, SentOK, Receive, storage, Published
    <3> QED
      BY <2>1, <2>3, <3>1, DeviceRests DEF ArrivePatch
  <2> QED
    BY <2>2, <2>3
<1> QED
  BY <1>2, <1>3 DEF Arrive

\* A worker answers the request it serves.
LEMMA AnswerStep ==
    ASSUME DeviceInv, Published \subseteq Published', sent' = sent, NEW q, NEW next, Answer(q, next),
           next.at = "send" => next.offset \in Nat /\ next.offset <= Length[q.of],
           next = Done => q.of \in Published'
    PROVE  DeviceInv'
<1>1. \A r \in sent' : SentOK(r)
  BY DEF DeviceInv
<1>2. device' = device \/ device' = [device EXCEPT ![q.of] = next]
  BY DEF Answer
<1> QED
  BY <1>1, <1>2, DeviceStep

LEMMA ServeAppendStep ==
    ASSUME FilesAssumption, StoreInv, DeviceInv, NEW w \in Worker, ServeAppend(w)
    PROVE  StoreInv' /\ DeviceInv'
<1>1. sent' = sent
  BY DEF ServeAppend
<1>2. CASE OpenAppend(w) /\ UNCHANGED device
  <2>1. StoreInv' /\ Published' = Published
    BY <1>2, OpenAppendStep DEF OpenAppend, Turn, storage, Published
  <2> QED
    BY <1>1, <1>2, <2>1, DeviceRests
<1>3. CASE RefuseAppend(w) /\ Answer(tx[w], Corrected(tx[w]))
  <2>1. StoreInv' /\ Published' = Published
    BY <1>3, RestStep DEF RefuseAppend, Turn, storage, Published
  <2>2. tx[w].of \in Upload /\ Length[tx[w].of] \in Nat
    BY <1>3, WorkerFacts DEF RefuseAppend, Entry, Requests, WithinFile, FilesAssumption
  <2> DEFINE next == Corrected(tx[w])
  <2>3. /\ next.at = "send" => next.offset \in Nat /\ next.offset <= Length[tx[w].of]
        /\ next = Done => tx[w].of \in Published
    BY <2>2, Places DEF Corrected, StoreInv, UploadsOK
  <2> HIDE DEF next
  <2> QED
    BY <1>1, <1>3, <2>1, <2>3, AnswerStep DEF next
<1>4. CASE /\ CommitAppend(w)
           /\ IF tx'[w] = Idle THEN Answer(tx[w], Offset(tx[w].offset + tx[w].size)) ELSE UNCHANGED device
  <2>1. StoreInv' /\ Published' = Published
    BY <1>4, CommitAppendStep DEF CommitAppend, Published
  <2>2. WithinFile(tx[w])
    BY <1>4, WorkerFacts DEF CommitAppend, Written, Entry, Requests
  <2> DEFINE next == Offset(tx[w].offset + tx[w].size)
  <2>3. next.at = "send" /\ next.offset \in Nat /\ next.offset <= Length[tx[w].of] /\ next # Done
    BY <2>2, Places DEF WithinFile
  <2> HIDE DEF next
  <2>4. CASE Answer(tx[w], next)
    BY <1>1, <2>1, <2>3, <2>4, AnswerStep
  <2>5. CASE UNCHANGED device
    BY <1>1, <2>1, <2>5, DeviceRests
  <2> QED
    BY <1>4, <2>1, <2>4, <2>5 DEF next
<1> QED
  BY <1>2, <1>3, <1>4 DEF ServeAppend

LEMMA ServePublishStep ==
    ASSUME FilesAssumption, StoreInv, DeviceInv, NEW w \in Worker, ServePublish(w)
    PROVE  StoreInv' /\ DeviceInv'
<1>1. sent' = sent
  BY DEF ServePublish
<1>2. CASE OpenPublish(w) /\ UNCHANGED device
  <2>1. StoreInv' /\ Published' = Published
    BY <1>2, OpenPublishStep DEF OpenPublish, Turn, storage, Published
  <2> QED
    BY <1>1, <1>2, <2>1, DeviceRests
<1>3. CASE /\ RefusePublish(w)
           /\ Answer(tx[w], IF tx[w].of \notin Unfinished /\ tx[w].of \in Published THEN Done ELSE Resting)
  <2>1. StoreInv' /\ Published' = Published
    BY <1>3, RestStep DEF RefusePublish, Turn, storage, Published
  <2>2. CASE tx[w].of \in Published /\ Answer(tx[w], Done)
    BY <1>1, <2>1, <2>2, Places, AnswerStep
  <2>3. CASE Answer(tx[w], Resting)
    BY <1>1, <2>1, <2>3, Places, AnswerStep
  <2> QED
    BY <1>3, <2>1, <2>2, <2>3
<1>4. CASE PublishNew(w) /\ Answer(tx[w], Done)
  <2>1. StoreInv' /\ Published' = Published \cup {tx[w].of}
    BY <1>4, PublishNewStep DEF PublishNew, Published, With
  <2> QED
    BY <1>1, <1>4, <2>1, Places, AnswerStep
<1>5. CASE PublishReused(w) /\ Answer(tx[w], Done)
  <2>1. StoreInv' /\ Published' = Published \cup {tx[w].of}
    BY <1>5, PublishReusedStep DEF PublishReused, Published, With
  <2> QED
    BY <1>1, <1>5, <2>1, Places, AnswerStep
<1>6. CASE PublishUndone(w) /\ Answer(tx[w], Resting)
  <2>1. StoreInv' /\ Published' = Published
    BY <1>6, PublishUndoneStep DEF PublishUndone, Published
  <2> QED
    BY <1>1, <1>6, <2>1, Places, AnswerStep
<1> QED
  BY <1>2, <1>3, <1>4, <1>5, <1>6 DEF ServePublish

\* What else workers and the timer do, with nothing for the device to hear.
LEMMA QuietStep ==
    ASSUME StoreInv, DeviceInv,
           \/ \E w \in Worker : ServeWrite(w) \/ ServeRead(w) \/ StartReading(w)
           \/ HousekeepFiles
    PROVE  StoreInv' /\ DeviceInv'
<1>1. UNCHANGED <<device, sent>> /\ Published' = Published
  BY DEF ServeWrite, ServeRead, StartReading, HousekeepFiles, RegisterIntent, PutBlob, OpenRead, CloseRead,
         QueueCleanup, Collect, Turn, storage, Published
<1>2. DeviceInv'
  BY <1>1, DeviceRests
<1>3. ASSUME NEW w \in Worker, ServeWrite(w) \/ ServeRead(w) \/ StartReading(w)
      PROVE  StoreInv'
  BY <1>3, RegisterIntentStep, PutBlobStep, RestStep, OpenReadStep
  DEF ServeWrite, ServeRead, CloseRead, StartReading
<1>4. CASE HousekeepFiles
  <2>1. CASE QueueCleanup
    BY <1>2, <2>1, SameStorageStep DEF QueueCleanup
  <2>2. CASE Collect
    BY <1>2, <2>2, CollectStep
  <2> QED
    BY <1>4, <2>1, <2>2 DEF HousekeepFiles
<1> QED
  BY <1>2, <1>3, <1>4

LEMMA FaultStep ==
    ASSUME FilesAssumption, StoreInv, DeviceInv,
           (\E u \in Sending : GiveUp(u)) \/ (\E w \in Worker : Interrupt(w)) \/ Maintain
    PROVE  StoreInv' /\ DeviceInv'
<1>1. ASSUME NEW u \in Sending, GiveUp(u)
      PROVE  StoreInv' /\ DeviceInv'
  <2>1. StoreInv' /\ Published' = Published
    <3>1. tx' = [w \in Worker |-> IF tx[w].op \in Requests /\ tx[w].of = u THEN Unheard(tx[w]) ELSE tx[w]]
      BY <1>1 DEF GiveUp, Requests
    <3> QED
      BY <1>1, <3>1, HeardStep DEF GiveUp, storage, Published
  <2>2. ASSUME NEW q \in sent'
        PROVE  SentOK(q)
    <3>1. PICK r \in sent : q = IF r.of = u THEN Unheard(r) ELSE r
      BY <1>1, <2>2 DEF GiveUp
    <3>2. SentOK(r)
      BY DEF DeviceInv
    <3>3. /\ DOMAIN Unheard(r) = DOMAIN r
          /\ \A f \in DOMAIN r : f # "heard" => Unheard(r)[f] = r[f]
      BY DEF Unheard
    <3>4. SentOK(Unheard(r))
      BY <3>2, <3>3 DEF SentOK, WithinFile
    <3> QED
      BY <3>1, <3>2, <3>4
  <2> QED
    BY <1>1, <2>1, <2>2, Places, DeviceStep DEF GiveUp, Becomes
<1>2. ASSUME NEW w \in Worker, Interrupt(w)
      PROVE  StoreInv' /\ DeviceInv'
  <2>1. StoreInv' /\ Published' = Published
    <3>1. CASE Abort(w)
      BY <3>1, RestStep DEF Abort, Turn, storage, Published
    <3>2. CASE PublishUndone(w)
      BY <3>2, PublishUndoneStep DEF PublishUndone, Published
    <3> QED
      BY <1>2, <3>1, <3>2 DEF Interrupt
  <2> QED
    BY <1>2, <2>1, Places, AnswerStep DEF Interrupt
<1>3. CASE Maintain
  <2>1. UNCHANGED <<device, sent>> /\ Published' = Published
    BY <1>3 DEF Maintain, RetireExpired, Rotate, RotateInterrupted, CollectInterrupted, Published
  <2>2. StoreInv'
    BY <1>3, RetireExpiredStep, RotateStep, RotateInterruptedStep, CollectStep DEF Maintain
  <2> QED
    BY <2>1, <2>2, DeviceRests
<1> QED
  BY <1>1, <1>2, <1>3

-----------------------------------------------------------------------------
(* The theorems.                                                            *)

LEMMA FilesInvInit ==
    ASSUME FilesAssumption, TransferAssumption, TransferInit
    PROVE  FilesInv
<1>1. PICK u \in Sending, published \in SUBSET Earlier :
          /\ FilesInit(published)
          /\ device = [v \in Sending |-> IF v = u THEN Resting ELSE Absent]
  BY DEF TransferInit
<1>2. /\ contents = [c \in published |-> Split(c)]
      /\ files = [c \in published |-> c]
      /\ blobs = UNION {ToSet(Split(c)) : c \in published}
      /\ journal = {} /\ uploads = << >> /\ tx = [w \in Worker |-> Idle]
  BY <1>1 DEF FilesInit
<1>3. published \subseteq Upload
  BY DEF TransferAssumption
<1>4. ASSUME NEW c \in published
      PROVE  IsSequence(Split(c))
  <2> DEFINE n == (Length[c] + Holds - 1) \div Holds
  <2>1. n \in Int
    BY <1>3 DEF FilesAssumption
  <2>2. DOMAIN Split(c) = 1 .. n /\ Split(c) = [i \in 1 .. n |-> Split(c)[i]]
    BY DEF Split
  <2> HIDE DEF n
  <2> QED
    BY <2>1, <2>2, SequenceIs
<1>5. Unfinished = {} /\ Verified = published /\ Published = published
  BY <1>2 DEF Unfinished, Verified, Published
<1>6. UploadsOK /\ ContentsOK
  BY <1>2, <1>4, <1>5 DEF UploadsOK, ContentsOK
<1>7. Referenced = blobs
  BY <1>2, <1>5 DEF Referenced, UploadChunks, ContentChunks
<1>8. \A w \in Worker : tx[w] = Idle /\ tx[w].op = "idle" /\ ~Writing(w)
  BY <1>2 DEF Idle, Writing
<1>9. TxOK
  BY <1>2, <1>8, IdleIs DEF TxOK
<1>10. StoreInv
  BY <1>6, <1>7, <1>8, <1>9 DEF StoreInv, Accounted, NothingLeaked, RowsHeld, OwnApart, ReadersPinned
<1>11. DeviceInv
  BY <1>1 DEF DeviceInv, Standing, Resting, Absent, Done, At, TransferInit
<1> QED
  BY <1>10, <1>11 DEF FilesInv

LEMMA FilesInvNext ==
    ASSUME FilesAssumption, TransferAssumption, FilesInv, [TransferNext]_transferVars
    PROVE  FilesInv'
<1>1. StoreInv /\ DeviceInv
  BY DEF FilesInv
<1>2. CASE \E u \in Sending : Continue(u)
  BY <1>1, <1>2, ContinueStep DEF FilesInv
<1>3. CASE \E r \in sent : Arrive(r)
  BY <1>1, <1>3, ArriveStep DEF FilesInv
<1>4. CASE \E w \in Worker : Serve(w) \/ StartReading(w)
  BY <1>1, <1>4, ServeAppendStep, ServePublishStep, QuietStep DEF Serve, FilesInv
<1>5. CASE HousekeepFiles
  BY <1>1, <1>5, QuietStep DEF FilesInv
<1>6. CASE (\E u \in Sending : GiveUp(u)) \/ (\E w \in Worker : Interrupt(w)) \/ Maintain
  BY <1>1, <1>6, FaultStep DEF FilesInv
<1>7. CASE UNCHANGED transferVars
  <2>1. StoreInv'
    BY <1>1, <1>7, SameStorageStep DEF transferVars, fileVars, storage
  <2>2. DeviceInv'
    BY <1>1, <1>7, DeviceRests DEF transferVars, fileVars, storage, Published
  <2> QED
    BY <2>1, <2>2 DEF FilesInv
<1> QED
  BY <1>2, <1>3, <1>4, <1>5, <1>6, <1>7 DEF TransferNext

\* The invariant holds: rows reference what is on disk, the journal accounts for
\* the rest, and transactions are apart from each other.
THEOREM FilesInvariant == TransferSpec => []FilesInv
<1>1. TransferInit => FilesInv
  BY FilesInvInit, FilesAssumption, TransferAssumption
<1>2. FilesInv /\ [TransferNext]_transferVars => FilesInv'
  BY FilesInvNext, FilesAssumption, TransferAssumption
<1> QED
  BY <1>1, <1>2, PTL DEF TransferSpec

\* No interruption of a write, a publication, a rotation or a cleanup leaves a
\* chunk on disk that neither a row nor the journal knows of.
THEOREM NothingIsLeaked == TransferSpec => []NothingLeaked
<1>1. FilesInv => NothingLeaked
  BY DEF FilesInv, StoreInv, Accounted
<1> QED
  BY <1>1, FilesInvariant, PTL

\* Readers and publications find their chunks until they end, whatever is
\* written, published, collected or rotated beside them.
THEOREM ReadersAreServed == TransferSpec => []ReadersFindChunks
<1>1. FilesInv => ReadersFindChunks
  <2> SUFFICES ASSUME FilesInv, NEW w \in Worker
               PROVE  /\ tx[w].op = "read" => tx[w].chunks \subseteq blobs
                      /\ tx[w].op = "publish" => tx[w].of \in Unfinished /\ ChunksOf(tx[w].of) \subseteq blobs
    BY DEF ReadersFindChunks
  <2>1. Referenced \subseteq blobs
    BY DEF FilesInv, StoreInv, Accounted
  <2>2. tx[w].op = "read" => tx[w].chunks \subseteq ContentChunks
    BY DEF FilesInv, StoreInv, ReadersPinned
  <2>3. tx[w].op = "publish" => tx[w].of \in Unfinished
    BY DEF FilesInv, StoreInv, RowsHeld, Writing
  <2> QED
    BY <2>1, <2>2, <2>3 DEF Referenced, UploadChunks, ContentChunks
<1> QED
  BY <1>1, FilesInvariant, PTL

-----------------------------------------------------------------------------
(* What chunks hold.                                                        *)

Upto(i) == i * Holds
Least(a, b) == IF a < b THEN a ELSE b

\* The full chunks of the first n parts.
Full(n) == n \div Holds

\* The two pieces of a sequence.
Fore(s, n) == SubSeq(s, 1, n)
Rear(s, n) == SubSeq(s, n + 1, Len(s))

\* The parts of a file after the first a, up to b.
Slice(u, a, b) == [p \in 1 .. b - a |-> <<Bytes[u], a + p>>]

\* Chunks that hold the first n parts of a file in order, all full but the last.
Laid(chunks, u, n) ==
    /\ IsSequence(chunks)
    /\ n <= Upto(Len(chunks))
    /\ \A i \in 1 .. Len(chunks) :
          /\ Upto(i - 1) < n
          /\ chunks[i].parts = Slice(u, Upto(i - 1), Least(Upto(i), n))

\* What an append keeps of a row, and nothing for a publication.
Base(t, row) ==
    IF t.op = "append" THEN Fore(row.chunks, Least(Full(row.received), Len(row.chunks))) ELSE << >>

Target(t) == IF t.op = "append" THEN t.offset + t.size ELSE Length[t.of]

\* A transaction has written n parts, in full chunks unless they are the last.
WrittenUpTo(t, row, n) ==
    /\ t.left = Slice(t.of, n, Target(t))
    /\ Laid(Base(t, row) \o t.fresh, t.of, n)
    /\ n # Target(t) => n = Upto(Len(Base(t, row) \o t.fresh))
    /\ \A k \in t.intent : n # Target(t) /\ k.parts = FirstOf(t.left)

Progress(t, row) ==
    /\ \E n \in 0 .. Target(t) : WrittenUpTo(t, row, n)
    /\ t.op = "append" => row.received = t.offset

\* Rows and files hold the parts they are said to.
RowsLaid(rows, stored, published) ==
    /\ DOMAIN published \subseteq Upload
    /\ \A u \in DOMAIN rows : Laid(rows[u].chunks, u, rows[u].received)
    /\ \A c \in DOMAIN stored : Laid(stored[c], c, Length[c])
    /\ \A f \in DOMAIN published : Laid(stored[published[f]], f, Length[f])

\* So does what a transaction has written, and what it knows of.
WorkLaid(t, rows, stored) ==
    t.op \in Writes =>
        /\ Progress(t, rows[t.of])
        /\ \A c \in t.known : Laid(stored[c], t.of, Length[t.of])

IntactInv ==
    /\ RowsLaid(uploads, contents, files)
    /\ \A w \in Worker : WorkLaid(tx[w], uploads, contents)

LEMMA UptoIs ==
    ASSUME FilesAssumption
    PROVE  /\ Upto(0) = 0
           /\ \A i \in Nat : Upto(i) \in Nat /\ Upto(i + 1) = Upto(i) + Holds
           /\ \A i \in Nat, j \in Nat : i < j => Upto(i + 1) <= Upto(j)
<1>1. Holds \in Nat /\ Holds >= 1
  BY DEF FilesAssumption
<1>2. Upto(0) = 0
  BY <1>1 DEF Upto
<1>3. ASSUME NEW i \in Nat PROVE Upto(i) \in Nat /\ Upto(i + 1) = Upto(i) + Holds
  BY <1>1 DEF Upto
<1>4. ASSUME NEW i \in Nat, NEW j \in Nat, i < j PROVE Upto(i + 1) <= Upto(j)
  <2>1. PICK k \in Nat : j = i + 1 + k
    BY <1>4, j - i - 1 \in Nat
  <2>2. k * Holds >= 0
    BY <1>1
  <2>3. (i + 1 + k) * Holds = (i + 1) * Holds + k * Holds
    BY <1>1
  <2>4. (i + 1) * Holds \in Int /\ k * Holds \in Int
    BY <1>1
  <2> QED
    BY <2>1, <2>2, <2>3, <2>4 DEF Upto
<1> QED
  BY <1>2, <1>3, <1>4

\* Whole chunks of the first n parts.
LEMMA FullIs ==
    ASSUME FilesAssumption, NEW n \in Nat
    PROVE  /\ Full(n) \in Nat
           /\ Upto(Full(n)) <= n
           /\ n < Upto(Full(n) + 1)
  BY Z3 DEF FilesAssumption, Upto, Full

LEMMA LeastIs ==
    ASSUME NEW a \in Nat, NEW b \in Nat
    PROVE  /\ Least(a, b) \in {a, b}
           /\ Least(a, b) <= a /\ Least(a, b) <= b
           /\ a <= b => Least(a, b) = a
           /\ b <= a => Least(a, b) = b
  BY DEF Least

-----------------------------------------------------------------------------
(* Slices.                                                                  *)

LEMMA SliceIs ==
    ASSUME NEW u, NEW a \in Nat, NEW b \in Nat, a <= b
    PROVE  /\ IsSequence(Slice(u, a, b))
           /\ Len(Slice(u, a, b)) = b - a
           /\ DOMAIN Slice(u, a, b) = 1 .. b - a
           /\ Slice(u, a, b) = << >> <=> a = b
<1> DEFINE s == Slice(u, a, b)
<1>1. DOMAIN s = 1 .. b - a /\ s = [p \in 1 .. b - a |-> s[p]] /\ b - a \in Nat
  BY DEF Slice
<1> HIDE DEF s
<1>2. IsSequence(s)
  BY <1>1, SequenceIs
<1>3. Len(s) = b - a
  BY <1>1, <1>2 DEF IsSequence
<1>4. s = << >> <=> a = b
  <2>1. s \in Seq(ToSet(s))
    BY <1>2 DEF IsSequence
  <2> QED
    BY <1>1, <1>3, <2>1
<1> QED
  BY <1>1, <1>2, <1>3, <1>4 DEF s

LEMMA SliceAt ==
    ASSUME NEW u, NEW a \in Nat, NEW b \in Nat, NEW p \in 1 .. b - a
    PROVE  Slice(u, a, b)[p] = <<Bytes[u], a + p>>
  BY DEF Slice

\* Sequences of one length with the same elements.
LEMMA SameSequence ==
    ASSUME NEW s, NEW t, IsSequence(s), IsSequence(t), Len(s) = Len(t),
           \A p \in 1 .. Len(s) : s[p] = t[p]
    PROVE  s = t
<1> DEFINE S == ToSet(s) \cup ToSet(t)
<1>1. s \in Seq(S) /\ t \in Seq(S)
  BY DEF IsSequence
<1> HIDE DEF S
<1> QED
  BY <1>1

LEMMA JoinIs ==
    ASSUME NEW s, NEW t, IsSequence(s), IsSequence(t)
    PROVE  /\ IsSequence(s \o t) /\ Len(s) \in Nat /\ Len(t) \in Nat
           /\ Len(s \o t) = Len(s) + Len(t)
           /\ \A p \in 1 .. Len(s) : (s \o t)[p] = s[p]
           /\ \A p \in 1 .. Len(t) : (s \o t)[Len(s) + p] = t[p]
<1> DEFINE S == ToSet(s) \cup ToSet(t)
<1>1. s \in Seq(S) /\ t \in Seq(S)
  BY DEF IsSequence
<1> HIDE DEF S
<1>2. IsSequence(s \o t)
  BY ConcatIs
<1>3. Len(s) \in Nat /\ Len(t) \in Nat /\ Len(s \o t) = Len(s) + Len(t)
  BY <1>1
<1>4. ASSUME NEW p \in 1 .. Len(s) PROVE (s \o t)[p] = s[p]
  BY <1>1, <1>3
<1>5. ASSUME NEW p \in 1 .. Len(t) PROVE (s \o t)[Len(s) + p] = t[p]
  BY <1>1, <1>3
<1> QED
  BY <1>2, <1>3, <1>4, <1>5

\* Some of a sequence, which the provers take apart only where it is expanded.
Part(s, m, n) == SubSeq(s, m, n)

LEMMA PartIs ==
    ASSUME NEW s, IsSequence(s), NEW k \in Nat, NEW n \in Nat, 1 <= k, k <= n + 1, n <= Len(s)
    PROVE  /\ IsSequence(Part(s, k, n)) /\ Len(s) \in Nat
           /\ Len(Part(s, k, n)) = n - k + 1
           /\ \A p \in 1 .. n - k + 1 : Part(s, k, n)[p] = s[k - 1 + p]
<1> DEFINE r == SubSeq(s, k, n)
<1>1. s \in Seq(ToSet(s)) /\ Len(s) \in Nat
  BY DEF IsSequence
<1>2. r \in Seq(ToSet(s)) /\ Len(r) = n - k + 1
  BY <1>1
<1>3. ASSUME NEW p \in 1 .. n - k + 1 PROVE r[p] = s[k - 1 + p]
  BY <1>1
<1>4. Part(s, k, n) = r
  BY DEF Part
<1> HIDE DEF r
<1>5. DOMAIN r = 1 .. n - k + 1 /\ r = [p \in 1 .. n - k + 1 |-> r[p]]
  BY <1>2
<1>6. IsSequence(r)
  <2>1. n - k + 1 \in Int
    OBVIOUS
  <2> QED
    BY <1>5, <2>1, SequenceIs
<1> QED
  BY <1>1, <1>2, <1>3, <1>4, <1>6

LEMMA SlicesJoin ==
    ASSUME NEW u, NEW a \in Nat, NEW b \in Nat, NEW c \in Nat, a <= b, b <= c
    PROVE  Slice(u, a, b) \o Slice(u, b, c) = Slice(u, a, c)
<1> DEFINE s == Slice(u, a, b)
           t == Slice(u, b, c)
           r == Slice(u, a, c)
           j == s \o t
<1>1. a <= c
  OBVIOUS
<1>2. IsSequence(s) /\ Len(s) = b - a /\ \A p \in 1 .. b - a : s[p] = <<Bytes[u], a + p>>
  <2>1. IsSequence(s) /\ Len(s) = b - a
    BY SliceIs
  <2>2. \A p \in 1 .. b - a : s[p] = <<Bytes[u], a + p>>
    BY SliceAt
  <2> QED
    BY <2>1, <2>2
<1>3. IsSequence(t) /\ Len(t) = c - b /\ \A p \in 1 .. c - b : t[p] = <<Bytes[u], b + p>>
  <2>1. IsSequence(t) /\ Len(t) = c - b
    BY SliceIs
  <2>2. \A p \in 1 .. c - b : t[p] = <<Bytes[u], b + p>>
    BY SliceAt
  <2> QED
    BY <2>1, <2>2
<1>4. IsSequence(r) /\ Len(r) = c - a /\ \A p \in 1 .. c - a : r[p] = <<Bytes[u], a + p>>
  <2>1. IsSequence(r) /\ Len(r) = c - a
    BY <1>1, SliceIs
  <2>2. \A p \in 1 .. c - a : r[p] = <<Bytes[u], a + p>>
    BY SliceAt
  <2> QED
    BY <2>1, <2>2
<1> HIDE DEF s, t, r
<1>5. /\ IsSequence(j) /\ Len(j) = (b - a) + (c - b)
      /\ \A p \in 1 .. b - a : j[p] = s[p]
      /\ \A p \in 1 .. c - b : j[(b - a) + p] = t[p]
  BY <1>2, <1>3, JoinIs
<1> HIDE DEF j
<1>6. ASSUME NEW p \in 1 .. c - a PROVE j[p] = r[p]
  <2>1. CASE p <= b - a
    <3>1. p \in 1 .. b - a
      BY <2>1
    <3> QED
      BY <1>2, <1>4, <1>5, <3>1
  <2>2. CASE p > b - a
    <3>1. PICK q \in 1 .. c - b : q = p - (b - a)
      BY <2>2
    <3>2. (b - a) + q = p /\ b + q = a + p
      BY <3>1
    <3>3. j[p] = t[q]
      BY <1>5, <3>2
    <3>4. t[q] = <<Bytes[u], a + p>>
      BY <1>3, <3>2
    <3> QED
      BY <1>4, <3>3, <3>4
  <2> QED
    BY <2>1, <2>2
<1>7. Len(j) = Len(r) /\ Len(r) = c - a
  BY <1>4, <1>5
<1>8. j = r
  BY <1>4, <1>5, <1>6, <1>7, SameSequence
<1> QED
  BY <1>8 DEF s, t, r, j

\* A part of a slice.
LEMMA SliceCut ==
    ASSUME NEW u, NEW a \in Nat, NEW b \in Nat, NEW m \in Nat, NEW n \in Nat,
           1 <= m, m <= n + 1, n <= b - a
    PROVE  Part(Slice(u, a, b), m, n) = Slice(u, a + m - 1, a + n)
<1>1. PICK x \in Nat, y \in Nat : x = a + m - 1 /\ y = a + n /\ a <= x /\ x <= y /\ y <= b
  <2>1. a + m - 1 \in Nat /\ a + n \in Nat
    OBVIOUS
  <2> QED
    BY <2>1
<1> DEFINE s == Slice(u, a, b)
           t == Slice(u, x, y)
           r == Part(s, m, n)
<1>2. IsSequence(s) /\ Len(s) = b - a
  <2>1. a <= b
    BY <1>1
  <2> QED
    BY <2>1, SliceIs
<1>3. IsSequence(t) /\ Len(t) = y - x
  <2>1. x <= y
    BY <1>1
  <2> QED
    BY <2>1, SliceIs
<1>4. n <= Len(s)
  BY <1>2
<1> HIDE DEF s
<1>5. IsSequence(r) /\ Len(r) = n - m + 1
  BY <1>2, <1>4, PartIs
<1>6. \A p \in 1 .. n - m + 1 : r[p] = s[m - 1 + p]
  BY <1>2, <1>4, PartIs
<1>7. ASSUME NEW p \in 1 .. y - x PROVE r[p] = t[p]
  <2>1. PICK q \in 1 .. b - a : q = m - 1 + p
    BY <1>1
  <2>2. s[q] = <<Bytes[u], a + q>>
    BY SliceAt DEF s
  <2>3. t[p] = <<Bytes[u], x + p>>
    BY SliceAt
  <2>4. a + q = x + p /\ p \in 1 .. n - m + 1
    BY <1>1, <2>1
  <2> HIDE DEF t, r
  <2> QED
    BY <1>6, <2>1, <2>2, <2>3, <2>4
<1>8. n - m + 1 = y - x
  BY <1>1
<1> HIDE DEF t, r
<1>9. r = t
  BY <1>3, <1>5, <1>7, <1>8, SameSequence
<1> QED
  BY <1>1, <1>9 DEF s, t, r

LEMMA SourceIs ==
    ASSUME FilesAssumption, NEW u \in Upload
    PROVE  Length[u] \in Nat /\ Source(u) = Slice(u, 0, Length[u])
<1>1. Length[u] \in Nat
  BY DEF FilesAssumption
<1> DEFINE n == Length[u]
<1>2. n - 0 = n /\ \A p \in 1 .. n : 0 + p = p
  BY <1>1
<1>3. Source(u) = [p \in 1 .. n |-> <<Bytes[u], p>>]
  BY DEF Source
<1>4. Slice(u, 0, n) = [p \in 1 .. n |-> <<Bytes[u], 0 + p>>]
  BY <1>2 DEF Slice
<1> HIDE DEF n
<1>5. [p \in 1 .. n |-> <<Bytes[u], 0 + p>>] = [p \in 1 .. n |-> <<Bytes[u], p>>]
  BY <1>2
<1> QED
  BY <1>1, <1>3, <1>4, <1>5 DEF n

\* The first chunk that slice fills.
LEMMA FirstOfSlice ==
    ASSUME FilesAssumption, NEW u, NEW a \in Nat, NEW b \in Nat, a <= b,
           NEW y \in Nat, y = Least(a + Holds, b)
    PROVE  FirstOf(Slice(u, a, b)) = Slice(u, a, y)
<1>1. Holds \in Nat
  BY DEF FilesAssumption
<1>2. Len(Slice(u, a, b)) = b - a
  BY SliceIs
<1>3. PICK n \in {b - a, Holds} : n = IF b - a < Holds THEN b - a ELSE Holds
  OBVIOUS
<1>4. n \in Nat /\ n <= b - a /\ a + n = y
  BY <1>1, <1>3 DEF Least
<1>5. PICK m \in Nat : m = 1
  OBVIOUS
<1>6. FirstOf(Slice(u, a, b)) = Part(Slice(u, a, b), m, n)
  BY <1>2, <1>3, <1>5 DEF FirstOf, Part
<1>7. Part(Slice(u, a, b), m, n) = Slice(u, a + m - 1, a + n)
  BY <1>4, <1>5, SliceCut
<1>8. a + m - 1 = a
  BY <1>5
<1> QED
  BY <1>4, <1>6, <1>7, <1>8

-----------------------------------------------------------------------------
(* What is read back from chunks.                                           *)

LEMMA LeastNumber ==
    ASSUME NEW S \in SUBSET Nat, S # {}
    PROVE  \E n \in S : \A m \in S : n <= m
<1> DEFINE R == {pair \in Nat \X Nat : pair[1] < pair[2]}
<1>1. IsWellFoundedOn(R, Nat)
  BY NatLessThanWellFounded, Zenon DEF OpToRel
<1>2. \A x, y \in Nat : y < x => <<y, x>> \in R
  OBVIOUS
<1> HIDE DEF R
<1>3. PICK x \in S : \A y \in S : ~(<<y, x>> \in R)
  BY <1>1, WFMin
<1>4. \A y \in S : ~(y < x)
  BY <1>2, <1>3
<1> QED
  BY <1>3, <1>4

\* The recursion of FlattenSeq has one solution, which any function that
\* satisfies it is: there is no least index where the two differ.
LEMMA FlattenIs ==
    ASSUME NEW seqs, IsSequence(seqs), Len(seqs) # 0, NEW g,
           g = [i \in 1 .. Len(seqs) |-> IF i = 1 THEN seqs[i] ELSE g[i - 1] \o seqs[i]]
    PROVE  FlattenSeq(seqs) = g[Len(seqs)]
<1> DEFINE L == Len(seqs)
           Solves(f) == f = [i \in 1 .. L |-> IF i = 1 THEN seqs[i] ELSE f[i - 1] \o seqs[i]]
           h == CHOOSE f : Solves(f)
<1>1. L \in Nat \ {0}
  BY DEF IsSequence
<1>2. FlattenSeq(seqs) = h[L]
  BY DEF FlattenSeq
<1>3. Solves(g)
  OBVIOUS
<1> HIDE DEF L
<1>4. Solves(h)
  <2> HIDE DEF Solves
  <2> QED
    BY <1>3
<1> HIDE DEF h
<1>5. ASSUME NEW f, Solves(f), NEW i \in 1 .. L
      PROVE  f[i] = IF i = 1 THEN seqs[i] ELSE f[i - 1] \o seqs[i]
  BY <1>5
<1> DEFINE T == {i \in 1 .. L : h[i] # g[i]}
<1>6. ASSUME T # {} PROVE FALSE
  <2>1. PICK i \in T : \A m \in T : i <= m
    <3>1. T \in SUBSET Nat
      <4>1. 1 .. L \subseteq Nat
        BY <1>1
      <4>2. T \subseteq 1 .. L
        OBVIOUS
      <4> QED
        BY <4>1, <4>2, Zenon
    <3> HIDE DEF T
    <3> QED
      BY <1>6, <3>1, LeastNumber
  <2>2. i \in 1 .. L /\ h[i] # g[i]
    BY <2>1
  <2> HIDE DEF Solves
  <2>3. h[i] = IF i = 1 THEN seqs[i] ELSE h[i - 1] \o seqs[i]
    BY <1>4, <1>5, <2>2
  <2>4. g[i] = IF i = 1 THEN seqs[i] ELSE g[i - 1] \o seqs[i]
    BY <1>3, <1>5, <2>2
  <2>5. i # 1
    BY <2>2, <2>3, <2>4
  <2>6. i - 1 \in 1 .. L /\ ~(i <= i - 1)
    BY <1>1, <2>2, <2>5
  <2>7. h[i - 1] = g[i - 1]
    BY <2>1, <2>6
  <2> QED
    BY <2>2, <2>3, <2>4, <2>5, <2>7
<1>7. h[L] = g[L]
  <2>1. L \in 1 .. L
    BY <1>1
  <2> HIDE DEF Solves
  <2> QED
    BY <1>6, <2>1
<1> QED
  BY <1>2, <1>7 DEF L

-----------------------------------------------------------------------------
(* Chunks that hold the first parts of a file.                              *)

LEMMA LaidChunk ==
    ASSUME NEW chunks, NEW u, NEW n, Laid(chunks, u, n), NEW i \in 1 .. Len(chunks)
    PROVE  Upto(i - 1) < n /\ chunks[i].parts = Slice(u, Upto(i - 1), Least(Upto(i), n))
  BY DEF Laid

LEMMA LaidReads ==
    ASSUME FilesAssumption, NEW u, NEW n \in Nat, NEW chunks, Laid(chunks, u, n)
    PROVE  Stored(chunks) = Slice(u, 0, n)
<1> DEFINE L == Len(chunks)
           seqs == [i \in DOMAIN chunks |-> chunks[i].parts]
<1>1. IsSequence(chunks) /\ DOMAIN chunks = 1 .. L /\ L \in Nat /\ n <= Upto(L)
  BY DEF Laid, IsSequence
<1>2. DOMAIN seqs = 1 .. L /\ seqs = [i \in 1 .. L |-> seqs[i]] /\ \A i \in 1 .. L : seqs[i] = chunks[i].parts
  BY <1>1
<1>3. Stored(chunks) = FlattenSeq(seqs)
  BY DEF Stored
<1> HIDE DEF seqs, L
<1>4. IsSequence(seqs) /\ Len(seqs) = L
  <2>1. IsSequence(seqs)
    BY <1>1, <1>2, SequenceIs
  <2> QED
    BY <1>1, <1>2, <2>1 DEF IsSequence
<1>5. CASE L = 0
  <2>1. FlattenSeq(seqs) = seqs
    BY <1>4, <1>5 DEF FlattenSeq
  <2>2. n = 0
    BY <1>1, <1>5, UptoIs
  <2>3. seqs = << >>
    BY <1>2, <1>5
  <2> QED
    BY <1>3, <2>1, <2>2, <2>3, SliceIs
<1>6. CASE L # 0
  <2> DEFINE g == [i \in 1 .. L |-> Slice(u, 0, Least(Upto(i), n))]
             e(i) == IF i = 1 THEN seqs[i] ELSE g[i - 1] \o seqs[i]
  <2>1. ASSUME NEW i \in 1 .. L PROVE g[i] = e(i)
    <3>1. i \in Nat /\ i - 1 \in Nat /\ (i - 1) + 1 = i
      OBVIOUS
    <3>2. Upto(i - 1) \in Nat /\ Upto(i) \in Nat /\ Upto(i - 1) <= Upto(i)
      <4>1. Upto((i - 1) + 1) = Upto(i - 1) + Holds /\ Upto(i - 1) \in Nat /\ Upto(i) \in Nat
        BY <3>1, UptoIs
      <4> QED
        BY <3>1, <4>1 DEF FilesAssumption
    <3>3. Upto(i - 1) < n /\ seqs[i] = Slice(u, Upto(i - 1), Least(Upto(i), n))
      BY <1>2, LaidChunk DEF L
    <3>4. PICK a \in Nat, b \in Nat : a = Upto(i - 1) /\ b = Least(Upto(i), n) /\ a <= b
      <4>1. Least(Upto(i), n) \in Nat /\ Upto(i - 1) <= Least(Upto(i), n)
        BY <3>2, <3>3 DEF Least
      <4> QED
        BY <3>2, <4>1
    <3>5. g[i] = Slice(u, 0, b) /\ seqs[i] = Slice(u, a, b)
      BY <3>3, <3>4
    <3>6. CASE i = 1
      <4>1. a = 0
        <5>1. i - 1 = 0
          BY <3>6
        <5> QED
          BY <3>4, <5>1, UptoIs
      <4> QED
        BY <3>5, <3>6, <4>1
    <3>7. CASE i # 1
      <4>1. i - 1 \in 1 .. L
        BY <1>1, <3>7
      <4>2. g[i - 1] = Slice(u, 0, a)
        <5>1. Least(Upto(i - 1), n) = a
          BY <3>2, <3>3, <3>4 DEF Least
        <5> QED
          BY <4>1, <5>1
      <4>3. Slice(u, 0, a) \o Slice(u, a, b) = Slice(u, 0, b)
        <5>1. PICK z \in Nat : z = 0
          OBVIOUS
        <5>2. z <= a /\ a <= b
          BY <3>4, <5>1
        <5>3. Slice(u, z, a) \o Slice(u, a, b) = Slice(u, z, b)
          BY <5>2, SlicesJoin
        <5> QED
          BY <5>1, <5>3
      <4> HIDE DEF g
      <4> QED
        BY <3>5, <3>7, <4>2, <4>3
    <3> QED
      BY <3>6, <3>7
  <2>2. g = [i \in 1 .. L |-> e(i)]
    <3>1. DOMAIN g = 1 .. L /\ g = [i \in 1 .. L |-> g[i]]
      OBVIOUS
    <3> HIDE DEF g, e
    <3> QED
      BY <2>1, <3>1
  <2>3. L \in 1 .. L /\ Least(Upto(L), n) = n
    BY <1>1, <1>6, UptoIs DEF Least
  <2>4. g[L] = Slice(u, 0, n)
    BY <2>3
  <2> HIDE DEF g
  <2>5. FlattenSeq(seqs) = g[L]
    <3>1. g = [i \in 1 .. Len(seqs) |-> IF i = 1 THEN seqs[i] ELSE g[i - 1] \o seqs[i]]
      BY <1>4, <2>2
    <3> QED
      BY <1>4, <1>6, <3>1, FlattenIs
  <2> QED
    BY <1>3, <2>4, <2>5
<1> QED
  BY <1>5, <1>6

\* A chunk is added behind full ones.
LEMMA LaidAppend ==
    ASSUME FilesAssumption, NEW u, NEW n \in Nat, NEW chunks, Laid(chunks, u, n), n = Upto(Len(chunks)),
           NEW m \in Nat, n < m, m <= n + Holds, NEW k, k.parts = Slice(u, n, m)
    PROVE  Laid(Append(chunks, k), u, m)
<1> DEFINE t == Append(chunks, k)
<1>1. IsSequence(chunks) /\ Len(chunks) \in Nat
  BY DEF Laid, IsSequence
<1>2. IsSequence(t)
  BY <1>1, AppendIs
<1>3. PICK L \in Nat : L = Len(chunks)
  BY <1>1
<1>4. Len(t) = L + 1 /\ t[L + 1] = k /\ \A i \in 1 .. L : t[i] = chunks[i]
  <2> DEFINE S == ToSet(chunks) \cup {k}
  <2>1. chunks \in Seq(S) /\ k \in S
    BY <1>1 DEF IsSequence
  <2> HIDE DEF S
  <2> QED
    BY <1>3, <2>1
<1>5. Holds \in Nat /\ Upto(L + 1) = n + Holds
  BY <1>3, UptoIs DEF FilesAssumption
<1> HIDE DEF t
<1>6. ASSUME NEW i \in 1 .. L + 1
      PROVE  Upto(i - 1) < m /\ t[i].parts = Slice(u, Upto(i - 1), Least(Upto(i), m))
  <2>1. CASE i = L + 1
    <3>1. i - 1 = L /\ Least(Upto(i), m) = m
      BY <1>5, <2>1 DEF Least
    <3> QED
      BY <1>3, <1>4, <2>1, <3>1
  <2>2. CASE i # L + 1
    <3>1. i \in 1 .. L /\ i \in Nat /\ L \in Nat /\ (i = L \/ i < L)
      BY <2>2
    <3>2. Upto(i) \in Nat /\ Upto(i) <= n
      <4>1. Upto(i) \in Nat /\ Upto(i + 1) = Upto(i) + Holds
        BY <3>1, UptoIs
      <4>2. i < L => Upto(i + 1) <= Upto(L)
        BY <3>1, UptoIs
      <4> QED
        BY <1>3, <1>5, <3>1, <4>1, <4>2
    <3>3. Upto(i - 1) < n /\ chunks[i].parts = Slice(u, Upto(i - 1), Least(Upto(i), n))
      BY <1>3, <3>1, LaidChunk
    <3>4. Least(Upto(i), n) = Upto(i) /\ Least(Upto(i), m) = Upto(i)
      BY <3>2 DEF Least
    <3>5. Upto(i - 1) \in Nat
      <4>1. i - 1 \in Nat
        BY <3>1
      <4> QED
        BY <4>1, UptoIs
    <3> QED
      BY <1>4, <3>1, <3>3, <3>4, <3>5
  <2> QED
    BY <2>1, <2>2
<1> QED
  BY <1>2, <1>4, <1>5, <1>6 DEF Laid, t

\* Chunks sealed again hold what they held.
LEMMA LaidReplaced ==
    ASSUME NEW u, NEW n, NEW chunks, Laid(chunks, u, n), NEW old, NEW new, new.parts = old.parts
    PROVE  Laid(Replaced(chunks, old, new), u, n)
<1>1. IsSequence(chunks) /\ DOMAIN chunks = 1 .. Len(chunks)
  BY DEF Laid, IsSequence
<1>2. IsSequence(Replaced(chunks, old, new))
  BY <1>1, ReplacedIs
<1> DEFINE t == Replaced(chunks, old, new)
<1>3. DOMAIN t = 1 .. Len(chunks) /\ \A i \in 1 .. Len(chunks) : t[i] = IF chunks[i] = old THEN new ELSE chunks[i]
  BY <1>1 DEF Replaced
<1> HIDE DEF t
<1>4. Len(t) = Len(chunks)
  <2>1. IsSequence(t) /\ Len(chunks) \in Nat
    BY <1>1, <1>2 DEF t, IsSequence
  <2> QED
    BY <1>3, <2>1 DEF IsSequence
<1>5. \A i \in 1 .. Len(chunks) : t[i].parts = chunks[i].parts
  BY <1>3
<1>6. Laid(t, u, n)
  BY <1>2, <1>4, <1>5 DEF Laid, t
<1> QED
  BY <1>6 DEF t

\* Two files with the same parts.
LEMMA LaidSame ==
    ASSUME FilesAssumption, NEW u, NEW v, NEW n \in Nat, Slice(u, 0, n) = Slice(v, 0, n),
           NEW chunks, Laid(chunks, u, n)
    PROVE  Laid(chunks, v, n)
<1>1. CASE n = 0
  <2>1. ASSUME NEW i \in 1 .. Len(chunks) PROVE FALSE
    <3>1. i - 1 \in Nat /\ Upto(i - 1) < n
      BY LaidChunk
    <3> QED
      BY <1>1, <3>1, UptoIs
  <2> QED
    BY <2>1 DEF Laid
<1>2. CASE n # 0
  <2>1. Slice(u, 0, n)[1] = <<Bytes[u], 1>> /\ Slice(v, 0, n)[1] = <<Bytes[v], 1>>
    BY <1>2 DEF Slice
  <2>2. Bytes[u] = Bytes[v]
    BY <2>1
  <2>3. \A a, b : Slice(u, a, b) = Slice(v, a, b)
    BY <2>2 DEF Slice
  <2> QED
    BY <2>3 DEF Laid
<1> QED
  BY <1>1, <1>2

\* A row is cut where its last chunk is not full.
LEMMA LaidCut ==
    ASSUME FilesAssumption, NEW u, NEW n \in Nat, NEW chunks, Laid(chunks, u, n),
           NEW q, q = Least(Full(n), Len(chunks)),
           NEW kept, kept = Fore(chunks, q),
           NEW last, last = Rear(chunks, q)
    PROVE  /\ q \in Nat /\ Upto(q) \in Nat /\ Upto(q) <= n
           /\ Laid(kept, u, Upto(q))
           /\ Upto(q) = Upto(Len(kept))
           /\ Stored(last) = Slice(u, Upto(q), n)
<1>1. IsSequence(chunks)
  BY DEF Laid
<1>2. PICK L \in Nat : L = Len(chunks) /\ n <= Upto(L)
  BY <1>1 DEF Laid, IsSequence
<1>3. PICK d \in Nat : d = Full(n) /\ Upto(d) <= n /\ n < Upto(d + 1)
  BY FullIs
<1>4. d <= L
  <2>1. ASSUME L < d PROVE FALSE
    <3>1. Upto(L + 1) <= Upto(d) /\ Upto(L + 1) = Upto(L) + Holds /\ Upto(L) \in Nat /\ Upto(d) \in Nat
      BY <2>1, UptoIs
    <3> QED
      BY <1>2, <1>3, <3>1 DEF FilesAssumption
  <2> QED
    BY <2>1
<1>5. q = d /\ q \in Nat /\ q <= L
  BY <1>2, <1>3, <1>4, LeastIs
<1>6. Upto(q) \in Nat /\ Upto(q) <= n /\ n < Upto(q + 1)
  BY <1>3, <1>5, UptoIs
<1>7. L = q \/ L = q + 1
  <2>1. ASSUME q + 1 < L PROVE FALSE
    <3>1. L \in 1 .. Len(chunks) /\ L - 1 \in Nat /\ q + 1 \in Nat /\ (q + 1 < L - 1 \/ q + 1 = L - 1)
      BY <1>2, <1>5, <2>1
    <3>2. Upto(L - 1) < n
      BY <3>1, LaidChunk
    <3>3. Upto(q + 1) <= Upto(L - 1)
      <4>1. q < L - 1
        BY <1>5, <3>1
      <4> QED
        BY <1>5, <3>1, <4>1, UptoIs
    <3>4. Upto(q + 1) \in Nat /\ Upto(L - 1) \in Nat
      BY <3>1, UptoIs
    <3> QED
      BY <1>6, <3>2, <3>3, <3>4
  <2> QED
    BY <1>5, <2>1
<1>8. IsSequence(kept) /\ Len(kept) = q /\ \A i \in 1 .. q : kept[i] = chunks[i]
  <2>1. PICK k \in Nat : k = 1
    OBVIOUS
  <2>2. 1 <= k /\ k <= q + 1 /\ q <= Len(chunks) /\ q \in Nat
    BY <1>2, <1>5, <2>1
  <2>3. IsSequence(Part(chunks, k, q)) /\ Len(Part(chunks, k, q)) = q - k + 1
    BY <1>1, <2>2, PartIs
  <2>4. \A p \in 1 .. q - k + 1 : Part(chunks, k, q)[p] = chunks[k - 1 + p]
    BY <1>1, <2>2, PartIs
  <2>5. q - k + 1 = q /\ \A p \in 1 .. q : k - 1 + p = p
    BY <1>5, <2>1
  <2>6. kept = Part(chunks, k, q)
    BY <2>1 DEF Fore, Part
  <2> QED
    BY <2>3, <2>5, <2>6, <2>4
<1>9. IsSequence(last) /\ Len(last) = L - q /\ \A p \in 1 .. L - q : last[p] = chunks[q + p]
  <2>1. PICK k \in Nat : k = q + 1
    BY <1>5
  <2>2. 1 <= k /\ k <= L + 1 /\ L <= Len(chunks)
    BY <1>2, <1>5, <2>1
  <2>3. IsSequence(Part(chunks, k, L)) /\ Len(Part(chunks, k, L)) = L - k + 1
    BY <1>1, <2>2, PartIs
  <2>4. \A p \in 1 .. L - k + 1 : Part(chunks, k, L)[p] = chunks[k - 1 + p]
    BY <1>1, <2>2, PartIs
  <2>5. L - k + 1 = L - q /\ \A p \in 1 .. L - q : k - 1 + p = q + p
    BY <1>5, <2>1
  <2>6. last = Part(chunks, k, L)
    BY <1>2, <2>1 DEF Rear, Part
  <2> QED
    BY <2>3, <2>5, <2>6, <2>4
<1>10. ASSUME NEW i \in 1 .. q
       PROVE  Upto(i - 1) < Upto(q) /\ kept[i].parts = Slice(u, Upto(i - 1), Least(Upto(i), Upto(q)))
  <2>1. i \in 1 .. Len(chunks) /\ i \in Nat /\ i - 1 \in Nat /\ (i - 1) + 1 = i /\ (i = q \/ i < q)
    BY <1>2, <1>5
  <2>2. kept[i].parts = Slice(u, Upto(i - 1), Least(Upto(i), n))
    BY <1>8, <2>1, LaidChunk
  <2>3. Upto(i - 1) \in Nat /\ Upto(i) \in Nat /\ Upto(i) = Upto(i - 1) + Holds
    <3>1. Upto(i - 1) \in Nat /\ Upto((i - 1) + 1) = Upto(i - 1) + Holds
      BY <2>1, UptoIs
    <3> QED
      BY <2>1, <3>1, UptoIs
  <2>4. Upto(i) <= Upto(q)
    <3>1. i < q => Upto(i + 1) <= Upto(q)
      BY <1>5, <2>1, UptoIs
    <3>2. Upto(i + 1) = Upto(i) + Holds
      BY <2>1, UptoIs
    <3> QED
      BY <1>6, <2>1, <2>3, <3>1, <3>2 DEF FilesAssumption
  <2>5. Least(Upto(i), n) = Upto(i) /\ Least(Upto(i), Upto(q)) = Upto(i)
    BY <1>6, <2>3, <2>4 DEF Least
  <2>6. Upto(i - 1) < Upto(q)
    BY <1>6, <2>3, <2>4 DEF FilesAssumption
  <2> QED
    BY <2>2, <2>5, <2>6
<1>11. Laid(kept, u, Upto(q))
  <2>1. Upto(q) <= Upto(Len(kept))
    BY <1>6, <1>8
  <2> QED
    BY <1>8, <1>10, <2>1 DEF Laid
<1>12. Stored(last) = Slice(u, Upto(q), n)
  <2> DEFINE seqs == [i \in DOMAIN last |-> last[i].parts]
  <2>1. DOMAIN last = 1 .. L - q /\ L - q \in Nat
    BY <1>2, <1>5, <1>9 DEF IsSequence
  <2>2. DOMAIN seqs = 1 .. L - q /\ seqs = [i \in 1 .. L - q |-> seqs[i]] /\ \A i \in 1 .. L - q : seqs[i] = last[i].parts
    BY <2>1
  <2>3. Stored(last) = FlattenSeq(seqs)
    BY DEF Stored
  <2> HIDE DEF seqs
  <2>4. IsSequence(seqs) /\ Len(seqs) = L - q
    <3>1. IsSequence(seqs)
      BY <2>1, <2>2, SequenceIs
    <3> QED
      BY <2>1, <2>2, <3>1 DEF IsSequence
  <2>5. CASE L = q
    <3>1. FlattenSeq(seqs) = seqs /\ seqs = << >>
      BY <1>5, <2>2, <2>4, <2>5 DEF FlattenSeq
    <3>2. n = Upto(q)
      <4>1. Upto(L) = Upto(q)
        BY <2>5
      <4> QED
        BY <1>2, <1>6, <4>1
    <3> QED
      BY <1>6, <2>3, <3>1, <3>2, SliceIs
  <2>6. CASE L = q + 1
    <3>1. L - q = 1 /\ L \in 1 .. Len(chunks) /\ L - 1 = q
      BY <1>2, <1>5, <2>6
    <3>2. seqs[1] = Slice(u, Upto(q), n)
      <4>1. chunks[L].parts = Slice(u, Upto(L - 1), Least(Upto(L), n))
        <5>1. L \in 1 .. Len(chunks)
          BY <3>1
        <5> QED
          BY <5>1, LaidChunk
      <4>2. Least(Upto(L), n) = n
        <5>1. Upto(L) \in Nat
          BY UptoIs
        <5> QED
          BY <1>2, <5>1 DEF Least
      <4>3. seqs[1] = chunks[L].parts
        <5>1. 1 \in 1 .. L - q /\ q + 1 = L
          BY <2>6, <3>1
        <5> QED
          BY <1>9, <2>2, <5>1
      <4> QED
        BY <3>1, <4>1, <4>2, <4>3
    <3> DEFINE g == [i \in 1 .. 1 |-> seqs[i]]
    <3>3. g = [i \in 1 .. Len(seqs) |-> IF i = 1 THEN seqs[i] ELSE g[i - 1] \o seqs[i]]
      BY <2>4, <3>1
    <3>4. g[1] = seqs[1]
      OBVIOUS
    <3> HIDE DEF g
    <3>5. FlattenSeq(seqs) = g[Len(seqs)]
      <4>1. IsSequence(seqs) /\ Len(seqs) # 0
        BY <2>4, <3>1
      <4> QED
        BY <3>3, <4>1, FlattenIs
    <3> QED
      BY <2>3, <2>4, <3>1, <3>2, <3>4, <3>5
  <2> QED
    BY <1>7, <2>5, <2>6
<1> QED
  BY <1>5, <1>6, <1>8, <1>11, <1>12

\* The chunks a file is cut into.
LEMMA LaidSplit ==
    ASSUME FilesAssumption, NEW u \in Upload
    PROVE  Laid(Split(u), u, Length[u])
<1>1. PICK l \in Nat : l = Length[u]
  BY DEF FilesAssumption
<1>2. Source(u) = Slice(u, 0, l)
  BY <1>1, SourceIs
<1>3. Holds \in Nat /\ Holds >= 1
  BY DEF FilesAssumption
<1>4. PICK m \in Nat : m = l + Holds - 1
  BY <1>3
<1>5. PICK c \in Nat : c = Full(m) /\ Upto(c) <= m /\ m < Upto(c + 1)
  BY FullIs
<1>6. l <= Upto(c) /\ Upto(c) < l + Holds
  <2>1. Upto(c) \in Nat /\ Upto(c + 1) = Upto(c) + Holds
    BY UptoIs
  <2> QED
    BY <1>3, <1>4, <1>5, <2>1
<1> DEFINE t == Split(u)
<1>7. /\ DOMAIN t = 1 .. c /\ t = [i \in 1 .. c |-> t[i]]
      /\ \A i \in 1 .. c : t[i].parts = FirstOf(SubSeq(Source(u), (i - 1) * Holds + 1, l))
  BY <1>1, <1>4, <1>5 DEF Split, Full
<1> HIDE DEF t
<1>8. IsSequence(t) /\ Len(t) = c
  <2>1. IsSequence(t)
    BY <1>7, SequenceIs
  <2> QED
    BY <1>7, <2>1 DEF IsSequence
<1>9. ASSUME NEW i \in 1 .. c
      PROVE  Upto(i - 1) < l /\ t[i].parts = Slice(u, Upto(i - 1), Least(Upto(i), l))
  <2>1. i \in Nat /\ i - 1 \in Nat /\ (i - 1) + 1 = i /\ (i = c \/ i < c)
    OBVIOUS
  <2>2. PICK a \in Nat : a = Upto(i - 1) /\ Upto(i) = a + Holds
    <3>1. Upto(i - 1) \in Nat /\ Upto((i - 1) + 1) = Upto(i - 1) + Holds
      BY <2>1, UptoIs
    <3> QED
      BY <2>1, <3>1
  <2>3. Upto(i) <= Upto(c) /\ Upto(c) \in Nat
    <3>1. i < c => Upto(i + 1) <= Upto(c)
      BY <2>1, UptoIs
    <3>2. Upto(i + 1) = Upto(i) + Holds /\ Upto(i) \in Nat /\ Upto(c) \in Nat
      BY <2>1, UptoIs
    <3> QED
      BY <1>3, <2>1, <3>1, <3>2
  <2>4. a < l
    BY <1>3, <1>6, <2>2, <2>3
  <2>5. PICK y \in Nat : y = Least(a + Holds, l)
    BY <1>3, LeastIs
  <2>6. Part(Slice(u, 0, l), a + 1, l) = Slice(u, a, l)
    <3>1. PICK z \in Nat, k \in Nat : z = 0 /\ k = a + 1
      OBVIOUS
    <3>2. 1 <= k /\ k <= l + 1 /\ l <= l - z
      BY <2>4, <3>1
    <3>3. Part(Slice(u, z, l), k, l) = Slice(u, z + k - 1, z + l)
      BY <3>2, SliceCut
    <3>4. z + k - 1 = a /\ z + l = l
      BY <3>1
    <3> QED
      BY <3>1, <3>3, <3>4
  <2>7. t[i].parts = FirstOf(Part(Slice(u, 0, l), a + 1, l))
    BY <1>2, <1>7, <2>2 DEF Part, Upto
  <2>8. FirstOf(Slice(u, a, l)) = Slice(u, a, y)
    BY <2>4, <2>5, FirstOfSlice
  <2> QED
    BY <2>2, <2>4, <2>5, <2>6, <2>7, <2>8
<1>10. Laid(t, u, l)
  BY <1>6, <1>8, <1>9 DEF Laid
<1> QED
  BY <1>1, <1>10 DEF t

-----------------------------------------------------------------------------
(* What steps leave of it.                                                  *)

LEMMA IntactPrimed ==
    ASSUME RowsLaid(uploads', contents', files'),
           \A w \in Worker : WorkLaid(tx'[w], uploads', contents')
    PROVE  IntactInv'
<1>1. Worker' = Worker
  BY DEF Worker
<1>2. RowsLaid(uploads, contents, files)'
  BY DEF RowsLaid, Laid, Slice, Upto, Least, IsSequence
<1>3. (\A w \in Worker : WorkLaid(tx[w], uploads, contents))'
  BY <1>1 DEF WorkLaid, Progress, WrittenUpTo, Base, Target, FirstOf, Laid, Slice, Upto, Least, IsSequence, Writes
<1> QED
  BY <1>2, <1>3 DEF IntactInv

LEMMA ProgressSame ==
    ASSUME NEW t, NEW s, NEW row, Progress(t, row), s.op = t.op, s.of = t.of, s.offset = t.offset,
           s.size = t.size, s.left = t.left, s.fresh = t.fresh, s.intent = t.intent
    PROVE  Progress(s, row)
<1>1. Base(s, row) = Base(t, row) /\ Target(s) = Target(t)
  BY DEF Base, Target
<1>2. \A n : WrittenUpTo(t, row, n) => WrittenUpTo(s, row, n)
  BY <1>1 DEF WrittenUpTo
<1> QED
  BY <1>1, <1>2 DEF Progress

\* A worker takes a step; the others are in the midst of other rows.
LEMMA WorkerIntact ==
    ASSUME StoreInv, IntactInv, NEW w \in Worker, NEW t, tx' = [tx EXCEPT ![w] = t],
           RowsLaid(uploads', contents', files'),
           \A v \in Worker : v # w /\ Writing(v) =>
               /\ uploads'[tx[v].of] = uploads[tx[v].of]
               /\ \A c \in tx[v].known : contents'[c] = contents[c],
           WorkLaid(t, uploads', contents')
    PROVE  IntactInv'
<1>1. ASSUME NEW v \in Worker PROVE WorkLaid(tx'[v], uploads', contents')
  <2>1. CASE v = w
    <3>1. tx'[v] = t
      BY <2>1, WorkerFacts
    <3> QED
      BY <3>1
  <2>2. CASE v # w
    <3>1. tx'[v] = tx[v] /\ WorkLaid(tx[v], uploads, contents) /\ (Writing(v) <=> tx[v].op \in Writes)
      BY <2>2, WorkerFacts DEF IntactInv
    <3> QED
      BY <2>2, <3>1 DEF WorkLaid
  <2> QED
    BY <2>1, <2>2
<1> QED
  BY <1>1, IntactPrimed

\* The rows stay.
LEMMA WorkerIntactStays ==
    ASSUME StoreInv, IntactInv, NEW w \in Worker, NEW t, tx' = [tx EXCEPT ![w] = t],
           uploads' = uploads, contents' = contents, files' = files,
           WorkLaid(t, uploads, contents)
    PROVE  IntactInv'
<1>1. RowsLaid(uploads', contents', files') /\ WorkLaid(t, uploads', contents')
  BY DEF IntactInv
<1> QED
  BY <1>1, WorkerIntact

LEMMA TurnIntact ==
    ASSUME StoreInv, IntactInv, NEW w \in Worker, NEW t, Turn(w, t), WorkLaid(t, uploads, contents)
    PROVE  IntactInv'
  BY WorkerIntactStays DEF Turn, storage

LEMMA RestIntact ==
    ASSUME StoreInv, IntactInv, NEW w \in Worker, NEW t, Turn(w, t), t.op \notin Writes
    PROVE  IntactInv'
  BY TurnIntact DEF WorkLaid

\* Nothing a row or a worker holds changes.
LEMMA StandingIntact ==
    ASSUME IntactInv, tx' = tx, uploads' = uploads, contents' = contents, files' = files
    PROVE  IntactInv'
<1>1. /\ RowsLaid(uploads', contents', files')
      /\ \A w \in Worker : WorkLaid(tx'[w], uploads', contents')
  BY DEF IntactInv
<1> QED
  BY <1>1, IntactPrimed

\* Maintenance has the lock.
LEMMA MaintenanceIntact ==
    ASSUME StoreInv, MaintenanceFree, tx' = tx, RowsLaid(uploads', contents', files')
    PROVE  IntactInv'
<1>1. \A w \in Worker : WorkLaid(tx'[w], uploads', contents')
  BY DEF MaintenanceFree, Writing, WorkLaid, Writes
<1> QED
  BY <1>1, IntactPrimed

-----------------------------------------------------------------------------
(* Requests.                                                                *)

LEMMA OpenAppendIntact ==
    ASSUME FilesAssumption, StoreInv, IntactInv, NEW w \in Worker, OpenAppend(w)
    PROVE  IntactInv'
<1> DEFINE u == tx[w].of
           row == uploads[u]
           body == SubSeq(Source(u), tx[w].offset + 1, tx[w].offset + tx[w].size)
           parts == Stored(LastChunk(u)) \o Body(tx[w])
           t == Transaction(tx[w], "append", parts, {})
<1>1. /\ tx[w].op = "received" /\ u \in Unfinished /\ row.received = tx[w].offset
      /\ Turn(w, t)
  BY DEF OpenAppend
<1>2. WithinFile(tx[w])
  BY <1>1, WorkerFacts DEF Entry, Requests
<1>3. /\ t.of = u /\ t.offset = tx[w].offset /\ t.size = tx[w].size
      /\ t.op = "append" /\ t.left = parts /\ t.fresh = << >> /\ t.intent = {} /\ t.known = {}
  BY DEF Transaction
<1>4. /\ LastChunk(u) = Rear(row.chunks, FullChunks(u))
      /\ FullChunks(u) = Least(Full(row.received), Len(row.chunks))
  BY DEF LastChunk, FullChunks, Least, Rear, Full
<1>5. Body(tx[w]) = body
  BY DEF Body
<1>6. Base(t, row) = Fore(row.chunks, FullChunks(u))
  BY <1>3, <1>4 DEF Base
<1>7. Laid(row.chunks, u, row.received)
  BY <1>1 DEF IntactInv, RowsLaid, Unfinished
<1>8. PICK a \in Nat, b \in Nat, l \in Nat : a = tx[w].offset /\ b = a + tx[w].size /\ l = Length[u] /\ b <= l /\ a <= b
  <2>1. tx[w].offset \in Nat /\ tx[w].offset + tx[w].size \in Nat /\ Length[u] \in Nat
        /\ tx[w].offset + tx[w].size <= Length[u] /\ tx[w].offset <= tx[w].offset + tx[w].size
    BY <1>2 DEF WithinFile, FilesAssumption
  <2> QED
    BY <2>1
<1>9. Target(t) = b /\ row.received = a
  BY <1>1, <1>3, <1>8 DEF Target
<1>10. body = Slice(u, a, b)
  <2>1. Source(u) = Slice(u, 0, l)
    BY <1>2, <1>8, SourceIs DEF WithinFile
  <2>2. PICK z \in Nat, m \in Nat : z = 0 /\ m = a + 1
    OBVIOUS
  <2>3. body = Part(Slice(u, z, l), m, b)
    BY <1>8, <2>1, <2>2 DEF Part
  <2>4. 1 <= m /\ m <= b + 1 /\ b <= l - z
    BY <1>8, <2>2
  <2>5. Part(Slice(u, z, l), m, b) = Slice(u, z + m - 1, z + b)
    BY <2>4, SliceCut
  <2>6. z + m - 1 = a /\ z + b = b
    BY <2>2
  <2> QED
    BY <2>3, <2>5, <2>6
<1>11. PICK q : q = FullChunks(u)
  OBVIOUS
<1> HIDE DEF parts, t, body, u, row
<1>12. PICK kept, last :
          kept = Fore(row.chunks, q) /\ last = Rear(row.chunks, q)
  OBVIOUS
<1>13. /\ q \in Nat /\ Upto(q) \in Nat /\ Upto(q) <= a
       /\ Laid(kept, u, Upto(q))
       /\ Upto(q) = Upto(Len(kept))
       /\ Stored(last) = Slice(u, Upto(q), a)
  <2>1. PICK chunks : chunks = row.chunks
    OBVIOUS
  <2>2. Laid(chunks, u, a) /\ q = Least(Full(a), Len(chunks))
    BY <1>4, <1>7, <1>9, <1>11, <2>1
  <2>3. kept = Fore(chunks, q) /\ last = Rear(chunks, q)
    BY <1>12, <2>1
  <2> QED
    BY <2>2, <2>3, LaidCut
<1>14. PICK n \in Nat : n = Upto(q) /\ n <= a
  BY <1>13
<1>15. parts = Slice(u, n, b)
  <2>1. parts = Slice(u, n, a) \o Slice(u, a, b)
    BY <1>4, <1>5, <1>10, <1>11, <1>13, <1>14, <1>12 DEF parts, u, row
  <2>2. n <= a /\ a <= b
    BY <1>8, <1>14
  <2>3. Slice(u, n, a) \o Slice(u, a, b) = Slice(u, n, b)
    BY <2>2, SlicesJoin
  <2> QED
    BY <2>1, <2>3
<1>16. Base(t, row) \o t.fresh = kept
  <2>1. kept \in Seq(ToSet(kept))
    BY <1>13 DEF Laid, IsSequence
  <2>2. Base(t, row) = kept
    BY <1>6, <1>11, <1>12
  <2>3. kept \o << >> = kept
    BY <2>1
  <2> QED
    BY <1>3, <2>2, <2>3
<1>17. WrittenUpTo(t, row, n)
  BY <1>3, <1>9, <1>13, <1>14, <1>15, <1>16 DEF WrittenUpTo
<1>18. n \in 0 .. Target(t)
  BY <1>8, <1>9, <1>14
<1>19. Progress(t, row)
  BY <1>3, <1>8, <1>9, <1>17, <1>18 DEF Progress
<1>20. WorkLaid(t, uploads, contents)
  BY <1>3, <1>19 DEF WorkLaid, row
<1> QED
  BY <1>1, <1>20, TurnIntact

LEMMA LaidNothing ==
    ASSUME FilesAssumption, NEW u, NEW n, n = 0
    PROVE  Laid(<< >>, u, n)
<1>1. Len(<< >>) = 0 /\ IsSequence(<< >>)
  BY EmptyIs
<1>2. n <= Upto(0)
  BY UptoIs
<1> QED
  BY <1>1, <1>2 DEF Laid

\* What joining does to sequences.
LEMMA Joined ==
    ASSUME NEW s, NEW t, IsSequence(s), IsSequence(t), NEW k
    PROVE  /\ s \o << >> = s /\ << >> \o s = s
           /\ s \o Append(t, k) = Append(s \o t, k)
<1> DEFINE S == ToSet(s) \cup ToSet(t) \cup {k}
<1>1. s \in Seq(S) /\ t \in Seq(S) /\ k \in S
  BY DEF IsSequence
<1> HIDE DEF S
<1>2. s \o << >> = s /\ << >> \o s = s
  BY <1>1
<1>3. s \o Append(t, k) = Append(s \o t, k)
  BY <1>1
<1> QED
  BY <1>2, <1>3

\* The contents and the files hold what they are of.
LEMMA ContentsLaid ==
    ASSUME FilesAssumption, StoreInv, IntactInv, NEW c \in Verified
    PROVE  c \in Upload /\ Length[c] \in Nat /\ Laid(contents[c], c, Length[c])
<1>1. c \in Upload
  BY DEF StoreInv, ContentsOK, IntactInv, RowsLaid, Published, Verified
<1> QED
  BY <1>1 DEF IntactInv, RowsLaid, Verified, FilesAssumption

LEMMA DuplicateIs ==
    ASSUME FilesAssumption, StoreInv, IntactInv, NEW u \in Upload, NEW c \in Duplicates(u)
    PROVE  Laid(contents[c], u, Length[u])
<1>1. c \in Verified /\ Stored(contents[c]) = Source(u)
  BY DEF Duplicates
<1>2. PICK l \in Nat, m \in Nat, z \in Nat : l = Length[u] /\ m = Length[c] /\ z = 0
  BY <1>1, ContentsLaid, SourceIs
<1>3. Laid(contents[c], c, m) /\ Source(u) = Slice(u, z, l)
  BY <1>1, <1>2, ContentsLaid, SourceIs
<1>4. Slice(c, z, m) = Slice(u, z, l)
  BY <1>1, <1>2, <1>3, LaidReads
<1>5. m = l
  <2>1. z <= m /\ z <= l
    BY <1>2
  <2>2. Len(Slice(c, z, m)) = m - z /\ Len(Slice(u, z, l)) = l - z
    BY <2>1, SliceIs
  <2> QED
    BY <1>2, <1>4, <2>2
<1>6. Slice(c, 0, l) = Slice(u, 0, l) /\ Laid(contents[c], c, l)
  BY <1>2, <1>3, <1>4, <1>5
<1> QED
  BY <1>2, <1>6, LaidSame

LEMMA OpenPublishIntact ==
    ASSUME FilesAssumption, StoreInv, IntactInv, NEW w \in Worker, OpenPublish(w)
    PROVE  IntactInv'
<1> DEFINE u == tx[w].of
           parts == Stored(uploads[u].chunks)
<1>1. /\ tx[w].op = "verify" /\ Complete(u)
      /\ \E known \in SUBSET Duplicates(u) : Turn(w, Transaction(tx[w], "publish", parts, known))
  BY DEF OpenPublish
<1>2. PICK known \in SUBSET Duplicates(u) : Turn(w, Transaction(tx[w], "publish", parts, known))
  BY <1>1
<1>3. u \in Upload
  BY <1>1, WorkerFacts DEF Entry, Requests, WithinFile
<1>4. PICK l \in Nat, z \in Nat : l = Length[u] /\ z = 0
  BY <1>3, SourceIs
<1>5. Laid(uploads[u].chunks, u, l)
  BY <1>1, <1>4 DEF Complete, IntactInv, RowsLaid, Unfinished
<1>6. parts = Slice(u, z, l)
  BY <1>4, <1>5, LaidReads
<1> DEFINE t == Transaction(tx[w], "publish", parts, known)
<1>7. t.of = u /\ t.op = "publish" /\ t.left = parts /\ t.fresh = << >> /\ t.intent = {} /\ t.known = known
  BY DEF Transaction
<1> HIDE DEF t, parts
<1>8. Target(t) = l
  BY <1>4, <1>7 DEF Target
<1>9. Base(t, uploads[u]) \o t.fresh = << >>
  <2>1. Base(t, uploads[u]) = << >>
    BY <1>7 DEF Base
  <2>2. << >> \o << >> = << >>
    BY EmptyIs, Joined
  <2> QED
    BY <1>7, <2>1, <2>2
<1>10. Laid(<< >>, u, z) /\ z = Upto(Len(<< >>))
  BY <1>4, LaidNothing, UptoIs
<1>11. WrittenUpTo(t, uploads[u], z)
  BY <1>6, <1>7, <1>8, <1>9, <1>10 DEF WrittenUpTo
<1>12. z \in 0 .. Target(t)
  BY <1>4, <1>8
<1>13. Progress(t, uploads[u])
  BY <1>7, <1>11, <1>12 DEF Progress
<1>14. \A c \in t.known : Laid(contents[c], u, Length[u])
  BY <1>3, <1>7, DuplicateIs
<1>15. WorkLaid(t, uploads, contents)
  BY <1>7, <1>13, <1>14 DEF WorkLaid
<1> QED
  BY <1>2, <1>15, TurnIntact DEF t

\* A worker that writes: its row, and where it has got to.
LEMMA WritingFacts ==
    ASSUME FilesAssumption, StoreInv, IntactInv, NEW w \in Worker, Writing(w)
    PROVE  /\ tx[w].of \in Unfinished /\ tx[w].of \in Upload /\ Length[tx[w].of] \in Nat
           /\ tx[w].op \in Writes
           /\ {"op", "of", "offset", "size", "heard", "fresh", "intent", "left", "known"} \subseteq DOMAIN tx[w]
           /\ IsSequence(tx[w].fresh)
           /\ IsSequence(Base(tx[w], uploads[tx[w].of]))
           /\ Target(tx[w]) \in Nat
           /\ Progress(tx[w], uploads[tx[w].of])
           /\ \A c \in tx[w].known : Laid(contents[c], tx[w].of, Length[tx[w].of])
<1> DEFINE t == tx[w]
           u == t.of
           row == uploads[u]
<1>1. u \in Unfinished /\ t.op \in Writes /\ Entry(t)
  BY WorkerFacts
<1>2. WithinFile(t) /\ IsSequence(t.fresh)
  BY <1>1 DEF Entry, Requests, Writes
<1>3. {"op", "of", "offset", "size", "heard", "fresh", "intent", "left", "known"} \subseteq DOMAIN t
  BY <1>1 DEF Entry, Requests, Writes
<1>4. u \in Upload /\ Length[u] \in Nat
  BY <1>2 DEF WithinFile, FilesAssumption
<1>5. WorkLaid(t, uploads, contents)
  BY DEF IntactInv
<1>6. Progress(t, row) /\ \A c \in t.known : Laid(contents[c], u, Length[u])
  BY <1>1, <1>5 DEF WorkLaid
<1>7. Target(t) \in Nat
  BY <1>2, <1>4 DEF Target, WithinFile
<1>8. IsSequence(Base(t, row))
  <2>1. IsSequence(row.chunks) /\ row.received \in Nat
    BY <1>1 DEF StoreInv, UploadsOK
  <2>2. PICK q : q = Least(Full(row.received), Len(row.chunks))
    OBVIOUS
  <2>3. q \in 0 .. Len(row.chunks)
    <3>1. Full(row.received) \in Nat
      BY <2>1, FullIs
    <3>2. Len(row.chunks) \in Nat
      BY <2>1 DEF IsSequence
    <3> QED
      BY <2>2, <3>1, <3>2 DEF Least
  <2>4. IsSequence(Fore(row.chunks, q))
    BY <2>1, <2>3, CutIs DEF Fore
  <2> QED
    BY <2>2, <2>4, EmptyIs DEF Base
<1> QED
  BY <1>1, <1>2, <1>3, <1>4, <1>6, <1>7, <1>8

LEMMA RegisterIntentIntact ==
    ASSUME FilesAssumption, StoreInv, IntactInv, NEW w \in Worker, RegisterIntent(w)
    PROVE  IntactInv'
<1>1. PICK k \in FreshKeys(FirstOf(tx[w].left)) : tx' = [tx EXCEPT ![w].intent = {k}]
  BY DEF RegisterIntent, Intending
<1>2. /\ Writing(w) /\ tx[w].left # << >>
      /\ uploads' = uploads /\ contents' = contents /\ files' = files
  BY DEF RegisterIntent
<1> DEFINE t == [tx[w] EXCEPT !.intent = {k}]
           u == tx[w].of
           row == uploads[u]
<1>3. {"op", "of", "offset", "size", "heard", "fresh", "intent", "left", "known"} \subseteq DOMAIN tx[w]
  BY <1>2, WritingFacts
<1>4. tx' = [tx EXCEPT ![w] = t]
  BY <1>1, WorkerFacts
<1>5. /\ t.op = tx[w].op /\ t.of = u /\ t.offset = tx[w].offset /\ t.size = tx[w].size
      /\ t.fresh = tx[w].fresh /\ t.known = tx[w].known /\ t.left = tx[w].left /\ t.intent = {k}
  BY <1>3
<1> HIDE DEF t
<1>6. k.parts = FirstOf(tx[w].left)
  BY DEF FreshKeys, Unused
<1>7. Progress(tx[w], row) /\ Target(tx[w]) \in Nat
  BY <1>2, WritingFacts
<1>8. PICK n \in 0 .. Target(tx[w]) : WrittenUpTo(tx[w], row, n)
  BY <1>7 DEF Progress
<1>9. Base(t, row) = Base(tx[w], row) /\ Target(t) = Target(tx[w])
  BY <1>5 DEF Base, Target
<1>10. n # Target(tx[w])
  <2>1. ASSUME n = Target(tx[w]) PROVE FALSE
    <3>1. n \in Nat /\ n <= n
      BY <1>7
    <3>2. Slice(u, n, n) = << >>
      BY <3>1, SliceIs
    <3> QED
      BY <1>2, <1>8, <2>1, <3>2 DEF WrittenUpTo
  <2> QED
    BY <2>1
<1>11. WrittenUpTo(t, row, n)
  BY <1>5, <1>6, <1>8, <1>9, <1>10 DEF WrittenUpTo
<1>12. Progress(t, row)
  BY <1>5, <1>7, <1>8, <1>9, <1>11 DEF Progress
<1>13. WorkLaid(t, uploads, contents)
  <2>1. \A c \in t.known : Laid(contents[c], t.of, Length[t.of])
    BY <1>2, <1>5, WritingFacts
  <2> QED
    BY <1>5, <1>12, <2>1 DEF WorkLaid
<1> QED
  BY <1>2, <1>4, <1>13, WorkerIntactStays

\* A chunk more, and the parts it does not hold.
LEMMA ProgressOn ==
    ASSUME FilesAssumption, NEW t, NEW row, Progress(t, row), Target(t) \in Nat, NEW k \in t.intent,
           IsSequence(Base(t, row)), IsSequence(t.fresh),
           NEW next, next.op = t.op, next.of = t.of, next.offset = t.offset, next.size = t.size,
           next.fresh = Append(t.fresh, k), next.left = Rear(t.left, Len(k.parts)), next.intent = {}
    PROVE  Progress(next, row)
<1> DEFINE base == Base(t, row)
           u == t.of
           chunks == base \o Append(t.fresh, k)
           rest == Rear(t.left, Len(k.parts))
<1>1. PICK T \in Nat : T = Target(t)
  OBVIOUS
<1>2. PICK n \in Nat : n <= T /\ WrittenUpTo(t, row, n)
  <2>1. PICK n \in 0 .. T : WrittenUpTo(t, row, n)
    BY <1>1 DEF Progress
  <2> QED
    BY <2>1
<1>3. PICK s : s = base \o t.fresh
  OBVIOUS
<1>4. /\ t.left = Slice(u, n, T) /\ Laid(s, u, n) /\ n # T
      /\ k.parts = FirstOf(Slice(u, n, T))
  BY <1>3, <1>1, <1>2 DEF WrittenUpTo
<1>5. n = Upto(Len(s))
  BY <1>3, <1>4, <1>1, <1>2 DEF WrittenUpTo
<1> HIDE DEF u
<1>6. Holds \in Nat /\ Holds >= 1
  BY DEF FilesAssumption
<1>7. PICK y \in Nat : y = Least(n + Holds, T)
  <2>1. n + Holds \in Nat
    BY <1>6
  <2> QED
    BY <2>1, LeastIs
<1>8. n < y /\ y <= n + Holds /\ y <= T /\ (y # T => y = n + Holds)
  BY <1>4, <1>6, <1>7, <1>2 DEF Least
<1>9. k.parts = Slice(u, n, y)
  BY <1>4, <1>7, <1>2, FirstOfSlice
<1>10. Laid(Append(s, k), u, y)
  BY <1>4, <1>5, <1>8, <1>9, LaidAppend
<1>11. chunks = Append(s, k)
  <2>1. base \o Append(t.fresh, k) = Append(base \o t.fresh, k)
    BY Joined
  <2> QED
    BY <1>3, <2>1, Zenon
<1>12. rest = Slice(u, y, T)
  <2>1. PICK m \in Nat, x \in Nat : m = y - n + 1 /\ x = T - n
    <3>1. y - n + 1 \in Nat /\ T - n \in Nat
      BY <1>8
    <3> QED
      BY <3>1
  <2>2. n <= y
    BY <1>8
  <2>3. Len(k.parts) = y - n
    BY <1>9, <2>2, SliceIs
  <2>4. Len(t.left) = T - n
    <3>1. n <= T
      BY <1>2
    <3>2. Len(Slice(u, n, T)) = T - n
      BY <3>1, SliceIs
    <3> QED
      BY <1>4, <3>2
  <2>5. Len(k.parts) + 1 = m /\ Len(t.left) = x
    BY <2>1, <2>4, <2>3
  <2>6. rest = Part(Slice(u, n, T), m, x)
    BY <1>4, <2>5 DEF Part, Rear
  <2>7. 1 <= m /\ m <= x + 1 /\ x <= T - n
    BY <1>8, <2>1
  <2>8. Part(Slice(u, n, T), m, x) = Slice(u, n + m - 1, n + x)
    BY <2>7, SliceCut
  <2>9. n + m - 1 = y /\ n + x = T
    BY <2>1
  <2> QED
    BY <2>6, <2>8, <2>9
<1>13. y # T => y = Upto(Len(Append(s, k)))
  <2>1. PICK L \in Nat : L = Len(s)
    BY <1>4 DEF Laid, IsSequence
  <2>2. Len(Append(s, k)) = L + 1
    <3>1. s \in Seq(ToSet(s) \cup {k}) /\ k \in ToSet(s) \cup {k}
      BY <1>4 DEF Laid, IsSequence
    <3> QED
      BY <2>1, <3>1
  <2>3. Upto(L + 1) = Upto(L) + Holds
    BY UptoIs
  <2> QED
    BY <1>5, <1>8, <2>1, <2>2, <2>3
<1>14. y \in 0 .. T
  BY <1>8
<1>15. Base(next, row) = base /\ Target(next) = T
  BY <1>1 DEF Base, Target
<1>16. WrittenUpTo(next, row, y)
  BY <1>10, <1>11, <1>12, <1>13, <1>15 DEF WrittenUpTo, u
<1> QED
  BY <1>14, <1>15, <1>16 DEF Progress

LEMMA PutBlobIntact ==
    ASSUME FilesAssumption, StoreInv, IntactInv, NEW w \in Worker, PutBlob(w)
    PROVE  IntactInv'
<1>1. PICK k \in tx[w].intent :
          tx' = [tx EXCEPT ![w].fresh = Append(@, k), ![w].intent = {},
                           ![w].left = SubSeq(@, Len(k.parts) + 1, Len(@))]
  BY DEF PutBlob
<1>2. Writing(w) /\ uploads' = uploads /\ contents' = contents /\ files' = files
  BY DEF PutBlob
<1> DEFINE u == tx[w].of
           row == uploads[u]
           rest == SubSeq(tx[w].left, Len(k.parts) + 1, Len(tx[w].left))
           t == [tx[w] EXCEPT !.fresh = Append(@, k), !.intent = {}, !.left = rest]
<1>3. {"op", "of", "offset", "size", "heard", "fresh", "intent", "left", "known"} \subseteq DOMAIN tx[w]
  BY <1>2, WritingFacts
<1>4. tx' = [tx EXCEPT ![w] = t]
  BY <1>1, <1>3, WorkerFacts
<1>5. /\ t.op = tx[w].op /\ t.of = u /\ t.offset = tx[w].offset /\ t.size = tx[w].size
      /\ t.fresh = Append(tx[w].fresh, k) /\ t.known = tx[w].known /\ t.left = rest /\ t.intent = {}
  BY <1>3
<1> HIDE DEF t, rest
<1>6. Progress(tx[w], row) /\ Target(tx[w]) \in Nat /\ IsSequence(Base(tx[w], row)) /\ IsSequence(tx[w].fresh)
  BY <1>2, WritingFacts
<1>7. rest = Rear(tx[w].left, Len(k.parts))
  BY DEF rest, Rear
<1>8. Progress(t, row)
  BY <1>5, <1>6, <1>7, ProgressOn
<1>9. WorkLaid(t, uploads, contents)
  <2>1. \A c \in t.known : Laid(contents[c], t.of, Length[t.of])
    BY <1>2, <1>5, WritingFacts
  <2> QED
    BY <1>5, <1>8, <2>1 DEF WorkLaid
<1> QED
  BY <1>2, <1>4, <1>9, WorkerIntactStays

\* Nothing is left to write: the chunks hold everything they are to hold.
LEMMA WrittenAll ==
    ASSUME FilesAssumption, StoreInv, IntactInv, NEW w \in Worker, Writing(w), tx[w].left = << >>
    PROVE  Laid(Base(tx[w], uploads[tx[w].of]) \o tx[w].fresh, tx[w].of, Target(tx[w]))
<1> DEFINE u == tx[w].of
           row == uploads[u]
<1>1. PICK T \in Nat : T = Target(tx[w])
  BY WritingFacts
<1>2. PICK n \in 0 .. T : WrittenUpTo(tx[w], row, n)
  BY <1>1, WritingFacts DEF Progress
<1>3. n \in Nat /\ n <= T /\ Slice(u, n, T) = << >>
  BY <1>1, <1>2 DEF WrittenUpTo
<1>4. n = T
  BY <1>3, SliceIs
<1> QED
  BY <1>1, <1>2, <1>4 DEF WrittenUpTo

\* Others are in the midst of other rows and know of contents that stay.
LEMMA OthersApart ==
    ASSUME StoreInv, NEW w \in Worker, Writing(w), NEW v \in Worker, v # w, Writing(v)
    PROVE  tx[v].of # tx[w].of /\ tx[v].of \in Unfinished /\ tx[v].known \subseteq Verified
  BY DEF StoreInv, RowsHeld

LEMMA CommitAppendIntact ==
    ASSUME FilesAssumption, StoreInv, IntactInv, NEW w \in Worker, CommitAppend(w)
    PROVE  IntactInv'
<1> DEFINE u == tx[w].of
           received == tx[w].offset + tx[w].size
           row == [received |-> received, chunks |-> Kept(u) \o tx[w].fresh]
           t == IF received = Length[u] THEN Doing(tx[w], "verify") ELSE Idle
<1>1. /\ Writing(w) /\ tx[w].op = "append" /\ tx[w].left = << >>
      /\ uploads' = [uploads EXCEPT ![u] = row]
      /\ tx' = [tx EXCEPT ![w] = t]
      /\ contents' = contents /\ files' = files
  BY DEF CommitAppend, Written, Writing
<1>2. u \in Unfinished
  BY <1>1, WorkerFacts
<1>3. t.op \notin Writes
  BY DEF Doing, Idle, Writes
<1>4. Laid(row.chunks, u, row.received)
  <2>1. Target(tx[w]) = received
    BY <1>1 DEF Target
  <2>2. Base(tx[w], uploads[u]) = Kept(u)
    BY <1>1 DEF Base, Kept, FullChunks, Fore, Full, Least
  <2> QED
    BY <1>1, <2>1, <2>2, WrittenAll
<1> HIDE DEF row, t, received
<1>5. DOMAIN uploads' = Unfinished /\ uploads'[u] = row /\ \A v \in Unfinished : v # u => uploads'[v] = uploads[v]
  BY <1>1, <1>2 DEF Unfinished
<1>6. RowsLaid(uploads', contents', files')
  BY <1>1, <1>4, <1>5 DEF IntactInv, RowsLaid, Unfinished
<1>7. \A v \in Worker : v # w /\ Writing(v) =>
          uploads'[tx[v].of] = uploads[tx[v].of] /\ \A c \in tx[v].known : contents'[c] = contents[c]
  BY <1>1, <1>5, OthersApart
<1>8. WorkLaid(t, uploads', contents')
  BY <1>3 DEF WorkLaid
<1> QED
  BY <1>1, <1>6, <1>7, <1>8, WorkerIntact

\* The rows but for one, which nobody else is in the midst of.
LEMMA RetireRows ==
    ASSUME NEW u, Retire(u)
    PROVE  DOMAIN uploads' = Unfinished \ {u} /\ \A v \in Unfinished \ {u} : uploads'[v] = uploads[v]
  BY DEF Retire, Unfinished

LEMMA PublishNewIntact ==
    ASSUME FilesAssumption, StoreInv, IntactInv, NEW w \in Worker, PublishNew(w)
    PROVE  IntactInv'
<1> DEFINE u == tx[w].of
           fresh == tx[w].fresh
<1>1. /\ Writing(w) /\ tx[w].op = "publish" /\ tx[w].left = << >> /\ u \notin Published
      /\ contents' = With(contents, u, fresh)
      /\ files' = With(files, u, u)
      /\ Retire(u)
      /\ tx' = [tx EXCEPT ![w] = Idle]
  BY DEF PublishNew, Written, Writing
<1>2. u \in Upload /\ IsSequence(fresh)
  BY <1>1, WritingFacts
<1>3. Laid(fresh, u, Length[u])
  <2>1. Target(tx[w]) = Length[u] /\ Base(tx[w], uploads[u]) = << >>
    BY <1>1 DEF Target, Base
  <2>2. << >> \o fresh = fresh
    BY <1>2, Joined
  <2> QED
    BY <1>1, <2>1, <2>2, WrittenAll
<1> HIDE DEF u, fresh
<1>4. DOMAIN uploads' = Unfinished \ {u} /\ \A v \in Unfinished \ {u} : uploads'[v] = uploads[v]
  BY <1>1, RetireRows
<1>5. u \notin Verified
  BY <1>1 DEF StoreInv, ContentsOK
<1>6. /\ DOMAIN contents' = Verified \cup {u} /\ contents'[u] = fresh
      /\ \A c \in Verified : contents'[c] = contents[c]
  BY <1>1, <1>5 DEF Verified, With
<1>7. DOMAIN files' = Published \cup {u} /\ files'[u] = u /\ \A f \in Published : files'[f] = files[f]
  BY <1>1 DEF Published, With
<1>8. \A f \in Published : files[f] \in Verified
  BY DEF StoreInv, ContentsOK
<1>9. RowsLaid(uploads', contents', files')
  <2>1. DOMAIN files' \subseteq Upload
    BY <1>2, <1>7 DEF IntactInv, RowsLaid, Published
  <2>2. \A v \in DOMAIN uploads' : Laid(uploads'[v].chunks, v, uploads'[v].received)
    BY <1>4 DEF IntactInv, RowsLaid, Unfinished
  <2>3. \A c \in DOMAIN contents' : Laid(contents'[c], c, Length[c])
    BY <1>3, <1>6 DEF IntactInv, RowsLaid, Verified
  <2>4. \A f \in DOMAIN files' : Laid(contents'[files'[f]], f, Length[f])
    BY <1>3, <1>6, <1>7, <1>8 DEF IntactInv, RowsLaid, Published
  <2> QED
    BY <2>1, <2>2, <2>3, <2>4 DEF RowsLaid
<1>10. \A v \in Worker : v # w /\ Writing(v) =>
           uploads'[tx[v].of] = uploads[tx[v].of] /\ \A c \in tx[v].known : contents'[c] = contents[c]
  <2> SUFFICES ASSUME NEW v \in Worker, v # w, Writing(v)
               PROVE  uploads'[tx[v].of] = uploads[tx[v].of] /\ \A c \in tx[v].known : contents'[c] = contents[c]
    OBVIOUS
  <2>1. tx[v].of # u /\ tx[v].of \in Unfinished /\ tx[v].known \subseteq Verified
    BY <1>1, OthersApart DEF u
  <2> QED
    BY <1>4, <1>6, <2>1
<1>11. WorkLaid(Idle, uploads', contents')
  BY IdleIs DEF WorkLaid
<1> QED
  BY <1>1, <1>9, <1>10, <1>11, WorkerIntact

LEMMA PublishReusedIntact ==
    ASSUME FilesAssumption, StoreInv, IntactInv, NEW w \in Worker, PublishReused(w)
    PROVE  IntactInv'
<1> DEFINE u == tx[w].of
<1>1. /\ Writing(w) /\ Retire(u)
      /\ tx' = [tx EXCEPT ![w] = Idle] /\ contents' = contents
  BY DEF PublishReused, Written, Writing
<1>2. PICK c \in tx[w].known : files' = With(files, u, c)
  BY DEF PublishReused
<1>3. u \in Upload /\ Laid(contents[c], u, Length[u])
  BY <1>1, <1>2, WritingFacts
<1> HIDE DEF u
<1>4. DOMAIN uploads' = Unfinished \ {u} /\ \A v \in Unfinished \ {u} : uploads'[v] = uploads[v]
  BY <1>1, RetireRows
<1>5. DOMAIN files' = Published \cup {u} /\ files'[u] = c /\ \A f \in Published : f # u => files'[f] = files[f]
  BY <1>2 DEF Published, With
<1>6. RowsLaid(uploads', contents', files')
  <2>1. DOMAIN files' \subseteq Upload
    BY <1>3, <1>5 DEF IntactInv, RowsLaid, Published
  <2>2. \A v \in DOMAIN uploads' : Laid(uploads'[v].chunks, v, uploads'[v].received)
    BY <1>4 DEF IntactInv, RowsLaid, Unfinished
  <2>3. \A d \in DOMAIN contents' : Laid(contents'[d], d, Length[d])
    BY <1>1 DEF IntactInv, RowsLaid
  <2>4. \A f \in DOMAIN files' : Laid(contents'[files'[f]], f, Length[f])
    BY <1>1, <1>3, <1>5 DEF IntactInv, RowsLaid, Published
  <2> QED
    BY <2>1, <2>2, <2>3, <2>4 DEF RowsLaid
<1>7. \A v \in Worker : v # w /\ Writing(v) =>
          uploads'[tx[v].of] = uploads[tx[v].of] /\ \A d \in tx[v].known : contents'[d] = contents[d]
  <2> SUFFICES ASSUME NEW v \in Worker, v # w, Writing(v)
               PROVE  uploads'[tx[v].of] = uploads[tx[v].of] /\ \A d \in tx[v].known : contents'[d] = contents[d]
    OBVIOUS
  <2>1. tx[v].of # u /\ tx[v].of \in Unfinished
    BY <1>1, OthersApart DEF u
  <2> QED
    BY <1>1, <1>4, <2>1
<1>8. WorkLaid(Idle, uploads', contents')
  BY IdleIs DEF WorkLaid
<1> QED
  BY <1>1, <1>6, <1>7, <1>8, WorkerIntact

LEMMA PublishUndoneIntact ==
    ASSUME StoreInv, IntactInv, NEW w \in Worker, PublishUndone(w)
    PROVE  IntactInv'
<1>1. WorkLaid(Idle, uploads, contents)
  BY IdleIs DEF WorkLaid
<1> QED
  BY <1>1, WorkerIntactStays DEF PublishUndone

LEMMA CreateIntact ==
    ASSUME FilesAssumption, StoreInv, IntactInv, NEW u \in Upload, Create(u)
    PROVE  IntactInv'
<1> DEFINE row == [received |-> 0, chunks |-> << >>]
<1>1. /\ u \notin Unfinished /\ uploads' = With(uploads, u, row)
      /\ tx' = tx /\ contents' = contents /\ files' = files
  BY DEF Create
<1>2. Laid(row.chunks, u, row.received)
  BY LaidNothing
<1> HIDE DEF row
<1>3. DOMAIN uploads' = Unfinished \cup {u} /\ uploads'[u] = row /\ \A v \in Unfinished : uploads'[v] = uploads[v]
  BY <1>1 DEF Unfinished, With
<1>4. RowsLaid(uploads', contents', files')
  BY <1>1, <1>2, <1>3 DEF IntactInv, RowsLaid, Unfinished
<1>5. ASSUME NEW w \in Worker PROVE WorkLaid(tx'[w], uploads', contents')
  <2>1. WorkLaid(tx[w], uploads, contents)
    BY DEF IntactInv
  <2>2. tx[w].op \in Writes => tx[w].of \in Unfinished
    BY WorkerFacts
  <2> QED
    BY <1>1, <1>3, <2>1, <2>2 DEF WorkLaid
<1> QED
  BY <1>4, <1>5, IntactPrimed

-----------------------------------------------------------------------------
(* Maintenance of what is held.                                             *)

LEMMA RetireExpiredIntact ==
    ASSUME StoreInv, IntactInv, NEW u, RetireExpired(u)
    PROVE  IntactInv'
<1>1. /\ MaintenanceFree /\ Retire(u)
      /\ tx' = tx /\ contents' = contents /\ files' = files
  BY DEF RetireExpired
<1>2. DOMAIN uploads' = Unfinished \ {u} /\ \A v \in Unfinished \ {u} : uploads'[v] = uploads[v]
  BY <1>1, RetireRows
<1>3. RowsLaid(uploads', contents', files')
  BY <1>1, <1>2 DEF IntactInv, RowsLaid, Unfinished
<1> QED
  BY <1>1, <1>3, MaintenanceIntact

LEMMA RotateIntact ==
    ASSUME StoreInv, IntactInv, Rotate
    PROVE  IntactInv'
<1>1. PICK old \in Referenced : \E new \in FreshKeys(old.parts) :
          /\ uploads' = [u \in Unfinished |-> [uploads[u] EXCEPT !.chunks = Replaced(@, old, new)]]
          /\ contents' = [c \in Verified |-> Replaced(contents[c], old, new)]
  BY DEF Rotate
<1>2. PICK new \in FreshKeys(old.parts) :
          /\ uploads' = [u \in Unfinished |-> [uploads[u] EXCEPT !.chunks = Replaced(@, old, new)]]
          /\ contents' = [c \in Verified |-> Replaced(contents[c], old, new)]
  BY <1>1
<1>3. MaintenanceFree /\ tx' = tx /\ files' = files
  BY DEF Rotate
<1>4. new.parts = old.parts
  BY DEF FreshKeys, Unused
<1>5. ASSUME NEW u \in Unfinished
      PROVE  /\ uploads'[u].received = uploads[u].received
             /\ uploads'[u].chunks = Replaced(uploads[u].chunks, old, new)
  BY <1>2 DEF StoreInv, UploadsOK
<1>6. DOMAIN uploads' = Unfinished /\ DOMAIN contents' = Verified
  BY <1>2
<1>7. ASSUME NEW u \in Unfinished PROVE Laid(uploads'[u].chunks, u, uploads'[u].received)
  <2>1. Laid(uploads[u].chunks, u, uploads[u].received)
    BY DEF IntactInv, RowsLaid, Unfinished
  <2>2. Laid(Replaced(uploads[u].chunks, old, new), u, uploads[u].received)
    BY <1>4, <2>1, LaidReplaced
  <2> QED
    BY <1>5, <2>2
<1>8. ASSUME NEW c \in Verified, NEW u, Laid(contents[c], u, Length[u])
      PROVE  Laid(contents'[c], u, Length[u])
  <2>1. Laid(Replaced(contents[c], old, new), u, Length[u])
    BY <1>4, <1>8, LaidReplaced
  <2> QED
    BY <1>2, <2>1
<1>9. RowsLaid(uploads', contents', files')
  <2>1. DOMAIN files' \subseteq Upload
    BY <1>3 DEF IntactInv, RowsLaid
  <2>2. \A c \in DOMAIN contents' : Laid(contents'[c], c, Length[c])
    BY <1>6, <1>8 DEF IntactInv, RowsLaid, Verified
  <2>3. \A f \in DOMAIN files : files[f] \in Verified
    BY DEF StoreInv, ContentsOK, Published
  <2>4. \A f \in DOMAIN files' : Laid(contents'[files'[f]], f, Length[f])
    BY <1>3, <1>8, <2>3 DEF IntactInv, RowsLaid
  <2> QED
    BY <1>6, <1>7, <2>1, <2>2, <2>4 DEF RowsLaid
<1> QED
  BY <1>3, <1>9, MaintenanceIntact

LEMMA MaintainIntact ==
    ASSUME StoreInv, IntactInv, Maintain
    PROVE  IntactInv'
<1>1. CASE \E u \in Upload : RetireExpired(u)
  BY <1>1, RetireExpiredIntact
<1>2. CASE Rotate
  BY <1>2, RotateIntact
<1>3. CASE RotateInterrupted
  BY <1>3, StandingIntact DEF RotateInterrupted
<1>4. CASE CollectInterrupted
  BY <1>4, StandingIntact DEF CollectInterrupted
<1> QED
  BY <1>1, <1>2, <1>3, <1>4 DEF Maintain

LEMMA GiveUpIntact ==
    ASSUME StoreInv, IntactInv, NEW u, GiveUp(u)
    PROVE  IntactInv'
<1>1. /\ tx' = [w \in Worker |-> IF tx[w].op \in Requests /\ tx[w].of = u THEN Unheard(tx[w]) ELSE tx[w]]
      /\ uploads' = uploads /\ contents' = contents /\ files' = files
  BY DEF GiveUp, Requests, storage
<1>2. ASSUME NEW w \in Worker PROVE WorkLaid(tx'[w], uploads', contents')
  <2> DEFINE t == tx[w]
  <2>1. WorkLaid(t, uploads, contents) /\ Entry(t)
    BY WorkerFacts DEF IntactInv
  <2>2. CASE tx'[w] = t
    BY <1>1, <2>1, <2>2
  <2>3. CASE tx'[w] = Unheard(t)
    <3>1. /\ DOMAIN Unheard(t) = DOMAIN t
          /\ \A f \in DOMAIN t : f # "heard" => Unheard(t)[f] = t[f]
      BY DEF Unheard
    <3>2. Unheard(t).op = t.op
      BY <2>1, <3>1 DEF Entry
    <3>3. ASSUME t.op \in Writes
          PROVE  /\ Progress(Unheard(t), uploads[t.of])
                 /\ Unheard(t).of = t.of /\ Unheard(t).known = t.known
      <4>1. {"op", "of", "offset", "size", "heard", "fresh", "intent", "left", "known"} \subseteq DOMAIN t
        BY <2>1, <3>3 DEF Entry, Requests, Writes
      <4>2. /\ Unheard(t).of = t.of /\ Unheard(t).offset = t.offset /\ Unheard(t).size = t.size
            /\ Unheard(t).left = t.left /\ Unheard(t).fresh = t.fresh /\ Unheard(t).intent = t.intent
            /\ Unheard(t).known = t.known
        BY <3>1, <4>1
      <4>3. Progress(t, uploads[t.of])
        BY <2>1, <3>3 DEF WorkLaid
      <4> HIDE DEF t
      <4> QED
        BY <3>2, <4>2, <4>3, ProgressSame
    <3> HIDE DEF t
    <3> QED
      BY <1>1, <2>1, <2>3, <3>2, <3>3 DEF WorkLaid
  <2> QED
    BY <1>1, <2>2, <2>3
<1>3. RowsLaid(uploads', contents', files')
  BY <1>1 DEF IntactInv
<1> QED
  BY <1>2, <1>3, IntactPrimed

-----------------------------------------------------------------------------
(* What is stored is what was sent.                                         *)

LEMMA IntactInvInit ==
    ASSUME FilesAssumption, TransferAssumption, TransferInit
    PROVE  IntactInv
<1>1. PICK published \in SUBSET Earlier : FilesInit(published)
  BY DEF TransferInit
<1>2. /\ contents = [c \in published |-> Split(c)]
      /\ files = [c \in published |-> c]
      /\ uploads = << >> /\ tx = [w \in Worker |-> Idle]
  BY <1>1 DEF FilesInit
<1>3. published \subseteq Upload
  BY DEF TransferAssumption
<1>4. RowsLaid(uploads, contents, files)
  BY <1>2, <1>3, LaidSplit DEF RowsLaid
<1>5. \A w \in Worker : WorkLaid(tx[w], uploads, contents)
  BY <1>2, IdleIs DEF WorkLaid
<1> QED
  BY <1>4, <1>5 DEF IntactInv

LEMMA ArriveIntact ==
    ASSUME FilesAssumption, StoreInv, DeviceInv, IntactInv, NEW r \in sent, Arrive(r)
    PROVE  IntactInv'
<1>1. CASE UNCHANGED fileVars
  BY <1>1, StandingIntact DEF fileVars, storage
<1>2. CASE Create(r.of)
  BY <1>2, CreateIntact DEF DeviceInv, SentOK
<1>3. CASE \E w \in Worker : Receive(w, r)
  <2>1. PICK w \in Worker : Receive(w, r)
    BY <1>3
  <2>2. Turn(w, Doing(r, "received")) /\ Doing(r, "received").op \notin Writes
    BY <2>1 DEF Receive, Turn, Doing, Writes
  <2> QED
    BY <2>2, RestIntact
<1> QED
  BY <1>1, <1>2, <1>3 DEF Arrive, ArriveCreate, ArrivePatch

LEMMA WorkIntact ==
    ASSUME FilesAssumption, StoreInv, IntactInv, NEW w \in Worker,
           Serve(w) \/ StartReading(w) \/ Interrupt(w)
    PROVE  IntactInv'
<1>1. ASSUME NEW t, Turn(w, t), t.op \notin Writes
      PROVE  IntactInv'
  BY <1>1, RestIntact
<1>2. CASE Turn(w, Idle)
  BY <1>1, <1>2, IdleIs
<1>3. CASE OpenRead(w)
  <2>1. PICK u \in Published : Turn(w, [op |-> "read", chunks |-> ToSet(contents[files[u]])])
    BY <1>3 DEF OpenRead
  <2>2. [op |-> "read", chunks |-> ToSet(contents[files[u]])].op \notin Writes
    BY DEF Writes
  <2> QED
    BY <1>1, <2>1, <2>2
<1>4. CASE OpenAppend(w) \/ CommitAppend(w)
  BY <1>4, OpenAppendIntact, CommitAppendIntact
<1>5. CASE RegisterIntent(w) \/ PutBlob(w)
  BY <1>5, RegisterIntentIntact, PutBlobIntact
<1>6. CASE OpenPublish(w) \/ PublishNew(w) \/ PublishReused(w) \/ PublishUndone(w)
  BY <1>6, OpenPublishIntact, PublishNewIntact, PublishReusedIntact, PublishUndoneIntact
<1> QED
  BY <1>2, <1>3, <1>4, <1>5, <1>6
  DEF Serve, ServeAppend, ServeWrite, ServePublish, ServeRead, StartReading, Interrupt,
      RefuseAppend, RefusePublish, CloseRead, Abort

LEMMA IntactInvNext ==
    ASSUME FilesAssumption, FilesInv, IntactInv, [TransferNext]_transferVars
    PROVE  IntactInv'
<1>1. StoreInv /\ DeviceInv
  BY DEF FilesInv
<1>2. CASE (\E u \in Sending : Continue(u)) \/ UNCHANGED transferVars
  <2>1. UNCHANGED fileVars
    BY <1>2 DEF Continue, Discover, LookForFile, Ask, SendCreate, SendPatch, transferVars
  <2> QED
    BY <2>1, StandingIntact DEF fileVars, storage
<1>3. CASE \E r \in sent : Arrive(r)
  BY <1>1, <1>3, ArriveIntact
<1>4. CASE \E w \in Worker : Serve(w) \/ StartReading(w) \/ Interrupt(w)
  BY <1>1, <1>4, WorkIntact
<1>5. CASE HousekeepFiles
  BY <1>5, StandingIntact DEF HousekeepFiles, QueueCleanup, Collect, storage
<1>6. CASE (\E u \in Sending : GiveUp(u)) \/ Maintain
  BY <1>1, <1>6, GiveUpIntact, MaintainIntact
<1> QED
  BY <1>2, <1>3, <1>4, <1>5, <1>6 DEF TransferNext

\* The rows, the contents and what every transaction has written hold the parts
\* they are said to, in order.
THEOREM IntactInvariant == TransferSpec => []IntactInv
<1>1. TransferInit => IntactInv
  BY IntactInvInit, FilesAssumption, TransferAssumption
<1>2. FilesInv /\ IntactInv /\ [TransferNext]_transferVars => IntactInv'
  BY IntactInvNext, FilesAssumption
<1> QED
  BY <1>1, <1>2, FilesInvariant, PTL DEF TransferSpec

LEMMA FilesWhole ==
    ASSUME FilesAssumption, FilesInv, IntactInv, NEW u \in Published
    PROVE  files[u] \in Verified /\ Whole(contents[files[u]], Source(u))
<1>1. files[u] \in Verified
  BY DEF FilesInv, StoreInv, ContentsOK
<1>2. u \in Upload /\ Laid(contents[files[u]], u, Length[u])
  BY DEF IntactInv, RowsLaid, Published
<1>3. PICK l \in Nat : l = Length[u] /\ Source(u) = Slice(u, 0, l)
  BY <1>2, SourceIs
<1>4. Stored(contents[files[u]]) = Source(u)
  BY <1>2, <1>3, LaidReads
<1>5. ToSet(contents[files[u]]) \subseteq blobs
  BY <1>1 DEF FilesInv, StoreInv, Accounted, Referenced, ContentChunks
<1> QED
  BY <1>1, <1>4, <1>5 DEF Whole

LEMMA RowsWhole ==
    ASSUME FilesAssumption, FilesInv, IntactInv, NEW u \in Unfinished
    PROVE  Whole(uploads[u].chunks, SubSeq(Source(u), 1, uploads[u].received))
<1>1. u \in Upload /\ uploads[u].received \in Nat /\ uploads[u].received <= Length[u]
  BY DEF FilesInv, StoreInv, UploadsOK
<1>2. PICK n \in Nat, l \in Nat, z \in Nat, m \in Nat :
          n = uploads[u].received /\ l = Length[u] /\ n <= l /\ z = 0 /\ m = 1
  BY <1>1, SourceIs
<1>3. Laid(uploads[u].chunks, u, n)
  BY <1>2 DEF IntactInv, RowsLaid, Unfinished
<1>4. Stored(uploads[u].chunks) = Slice(u, z, n)
  BY <1>2, <1>3, LaidReads
<1>5. SubSeq(Source(u), 1, uploads[u].received) = Part(Slice(u, z, l), m, n)
  <2>1. Source(u) = Slice(u, z, l)
    BY <1>1, <1>2, SourceIs
  <2> QED
    BY <1>2, <2>1 DEF Part
<1>6. Part(Slice(u, z, l), m, n) = Slice(u, z, n)
  <2>1. 1 <= m /\ m <= n + 1 /\ n <= l - z
    BY <1>2
  <2>2. Part(Slice(u, z, l), m, n) = Slice(u, z + m - 1, z + n)
    BY <2>1, SliceCut
  <2>3. z + m - 1 = z /\ z + n = n
    BY <1>2
  <2> QED
    BY <2>2, <2>3
<1>7. ToSet(uploads[u].chunks) \subseteq blobs
  BY DEF FilesInv, StoreInv, Accounted, Referenced, UploadChunks, ChunksOf
<1> QED
  BY <1>4, <1>5, <1>6, <1>7 DEF Whole

\* What an upload has acknowledged and what a file consists of is on disk, in
\* order and with the right bytes, whatever was interrupted, collected, rotated,
\* sent twice or stored twice meanwhile.
THEOREM StoredStaysIntact == TransferSpec => []StoredIntact
<1>1. FilesInv /\ IntactInv => StoredIntact
  BY FilesAssumption, FilesWhole, RowsWhole DEF StoredIntact
<1> QED
  BY <1>1, FilesInvariant, IntactInvariant, PTL

\* The device gives up its only copy of a file when the server has the whole of
\* it, published and on disk, and never on the strength of an offset.
THEOREM ForgottenOnlyIfVerified == TransferSpec => []ForgottenOnlyWhenVerified
<1>1. FilesInv /\ IntactInv => ForgottenOnlyWhenVerified
  <2>1. ASSUME FilesInv, NEW u \in Sending, device[u] = Done PROVE u \in Published
    BY <2>1 DEF FilesInv, DeviceInv, Standing
  <2> QED
    BY <2>1, FilesAssumption, FilesWhole DEF ForgottenOnlyWhenVerified
<1> QED
  BY <1>1, FilesInvariant, IntactInvariant, PTL

=============================================================================
