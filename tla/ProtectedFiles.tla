----------------------------- MODULE ProtectedFiles -----------------------------
(***************************************************************************)
(* Files as the server stores them: encrypted chunks on disk, the rows of  *)
(* resumable uploads and of verified contents that reference them, and the *)
(* journal of chunks that no committed row may need.  A chunk is written   *)
(* outside the transaction that will reference it; the journal and two     *)
(* kinds of lock make up for that.                                         *)
(*                                                                         *)
(* A file is a sequence of parts.  A chunk holds the parts it was given,   *)
(* and two writes of the same parts give two chunks.                       *)
(***************************************************************************)
EXTENDS Naturals, Sequences, SequencesExt, FiniteSets

CONSTANTS
    Upload,     \* transfers; a file has the identity of its transfer
    Bytes,      \* what each file contains
    Length,     \* the parts of each file
    Holds,      \* parts of a full chunk
    Copies,     \* bound: chunks of the same parts at one time
    Workers     \* bound: requests served at once

ASSUME FilesAssumption ==
    /\ Length \in [Upload -> Nat]
    /\ Holds \in Nat \ {0} /\ Copies \in Nat \ {0} /\ Workers \in Nat
    /\ DOMAIN Bytes = Upload

VARIABLES
    blobs,      \* the chunks on disk
    journal,    \* chunks that no committed row may need
    uploads,    \* the row of each unfinished transfer
    contents,   \* the chunks of each verified content, named by its transfer
    files,      \* the content of each published file
    tx,         \* what each worker is doing
    cleaning    \* the cleanup is queued for the lock on files

storage == <<blobs, journal, uploads, contents, files>>
fileVars == <<storage, tx, cleaning>>

Idle == [op |-> "idle"]

Worker == 1 .. Workers

Source(u) == [p \in 1 .. Length[u] |-> <<Bytes[u], p>>]
Stored(chunks) == FlattenSeq([i \in DOMAIN chunks |-> chunks[i].parts])

FirstOf(parts) == SubSeq(parts, 1, IF Len(parts) < Holds THEN Len(parts) ELSE Holds)

Split(u) ==
    [i \in 1 .. (Length[u] + Holds - 1) \div Holds |->
        [parts |-> FirstOf(SubSeq(Source(u), (i - 1) * Holds + 1, Length[u])), copy |-> 1]]

\* Some files have been published before.
FilesInit(published) ==
    /\ contents = [u \in published |-> Split(u)]
    /\ files = [u \in published |-> u]
    /\ blobs = UNION {ToSet(Split(u)) : u \in published}
    /\ journal = {}
    /\ uploads = << >>
    /\ tx = [w \in Worker |-> Idle]
    /\ cleaning = FALSE

\* The same rows and one more.
With(rows, id, row) == [i \in DOMAIN rows \cup {id} |-> IF i = id THEN row ELSE rows[i]]

Unfinished == DOMAIN uploads
Verified == DOMAIN contents
Published == DOMAIN files
Complete(u) == u \in Unfinished /\ uploads[u].received = Length[u]

ChunksOf(u) == ToSet(uploads[u].chunks)
UploadChunks == UNION {ChunksOf(u) : u \in Unfinished}
ContentChunks == UNION {ToSet(contents[c]) : c \in Verified}
Referenced == UploadChunks \cup ContentChunks

\* The key of a chunk is the digest of a ciphertext that is never made twice.
Unused(parts) == {k \in [parts : {parts}, copy : 1 .. Copies] : k \notin blobs \cup journal \cup Referenced}
FreshKeys(parts) == {k \in Unused(parts) : \A j \in Unused(parts) : k.copy <= j.copy}

-----------------------------------------------------------------------------
(* Locks.  A transaction of a request shares the lock on files, and holds   *)
(* the row of its upload if it has one; maintenance takes the lock alone,   *)
(* and nobody is given a share of it past a cleanup that waits for it.      *)

Writing(w) == tx[w].op \in {"append", "publish"}
RowFree(u) == ~cleaning /\ \A w \in {v \in Worker : Writing(v)} : tx[w].of # u
\* Mutant: maintenance shares the lock as well.
MaintenanceShared == TRUE

MaintenanceFree == \A w \in Worker : ~Writing(w) /\ tx[w].op # "read"

\* Workers are interchangeable: the first idle one serves the next request.
NextWorker == {w \in Worker : tx[w] = Idle /\ \A v \in 1 .. w - 1 : tx[v] # Idle}

-----------------------------------------------------------------------------
(* A request to add parts to an upload, and to publish the complete one.    *)

Doing(request, op) ==
    [of |-> request.of, offset |-> request.offset, size |-> request.size, heard |-> request.heard, op |-> op]

\* A request that has found no receipt of completion waits for the locks.
Receive(w, request) ==
    /\ w \in NextWorker
    /\ tx' = [tx EXCEPT ![w] = Doing(request, "received")]
    /\ UNCHANGED <<storage, cleaning>>

\* What an append keeps, and the chunk that is not full.
FullChunks(u) ==
    LET full == uploads[u].received \div Holds
    IN  IF full < Len(uploads[u].chunks) THEN full ELSE Len(uploads[u].chunks)
Kept(u) == SubSeq(uploads[u].chunks, 1, FullChunks(u))
LastChunk(u) == SubSeq(uploads[u].chunks, FullChunks(u) + 1, Len(uploads[u].chunks))
Body(request) == SubSeq(Source(request.of), request.offset + 1, request.offset + request.size)

Transaction(request, op, parts, known) ==
    [of |-> request.of, offset |-> request.offset, size |-> request.size, heard |-> request.heard,
     op |-> op, left |-> parts, fresh |-> << >>, intent |-> {}, known |-> known]

Turn(w, next) ==
    /\ tx' = [tx EXCEPT ![w] = next]
    /\ UNCHANGED <<storage, cleaning>>

\* Mutant: the parts are added wherever the server has got to.
OpenAppendAnywhere(w) ==
    LET u == tx[w].of IN
    /\ tx[w].op = "received" /\ RowFree(u)
    /\ u \in Unfinished /\ uploads[u].received + tx[w].size <= Length[u]
    /\ Turn(w, Transaction([tx[w] EXCEPT !.offset = uploads[u].received], "append",
                           Stored(LastChunk(u)) \o Body(tx[w]), {}))

\* The last chunk is written again with what it lacks.
OpenAppend(w) ==
    LET u == tx[w].of IN
    /\ tx[w].op = "received" /\ RowFree(u)
    /\ u \in Unfinished /\ uploads[u].received = tx[w].offset
    /\ Turn(w, Transaction(tx[w], "append", Stored(LastChunk(u)) \o Body(tx[w]), {}))

\* The upload is not there, or not where the request thinks it is.
RefuseAppend(w) ==
    /\ tx[w].op = "received" /\ RowFree(tx[w].of)
    /\ tx[w].of \in Unfinished => uploads[tx[w].of].received # tx[w].offset
    /\ Turn(w, Idle)

Intending(w, k) == [tx EXCEPT ![w].intent = {k}]

\* Mutant: the intent belongs to the transaction, and is lost with it.
RegisterIntentWithin(w) ==
    /\ Writing(w) /\ tx[w].left # << >> /\ tx[w].intent = {}
    /\ \E k \in FreshKeys(FirstOf(tx[w].left)) : tx' = Intending(w, k)
    /\ UNCHANGED <<storage, cleaning>>

\* The key is journalled, on a connection of its own, before the chunk exists.
RegisterIntent(w) ==
    /\ Writing(w) /\ tx[w].left # << >> /\ tx[w].intent = {}
    /\ \E k \in FreshKeys(FirstOf(tx[w].left)) :
          /\ journal' = journal \cup {k}
          /\ tx' = Intending(w, k)
    /\ UNCHANGED <<blobs, uploads, contents, files, cleaning>>

PutBlob(w) ==
    /\ Writing(w)
    /\ \E k \in tx[w].intent :
          /\ blobs' = blobs \cup {k}
          /\ tx' = [tx EXCEPT ![w].fresh = Append(@, k), ![w].intent = {},
                              ![w].left = SubSeq(@, Len(k.parts) + 1, Len(@))]
    /\ UNCHANGED <<journal, uploads, contents, files, cleaning>>

Written(w, op) == tx[w].op = op /\ tx[w].left = << >> /\ tx[w].intent = {}

\* A committed row owns the new chunks; nobody owns the one it replaced.
CommitAppend(w) ==
    LET u == tx[w].of
        received == tx[w].offset + tx[w].size
    IN  /\ Written(w, "append")
        /\ uploads' = [uploads EXCEPT ![u] =
               [received |-> received, chunks |-> Kept(u) \o tx[w].fresh]]
        /\ journal' = (journal \ ToSet(tx[w].fresh)) \cup ToSet(LastChunk(u))
        /\ tx' = [tx EXCEPT ![w] =
               IF received = Length[u] THEN Doing(tx[w], "verify") ELSE Idle]
        /\ UNCHANGED <<blobs, contents, files, cleaning>>

Duplicates(u) == {c \in Verified : Stored(contents[c]) = Source(u)}

\* A second transaction copies the upload into a content of its own.  It is
\* serializable: it looks at what was committed before it waited for the lock,
\* and may find the contents of the same bytes out of date.
OpenPublish(w) ==
    LET u == tx[w].of IN
    /\ tx[w].op = "verify" /\ RowFree(u)
    /\ Complete(u)
    /\ \E known \in SUBSET Duplicates(u) :
          Turn(w, Transaction(tx[w], "publish", Stored(uploads[u].chunks), known))

\* Another request has published it meanwhile, or it is gone.
RefusePublish(w) ==
    /\ tx[w].op = "verify" /\ RowFree(tx[w].of)
    /\ ~Complete(tx[w].of)
    /\ Turn(w, Idle)

Retire(u) == uploads' = [v \in Unfinished \ {u} |-> uploads[v]]

\* The journal entries of the new chunks are younger than what a serializable
\* transaction sees, so it cannot remove them: the cleanup will.
PublishJournal(u) == journal' = journal \cup ChunksOf(u)

\* Content, file, receipt and the end of the transfer appear together.
PublishNew(w) ==
    LET u == tx[w].of IN
    /\ Written(w, "publish") /\ u \notin Published
    /\ tx[w].known = {}
    /\ contents' = With(contents, u, tx[w].fresh)
    /\ files' = With(files, u, u)
    /\ PublishJournal(u)
    /\ Retire(u)
    /\ tx' = [tx EXCEPT ![w] = Idle]
    /\ UNCHANGED <<blobs, cleaning>>

\* The same bytes are stored already: the new chunks are deleted at once.
PublishReused(w) ==
    LET u == tx[w].of IN
    /\ Written(w, "publish") /\ u \notin Published
    /\ \E c \in tx[w].known : files' = With(files, u, c)
    /\ blobs' = blobs \ ToSet(tx[w].fresh)
    /\ PublishJournal(u)
    /\ Retire(u)
    /\ tx' = [tx EXCEPT ![w] = Idle]
    /\ UNCHANGED <<contents, cleaning>>

\* The file turns out to exist, for a row created again cannot publish it
\* twice, or the process stops before the commit: a deletion is not undone.
PublishUndone(w) ==
    /\ Written(w, "publish")
    /\ blobs' = IF tx[w].known = {} THEN blobs ELSE blobs \ ToSet(tx[w].fresh)
    /\ tx' = [tx EXCEPT ![w] = Idle]
    /\ UNCHANGED <<journal, uploads, contents, files, cleaning>>

\* The process stops, the connection drops or the work is refused: the
\* transaction is undone, the journal and the chunks it wrote are not.
Abort(w) ==
    /\ tx[w].op \in {"received", "append", "verify", "publish"}
    /\ Turn(w, Idle)

Create(u) ==
    /\ ~cleaning
    /\ u \notin Unfinished
    /\ uploads' = With(uploads, u, [received |-> 0, chunks |-> << >>])
    /\ UNCHANGED <<blobs, journal, contents, files, tx, cleaning>>

-----------------------------------------------------------------------------
(* A reader keeps its transaction open until it has been sent everything.   *)

\* Mutant: readers are let in past a cleanup that waits.
OpenReadPast(w) ==
    /\ w \in NextWorker
    /\ \E u \in Published :
          Turn(w, [op |-> "read", chunks |-> ToSet(contents[files[u]])])

OpenRead(w) ==
    /\ w \in NextWorker /\ ~cleaning
    /\ \E u \in Published :
          Turn(w, [op |-> "read", chunks |-> ToSet(contents[files[u]])])

CloseRead(w) ==
    /\ tx[w].op = "read"
    /\ Turn(w, Idle)

-----------------------------------------------------------------------------
(* Maintenance.                                                             *)

\* A transfer that is too old is forgotten.
RetireExpired(u) ==
    /\ MaintenanceFree
    /\ u \in Unfinished
    /\ journal' = journal \cup ChunksOf(u)
    /\ Retire(u)
    /\ UNCHANGED <<blobs, contents, files, tx, cleaning>>

Replaced(chunks, old, new) == [i \in DOMAIN chunks |-> IF chunks[i] = old THEN new ELSE chunks[i]]

\* A chunk is sealed again under the next data key, by a transaction that is
\* serializable as well.
Rotate ==
    /\ MaintenanceFree
    /\ \E old \in Referenced : \E new \in FreshKeys(old.parts) :
          /\ blobs' = blobs \cup {new}
          /\ journal' = journal \cup {old, new}
          /\ uploads' = [u \in Unfinished |-> [uploads[u] EXCEPT !.chunks = Replaced(@, old, new)]]
          /\ contents' = [c \in Verified |-> Replaced(contents[c], old, new)]
    /\ UNCHANGED <<files, tx, cleaning>>

\* Stopped after the intent, with or without the chunk.
RotateInterrupted ==
    /\ MaintenanceFree
    /\ \E old \in Referenced : \E new \in FreshKeys(old.parts) :
          /\ journal' = journal \cup {new}
          /\ blobs' \in {blobs, blobs \cup {new}}
    /\ UNCHANGED <<uploads, contents, files, tx, cleaning>>

\* The timer of the cleanup.
QueueCleanup ==
    /\ ~cleaning /\ journal # {}
    /\ cleaning' = TRUE
    /\ UNCHANGED <<storage, tx>>

\* Every journalled chunk is forgotten; those no row references are deleted.
Collect ==
    /\ cleaning /\ MaintenanceFree
    /\ cleaning' = FALSE
    /\ blobs' = blobs \ (journal \ Referenced)
    /\ journal' = {}
    /\ UNCHANGED <<uploads, contents, files, tx>>

\* Stopped after some deletions: the journal keeps everything.
CollectInterrupted ==
    /\ cleaning /\ MaintenanceFree
    /\ cleaning' = FALSE
    /\ \E gone \in SUBSET ((journal \ Referenced) \cap blobs) \ {{}} : blobs' = blobs \ gone
    /\ UNCHANGED <<journal, uploads, contents, files, tx>>

-----------------------------------------------------------------------------
(* What the storage promises.                                               *)

Whole(chunks, parts) == Stored(chunks) = parts /\ ToSet(chunks) \subseteq blobs

\* What an upload has acknowledged and what a file consists of is on disk, in
\* order and with the right bytes, whatever was interrupted, collected,
\* rotated, sent twice or stored twice meanwhile.
StoredIntact ==
    /\ \A u \in Unfinished : Whole(uploads[u].chunks, SubSeq(Source(u), 1, uploads[u].received))
    /\ \A u \in Published : files[u] \in Verified /\ Whole(contents[files[u]], Source(u))

\* Every chunk on disk is referenced by a row or known to the journal: no
\* interruption leaves one that nothing would ever delete.
NothingLeaked == blobs \subseteq Referenced \cup journal

\* A reader finds every chunk of the file it was opened on, and a publication
\* those of the upload it copies, until they end.
ReadersFindChunks ==
    \A w \in Worker :
        /\ tx[w].op = "read" => tx[w].chunks \subseteq blobs
        /\ tx[w].op = "publish" => tx[w].of \in Unfinished /\ ChunksOf(tx[w].of) \subseteq blobs

=============================================================================
