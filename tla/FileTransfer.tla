------------------------------ MODULE FileTransfer ------------------------------
(***************************************************************************)
(* A device that sends files to the server in pieces, over requests that   *)
(* get lost, and forgets its own copy of a file once it believes the       *)
(* server has verified it.  It keeps no count of what it has sent: it asks. *)
(***************************************************************************)
EXTENDS ProtectedFiles

CONSTANTS
    Earlier,        \* transfers that may have ended before
    PatchParts,     \* parts sent by one request
    MaxFaults       \* bound: losses, interruptions, expiries and rotations

ASSUME TransferAssumption == Earlier \subseteq Upload /\ PatchParts \in Nat \ {0} /\ MaxFaults \in Nat

VARIABLES
    device,     \* where the transfer of each file stands on the device
    sent,       \* requests that have not reached the server
    faults      \* those that have happened

transferVars == <<fileVars, device, sent, faults>>

Sending == Upload \ Earlier

At(phase) == [at |-> phase]
Offset(n) == [at |-> "send", offset |-> n]
Done == At("done")
Resting == At("rest")
Absent == At("absent")

\* The device has one file to send; another of the same bytes may be stored.
TransferInit ==
    /\ \E u \in Sending :
          /\ \E published \in SUBSET {g \in Earlier : Bytes[g] = Bytes[u]} : FilesInit(published)
          /\ device = [v \in Sending |-> IF v = u THEN Resting ELSE Absent]
    /\ sent = {}
    /\ faults = 0

Becomes(u, next) == device' = [device EXCEPT ![u] = next]

-----------------------------------------------------------------------------
(* The device.  Requests that change nothing are answered at once.          *)

\* Mutant: a transfer the server holds every part of is taken for a file.
LearntFromLength(u) ==
    IF u \in Unfinished
    THEN IF uploads[u].received = Length[u] THEN Done ELSE Offset(uploads[u].received)
    ELSE IF u \in Published THEN Offset(Length[u]) ELSE At("lost")

\* What a device that knows of a transfer learns when it asks for its offset.
Learnt(u) ==
    IF u \in Unfinished THEN Offset(uploads[u].received)
    ELSE IF u \in Published THEN Offset(Length[u]) ELSE At("lost")

\* discoverUpload: nothing is remembered, so the server is asked first.
Discover(u) ==
    /\ device[u] = Resting /\ RowFree(u)
    /\ Becomes(u, At(IF u \in Unfinished \/ u \in Published THEN "ask" ELSE "missing"))
    /\ UNCHANGED <<fileVars, sent, faults>>

\* Mutant: the device goes on with a transfer that is gone.
LookForFileOrAsk(u) ==
    /\ device[u].at \in {"missing", "lost"}
    /\ Becomes(u, IF u \in Published THEN Done ELSE IF device[u].at = "missing" THEN At("create") ELSE At("ask"))
    /\ UNCHANGED <<fileVars, sent, faults>>

\* There is no transfer; there may be a file.
LookForFile(u) ==
    /\ device[u].at \in {"missing", "lost"}
    /\ Becomes(u, IF u \in Published THEN Done ELSE IF device[u].at = "missing" THEN At("create") ELSE Resting)
    /\ UNCHANGED <<fileVars, sent, faults>>

Ask(u) ==
    /\ device[u] = At("ask") /\ RowFree(u)
    /\ Becomes(u, Learnt(u))
    /\ UNCHANGED <<fileVars, sent, faults>>

Creation(u) == [kind |-> "create", of |-> u, heard |-> TRUE]

SendCreate(u) ==
    /\ device[u] = At("create")
    /\ sent' = sent \cup {Creation(u)}
    /\ Becomes(u, At("creating"))
    /\ UNCHANGED <<fileVars, faults>>

\* Once the server holds every part, an empty request has it verify them.
Patch(u) ==
    LET rest == Length[u] - device[u].offset
    IN  [kind |-> "patch", of |-> u, heard |-> TRUE, offset |-> device[u].offset,
         size |-> IF rest < PatchParts THEN rest ELSE PatchParts]

SendPatch(u) ==
    /\ device[u].at = "send"
    /\ sent' = sent \cup {Patch(u)}
    /\ Becomes(u, At("sending"))
    /\ UNCHANGED <<fileVars, faults>>

-----------------------------------------------------------------------------
(* The server answers; a device that has given up does not hear it.         *)

Answer(request, next) ==
    device' = IF request.heard THEN [device EXCEPT ![request.of] = next] ELSE device

ArriveCreate(r) ==
    /\ r \in sent /\ r.kind = "create"
    /\ sent' = sent \ {r}
    /\ \/ Create(r.of) /\ Answer(r, At("ask"))
       \/ r.of \in Unfinished /\ ~cleaning /\ Answer(r, Resting) /\ UNCHANGED fileVars
    /\ UNCHANGED faults

\* The receipt of an earlier completion answers the request at once.
ArrivePatch(r, w) ==
    /\ r \in sent /\ r.kind = "patch"
    /\ sent' = sent \ {r}
    /\ IF r.of \in Published
       THEN Answer(r, Done) /\ UNCHANGED fileVars
       ELSE /\ Receive(w, r)
            /\ UNCHANGED device
    /\ UNCHANGED faults

\* What the device does with the refusal of a request to append: the number of
\* the server wins.  Nothing more to send: it asks again.
Corrected(request) ==
    LET u == request.of IN
    IF u \in Unfinished
    THEN IF request.size = 0 THEN Resting
         ELSE IF uploads[u].received = Length[u] THEN At("ask") ELSE Offset(uploads[u].received)
    ELSE IF u \in Published THEN Done
    ELSE IF request.size = 0 THEN At("lost") ELSE Resting

ServeAppend(w) ==
    /\ \/ OpenAppend(w) /\ UNCHANGED device
       \/ RefuseAppend(w) /\ Answer(tx[w], Corrected(tx[w]))
       \/ /\ CommitAppend(w)
          /\ IF tx'[w] = Idle THEN Answer(tx[w], Offset(tx[w].offset + tx[w].size)) ELSE UNCHANGED device
    /\ UNCHANGED <<sent, faults>>

ServePublish(w) ==
    /\ \/ OpenPublish(w) /\ UNCHANGED device
       \/ RefusePublish(w) /\ Answer(tx[w], IF tx[w].of \notin Unfinished /\ tx[w].of \in Published THEN Done ELSE Resting)
       \/ (PublishNew(w) \/ PublishReused(w)) /\ Answer(tx[w], Done)
       \/ PublishUndone(w) /\ tx[w].of \in Published /\ Answer(tx[w], Resting)
    /\ UNCHANGED <<sent, faults>>

ServeWrite(w) ==
    /\ RegisterIntent(w) \/ PutBlob(w)
    /\ UNCHANGED <<device, sent, faults>>

ServeRead(w) ==
    /\ CloseRead(w)
    /\ UNCHANGED <<device, sent, faults>>

\* What a worker goes on with once it has begun.
Serve(w) == ServeAppend(w) \/ ServeWrite(w) \/ ServePublish(w) \/ ServeRead(w)

StartReading(w) ==
    /\ OpenRead(w)
    /\ UNCHANGED <<device, sent, faults>>

HousekeepFiles ==
    /\ QueueCleanup \/ Collect
    /\ UNCHANGED <<device, sent, faults>>

-----------------------------------------------------------------------------
(* What goes wrong, and maintenance that only happens now and then.         *)

Fault == faults < MaxFaults /\ faults' = faults + 1

Unheard(r) == [r EXCEPT !.heard = FALSE]

\* The connection drops or the page is closed: the device starts over.  Its
\* request may arrive at any later time, or never.
GiveUp(u) ==
    /\ Fault
    /\ device[u] \notin {Resting, Done, Absent}
    /\ Becomes(u, Resting)
    /\ sent' = {IF r.of = u THEN Unheard(r) ELSE r : r \in sent}
    /\ tx' = [w \in Worker |->
          IF tx[w].op \in {"received", "append", "verify", "publish"} /\ tx[w].of = u THEN Unheard(tx[w]) ELSE tx[w]]
    /\ UNCHANGED <<storage, cleaning>>

Interrupt(w) ==
    /\ Fault
    /\ Abort(w) \/ PublishUndone(w)
    /\ Answer(tx[w], Resting)
    /\ UNCHANGED sent

Maintain ==
    /\ Fault
    /\ \/ \E u \in Upload : RetireExpired(u)
       \/ Rotate \/ RotateInterrupted \/ CollectInterrupted
    /\ UNCHANGED <<device, sent>>

-----------------------------------------------------------------------------
Continue(u) == Discover(u) \/ LookForFile(u) \/ Ask(u) \/ SendCreate(u) \/ SendPatch(u)

Arrive(r) == ArriveCreate(r) \/ \E w \in Worker : ArrivePatch(r, w)

TransferNext ==
    \/ \E u \in Sending : Continue(u)
    \/ \E r \in sent : Arrive(r)
    \/ \E w \in Worker : Serve(w) \/ StartReading(w)
    \/ HousekeepFiles
    \/ \E u \in Sending : GiveUp(u)
    \/ \E w \in Worker : Interrupt(w)
    \/ Maintain

TransferSpec == TransferInit /\ [][TransferNext]_transferVars

\* The device goes on with its file, unless it waits for an answer; a request
\* it waits for arrives.  A worker goes on with what it has begun; locks are
\* granted in the order they were asked for, hence the strong fairness.
Advance == \/ \E u \in Sending : Continue(u)
           \/ \E r \in {q \in sent : q.heard} : Arrive(r)

TransferFairness ==
    /\ SF_transferVars(Advance)
    /\ \A w \in Worker : SF_transferVars(Serve(w))
    /\ WF_transferVars(HousekeepFiles)

FairTransferSpec == TransferSpec /\ TransferFairness

-----------------------------------------------------------------------------
\* The device gives up its only copy of a file when the server has the whole of
\* it, published and on disk, and never on the strength of an offset.
ForgottenOnlyWhenVerified ==
    \A u \in Sending : device[u] = Done =>
        u \in Published /\ files[u] \in Verified /\ Whole(contents[files[u]], Source(u))

\* Losses and interruptions come to an end: every file is then published.
Synchronizes == <>(\A u \in Sending : device[u] \in {Done, Absent})

\* Space is given back: again and again nothing is on disk but what is used.
SpaceReturns == []<>(blobs \subseteq Referenced)

=============================================================================
