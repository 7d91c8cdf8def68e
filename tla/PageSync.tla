-------------------------------- MODULE PageSync --------------------------------
(***************************************************************************)
(* One operational page shared by several devices: the server's log        *)
(* (PageOperationLog), the devices (PageReplica) and the network between.  *)
(*                                                                         *)
(* A device waits for one answer at a time.  The answer may not come; then *)
(* the request is lost, or still on its way, and the server may serve it   *)
(* long after the device gave up and sent it again.                        *)
(***************************************************************************)
EXTENDS PageOperationLog

CONSTANTS
    Tab, Owner, Writes, MaxBatch    \* of PageReplica

ASSUME SyncAssumption ==
    /\ Owner \in [Tab -> Device]
    /\ Writes \in [Device -> SUBSET (Update \ ServerUpdate)]
    /\ \A d, e \in Device : d # e => Writes[d] \cap Writes[e] = {}
    /\ MaxBatch \in Nat \ {0}
    /\ Requests = {}    \* every request comes from a modelled device

VARIABLES
    durable, queue, tabs, exchange, \* of PageReplica
    late                            \* a request the device no longer waits for

replicaVars == <<durable, queue, tabs, exchange>>
syncVars == <<vars, replicaVars, late>>

Replica == INSTANCE PageReplica

Queued(d) == Replica!Queued(d)

None == [stage |-> "none"]
OnItsWay(r) == [stage |-> "late", request |-> r]

SyncInit ==
    /\ Init
    /\ Replica!Init
    /\ late = [d \in Device |-> None]

-----------------------------------------------------------------------------
(* The network and the server's end of an exchange.                         *)

OpenAmbiguities(all) == {a.sources : a \in {b \in all : b.open}}

\* The answer carries every ambiguity open when the request is served.
Answered(r, p) ==
    [acknowledged |-> Response(r, p).acknowledged,
     remote |-> Response(r, p).remote,
     document |-> Response(r, p).document,
     through |-> Response(r, p).through,
     latest |-> Response(r, p).latest,
     ambiguities |-> OpenAmbiguities(ambiguities')]

Serve(d) ==
    /\ exchange[d].stage = "waiting"
    /\ \E p \in Plans(exchange[d].request) :
          /\ SyncBy(exchange[d].request, p)
          /\ Replica!Receive(d, Answered(exchange[d].request, p))
    /\ UNCHANGED late

\* How sync refuses a request.  TRUE: with a problem of BLOCKING_PROBLEMS, after
\* which the rows are not sent again; FALSE: "dependencies-missing", and they
\* are.  A device that is not active may be turned away before sync.
Refusals(r) ==
    IF authorization[r.device] # "active" THEN BOOLEAN
    ELSE IF ~Loadable \/ ~IdentitiesHold(r) THEN {TRUE}
    ELSE IF Plans(r) = {} THEN {FALSE}
    ELSE {TRUE} \cap {Detections(r, p) = {} : p \in Plans(r)}

Refuse(d) ==
    /\ exchange[d].stage = "waiting"
    /\ \E blocking \in Refusals(exchange[d].request) : Replica!Refused(d, blocking)
    /\ UNCHANGED <<vars, late>>

\* The request of an exchange that ends without an answer may still arrive.
Abandoned(d) ==
    {late} \cup {[late EXCEPT ![d] = OnItsWay(x.request)] :
                     x \in {y \in {exchange[d]} : y.stage = "waiting"}}

GiveUp(d) ==
    /\ Replica!Fail(d)
    /\ late' \in Abandoned(d)
    /\ UNCHANGED vars

\* A late request is served, and nobody reads the answer, or it is lost.
ServeLate(d) ==
    /\ late[d] # None
    /\ Sync(late[d].request) \/ UNCHANGED vars
    /\ late' = [late EXCEPT ![d] = None]
    /\ UNCHANGED replicaVars

Reload(t) ==
    /\ Replica!Reload(t)
    /\ late' \in IF exchange' = exchange THEN {late} ELSE Abandoned(Owner[t])
    /\ UNCHANGED vars

-----------------------------------------------------------------------------

Edit(t, u) == Replica!Edit(t, u) /\ UNCHANGED <<vars, late>>
Adopt(t) == Replica!Adopt(t) /\ UNCHANGED <<vars, late>>
Send(d) == Replica!Send(d) /\ UNCHANGED <<vars, late>>

Commit(d) ==
    /\ Replica!CommitResponse(d, OpenAmbiguities(ambiguities))
    /\ UNCHANGED <<vars, late>>

Reject(d) ==
    /\ Replica!RejectResponse(d, OpenAmbiguities(ambiguities))
    /\ UNCHANGED <<vars, late>>

DetailsRefused(d) == Replica!DetailsRefused(d) /\ UNCHANGED <<vars, late>>
Unreadable(d) == Replica!Unreadable(d) /\ UNCHANGED <<vars, late>>

\* What the owner does on the server, its maintenance and its compaction.
ServerStep == Next /\ UNCHANGED <<replicaVars, late>>

SyncNext ==
    \/ \E t \in Tab :
          \/ \E u \in Update : Edit(t, u)
          \/ Adopt(t)
          \/ Reload(t)
    \/ \E d \in Device :
          \/ Send(d)
          \/ Serve(d)
          \/ Refuse(d)
          \/ GiveUp(d)
          \/ ServeLate(d)
          \/ Commit(d)
          \/ Reject(d)
          \/ DetailsRefused(d)
          \/ Unreadable(d)
    \/ ServerStep

SyncSpec == SyncInit /\ [][SyncNext]_syncVars

\* A page with something to send or to learn is exchanged again and again (on
\* mount, on reconnection, on a hint of the change stream, after an edit); now
\* and then the network answers and the device stays up to commit.
Fairness ==
    \A d \in Device :
        /\ WF_syncVars(Send(d))
        /\ SF_syncVars(Serve(d))
        /\ SF_syncVars(Commit(d))

FairSyncSpec == SyncSpec /\ Fairness

-----------------------------------------------------------------------------
(* What a device may rely on.                                               *)

SyncTypeOK ==
    /\ TypeOK
    /\ durable \in [Device -> Replica!State]
    /\ \A d \in Device :
          Queued(d) \subseteq Update /\ queue[d] \in [Queued(d) -> Replica!QueueRow]
    /\ tabs \in [Tab -> Replica!Editor]
    /\ \A d \in Device : exchange[d].stage \in {"idle", "waiting", "answered"}
    /\ \A d \in Device : exchange[d].stage # "idle" => exchange[d].request \in Request
    /\ \A d \in Device : late[d] # None => late[d].request \in Request

\* No edit is lost: whatever a device has committed is in the log of the server
\* or still in the queue it will be sent from.
NothingLost ==
    \A d \in Device : durable[d].version \subseteq Document \cup Queued(d)

\* What a tab shows is in the store of its device.
VisibleIsDurable ==
    \A t \in Tab : tabs[t].visible \subseteq durable[Owner[t]].version

\* The cursor of a device never runs ahead of what it has imported.
CursorCovered ==
    \A d \in Device :
        /\ durable[d].cursor <= Len(rows)
        /\ Prefix(rows, durable[d].cursor) \subseteq durable[d].version

\* The frontier a device takes for that of the server is held at both ends.
ServerFrontierHeld ==
    \A d \in Device : durable[d].server \subseteq Document \cap durable[d].version

\* While no device is suspended, a row is set aside, and never sent again, only once
\* its update is in the log: whichever exchange fails, and however (#run blocks the
\* rows it claimed), no work waits for a request that is not made.
SetAsideIsAccepted ==
    \A d \in Device : \A u \in Queued(d) : queue[d][u].status = "blocked" => u \in Document

\* A batch never leaves behind a row one of its updates depends on.
SendsCausalPrefix ==
    \A d \in Device : exchange[d].stage = "waiting" =>
        \A n \in DOMAIN exchange[d].request.updates :
            exchange[d].request.updates[n].base \cap Queued(d)
                \subseteq Ids(exchange[d].request)

\* An answer cut at the window of the server can be committed.
PagedCatchUp ==
    \A d \in Device : exchange[d].stage = "answered" =>
        Replica!Complete(d, exchange[d].response)

\* The devices, the network and the log implement one page that every device
\* adds to and learns from: nothing durable is ever taken back.
Shared == INSTANCE SharedPage WITH
    known <- [d \in Device |-> durable[d].version], shared <- Document

SharesOnePage == Shared!Spec

\* Every device ends up holding the one document and knowing that it does;
\* the rows that are left in its queue are those it has set aside.
Settles ==
    <>[](\A d \in Device :
            /\ durable[d].version = Document
            /\ durable[d].version \subseteq durable[d].server
            /\ \A u \in Queued(d) : queue[d][u].status = "blocked")

=============================================================================
