------------------------------ MODULE PageReplica ------------------------------
(***************************************************************************)
(* The device side of one operational page.  Every tab edits a replica of  *)
(* its own; an edit is committed to the encrypted store of the device      *)
(* together with a row of the outgoing queue.  One tab at a time, under an *)
(* origin-wide lock, exchanges a prefix of that queue with the server and  *)
(* commits the answer.                                                     *)
(*                                                                         *)
(* The store is written under the page lock in one IndexedDB transaction,  *)
(* so a commit is one action.  What the network and the server do is left  *)
(* to the module that instantiates this one.                               *)
(***************************************************************************)
EXTENDS Naturals, Sequences

CONSTANTS
    Device,
    Update,
    Tab,
    Owner,      \* the device each tab runs on
    Writes,     \* the updates each device may write
    MaxBatch    \* MAX_PAGE_UPDATES_PER_SYNC and MAX_PAGE_UPDATE_BATCH_BYTES

VARIABLES
    durable,    \* pageOperationStates: the checkpoint and frontiers of each device
    queue,      \* pageOperationUpdates: its rows not yet acknowledged, by update
    tabs,       \* the replica and the next order number of each open editor
    exchange    \* the exchange the owner of the synchronization lock is in

replicaVars == <<durable, queue, tabs, exchange>>

\* An ambiguity is known by the pair of updates it relates.
State == [version : SUBSET Update, cursor : Nat, server : SUBSET Update,
          ambiguities : SUBSET SUBSET Update]
QueueRow == [base : SUBSET Update, order : Nat, age : Nat,
             status : {"pending", "sending", "blocked"}]
Editor == [visible : SUBSET Update, next : Nat]

Idle == [stage |-> "idle"]

Queued(d) == DOMAIN queue[d]

\* The frontier of the author just after the update of a row.
Result(d, u) == queue[d][u].base \cup {u}

Init ==
    /\ durable = [d \in Device |->
                    [version |-> {}, cursor |-> 0, server |-> {}, ambiguities |-> {}]]
    /\ queue = [d \in Device |-> [u \in {} |-> Idle]]
    /\ tabs = [t \in Tab |-> [visible |-> {}, next |-> 1]]
    /\ exchange = [d \in Device |-> Idle]

-----------------------------------------------------------------------------
(* The editor of a tab.                                                     *)

Following(numbers) ==
    1 + CHOOSE n \in numbers \cup {0} : \A m \in numbers : m <= n

OrderAfter(d) == Following({queue[d][u].order : u \in Queued(d)})

NewRow(t) ==
    LET d == Owner[t]
    IN  [base |-> tabs[t].visible, order |-> tabs[t].next,
         age |-> Following({queue[d][u].age : u \in Queued(d)}), status |-> "pending"]

\* The row and the state are one transaction.  When the store holds more than
\* the tab shows the tab adopts it, unless the owner is typing (adopts).
EditWrites(t, u, adopts) ==
    LET d == Owner[t]
        version == durable[d].version \cup {u}
    IN  /\ durable' = [durable EXCEPT ![d].version = version]
        /\ queue' = [queue EXCEPT ![d] =
                [v \in Queued(d) \cup {u} |-> IF v = u THEN NewRow(t) ELSE queue[d][v]]]
        /\ tabs' = [tabs EXCEPT ![t] =
                [visible |-> IF adopts THEN version ELSE @.visible \cup {u},
                 next |-> @.next + 1]]
        /\ UNCHANGED exchange

Edit(t, u) ==
    /\ u \in Writes[Owner[t]] \ durable[Owner[t]].version
    /\ tabs[t].visible \subseteq durable[Owner[t]].version
    /\ \E adopts \in BOOLEAN : EditWrites(t, u, adopts)

\* A notice of another tab or of the reconciler: never the message, always the
\* store is imported.
Adopt(t) ==
    LET d == Owner[t]
        order == IF tabs[t].next < OrderAfter(d) THEN OrderAfter(d) ELSE tabs[t].next
    IN  /\ tabs[t].visible \subseteq durable[d].version
        /\ tabs' = [tabs EXCEPT ![t] = [visible |-> durable[d].version, next |-> order]]
        /\ UNCHANGED <<durable, queue, exchange>>

\* A tab is closed or crashes and the page is opened again.  If it owned the
\* exchange the browser releases the lock and the rows stay "sending".
Reload(t) ==
    LET d == Owner[t]
    IN  /\ tabs' = [tabs EXCEPT ![t] =
                        [visible |-> durable[d].version, next |-> OrderAfter(d)]]
        /\ exchange' \in {exchange, [exchange EXCEPT ![d] = Idle]}
        /\ UNCHANGED <<durable, queue>>

-----------------------------------------------------------------------------
(* The exchange.                                                            *)

\* The queue is listed by order number, rows of one order by their age.
Ahead(d, u, v) ==
    \/ queue[d][u].order < queue[d][v].order
    \/ queue[d][u].order = queue[d][v].order /\ queue[d][u].age < queue[d][v].age

\* Mutant: rows a crashed owner left "sending" are not recovered.
WaitingPending(d) == {u \in Queued(d) : queue[d][u].status = "pending"}

\* Rows a crashed owner left "sending" are recovered before the queue is read.
Waiting(d) == {u \in Queued(d) : queue[d][u].status # "blocked"}

\* The first rows of the list, as many as a request carries.
IsBatch(d, batch) ==
    /\ \A m, n \in DOMAIN batch : m < n => Ahead(d, batch[m], batch[n])
    /\ \A u \in Waiting(d) \ {batch[n] : n \in DOMAIN batch} :
          /\ Len(batch) = MaxBatch
          /\ \A n \in DOMAIN batch : Ahead(d, batch[n], u)

Batches(d) ==
    {batch \in UNION {[1 .. k -> Waiting(d)] : k \in 0 .. MaxBatch} : IsBatch(d, batch)}

\* The frontier a request proves is that of the last row it sends.
Outgoing(d, batch) ==
    [device |-> d,
     updates |-> [n \in DOMAIN batch |-> [id |-> batch[n], base |-> queue[d][batch[n]].base]],
     persisted |-> IF batch = << >> THEN durable[d].version
                   ELSE Result(d, batch[Len(batch)])]

\* The rows of a device, each with the given status.
WithStatus(d, status) ==
    [queue EXCEPT ![d] = [u \in Queued(d) |-> [queue[d][u] EXCEPT !.status = status[u]]]]

Send(d) ==
    /\ exchange[d] = Idle
    /\ \E batch \in Batches(d) :
          /\ queue' = WithStatus(d, [u \in Queued(d) |->
                  IF \E n \in DOMAIN batch : batch[n] = u THEN "sending"
                  ELSE IF u \in Waiting(d) THEN "pending" ELSE "blocked"])
          /\ exchange' = [exchange EXCEPT ![d] =
                  [stage |-> "waiting", request |-> Outgoing(d, batch)]]
    /\ UNCHANGED <<durable, tabs>>

\* The exchange ends and the rows it had claimed take a status.
EndExchange(d, status) ==
    /\ queue' = WithStatus(d, [u \in Queued(d) |->
            IF queue[d][u].status = "sending" THEN status ELSE queue[d][u].status])
    /\ exchange' = [exchange EXCEPT ![d] = Idle]
    /\ UNCHANGED <<durable, tabs>>

\* Mutant: rows whose answer did not come are set aside.
FailBlocking(d) ==
    /\ exchange[d] # Idle
    /\ EndExchange(d, "blocked")

\* No answer, a detail that cannot be asked for offline, or a failure of storage
\* or cryptography while the answer is committed.
Fail(d) ==
    /\ exchange[d] # Idle
    /\ EndExchange(d, "pending")

Refused(d, blocking) ==
    /\ exchange[d].stage = "waiting"
    /\ EndExchange(d, IF blocking THEN "blocked" ELSE "pending")

Receive(d, response) ==
    /\ exchange[d].stage = "waiting"
    /\ exchange' = [exchange EXCEPT ![d] =
            [stage |-> "answered", request |-> @.request, response |-> response]]
    /\ UNCHANGED <<durable, queue, tabs>>

\* Mutant: the page is read when the request is sent, not when it is answered.
MergedAsSent(d, response) ==
    exchange[d].request.persisted \cup {u.id : u \in response.remote}

\* The page the store holds with the remote updates of a response.
Merged(d, response) == durable[d].version \cup {u.id : u \in response.remote}

\* What #commitResponseOnce verifies, in this order, before it writes.
CursorAdvances(d, response) ==
    /\ durable[d].cursor <= response.through
    /\ response.through <= response.latest

Acknowledges(d, response) ==
    /\ DOMAIN response.acknowledged =
            {exchange[d].request.updates[n].id : n \in DOMAIN exchange[d].request.updates}
    /\ durable[d].server \subseteq response.document
    /\ \A u \in Queued(d) \cap DOMAIN response.acknowledged :
          /\ Result(d, u) \subseteq response.acknowledged[u]
          /\ response.acknowledged[u] \subseteq response.document

Importable(d, response) == \A u \in response.remote : u.base \subseteq Merged(d, response)

Complete(d, response) == response.document \subseteq Merged(d, response)

\* The ambiguities whose details the device has to ask for first.
Unknown(d, response) == response.ambiguities \ durable[d].ambiguities

\* An ambiguity the details of which are asked for must still be open.
Detailed(d, response, open) == Unknown(d, response) \subseteq open

\* Mutant: an answer that omits a part of the frontier it announces is taken.
AcceptableCut(d, response, open) ==
    /\ Detailed(d, response, open)
    /\ CursorAdvances(d, response)
    /\ Acknowledges(d, response)
    /\ Importable(d, response)

Acceptable(d, response, open) ==
    /\ Detailed(d, response, open)
    /\ CursorAdvances(d, response)
    /\ Acknowledges(d, response)
    /\ Importable(d, response)
    /\ Complete(d, response)

\* Mutant: the queue is emptied, with what was written during the exchange.
CommitEmptiesQueue(d, response, version) ==
    /\ durable' = [durable EXCEPT ![d] =
            [version |-> version, cursor |-> response.through,
             server |-> response.document, ambiguities |-> response.ambiguities]]
    /\ queue' = [queue EXCEPT ![d] = [u \in {} |-> Idle]]
    /\ exchange' = [exchange EXCEPT ![d] = Idle]
    /\ UNCHANGED tabs

\* Mutant: the cursor and the frontiers are stored without the page.
CommitWithoutPage(d, response, version) ==
    /\ durable' = [durable EXCEPT ![d] =
            [version |-> @.version, cursor |-> response.through,
             server |-> response.document, ambiguities |-> response.ambiguities]]
    /\ queue' = [queue EXCEPT ![d] =
            [u \in Queued(d) \ DOMAIN response.acknowledged |-> @[u]]]
    /\ exchange' = [exchange EXCEPT ![d] = Idle]
    /\ UNCHANGED tabs

\* Rows written while the answer was on its way stay in the queue.
CommitWrites(d, response, version) ==
    /\ durable' = [durable EXCEPT ![d] =
            [version |-> version, cursor |-> response.through,
             server |-> response.document, ambiguities |-> response.ambiguities]]
    /\ queue' = [queue EXCEPT ![d] =
            [u \in Queued(d) \ DOMAIN response.acknowledged |-> @[u]]]
    /\ exchange' = [exchange EXCEPT ![d] = Idle]
    /\ UNCHANGED tabs

CommitResponse(d, open) ==
    /\ exchange[d].stage = "answered"
    /\ Acceptable(d, exchange[d].response, open)
    /\ CommitWrites(d, exchange[d].response, Merged(d, exchange[d].response))

RejectResponse(d, open) ==
    /\ exchange[d].stage = "answered"
    /\ ~Acceptable(d, exchange[d].response, open)
    /\ EndExchange(d, "blocked")

\* The server refuses to tell the details, for whatever reason: too many
\* requests, an expired session, a failure of its own.
DetailsRefused(d) ==
    /\ exchange[d].stage = "answered"
    /\ Unknown(d, exchange[d].response) # {}
    /\ EndExchange(d, "blocked")

\* The server has served the request, and the body of its answer is cut short.
Unreadable(d) ==
    /\ exchange[d].stage = "answered"
    /\ EndExchange(d, "blocked")

-----------------------------------------------------------------------------

\* derivePageSyncState: what the owner is shown as synchronized.
Synced(d) ==
    /\ Queued(d) = {}
    /\ durable[d].version \subseteq durable[d].server

=============================================================================
