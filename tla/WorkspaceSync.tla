----------------------------- MODULE WorkspaceSync -----------------------------
(***************************************************************************)
(* Devices that edit a workspace offline and reconcile it with the server: *)
(* the durable outbox, the optimistic projection of each item, the records *)
(* of refused work, and the pass that submits the one and catches up the   *)
(* other.  One pass runs at a time on a device; edits go on during it.     *)
(***************************************************************************)
EXTENDS MutationFeed, SequencesExt

CONSTANTS
    Device,
    Writes,         \* the edits each device makes
    Direct,         \* the edits of clients that keep no queue
    Unreliable,     \* bound: devices whose requests get lost, delayed or cut by a crash
    BatchLimit, PageLimit

ASSUME SyncAssumption ==
    /\ Writes \in [Device -> SUBSET Edit]
    /\ \A d, e \in Device : d # e => Writes[d] \cap Writes[e] = {}
    /\ Direct \in SUBSET Edit
    /\ \A d \in Device : Writes[d] \cap Direct = {}
    /\ Unreliable \subseteq Device
    /\ BatchLimit \in Nat \ {0} /\ PageLimit \in Nat \ {0}

VARIABLES
    outbox,     \* per device: its queued mutations, in order
    conflicts,  \* per device: refused work kept for the owner
    view,       \* per device and item: the revision and content on screen
    cursor,     \* per device: the last change it has applied
    pass,       \* per device: where its reconciliation stands
    late,       \* per device: a request it gave up on and the server still serves
    tries       \* identities each edit has been submitted under

deviceVars == <<outbox, conflicts, view, cursor, pass, late, tries>>
syncVars == <<feedVars, deviceVars>>

Idle == [phase |-> "idle"]
Listing == [phase |-> "list"]
Submitting(merged) == [phase |-> "submit", merged |-> merged]

SyncInit ==
    /\ FeedInit
    /\ outbox = [d \in Device |-> << >>]
    /\ conflicts = [d \in Device |-> {}]
    /\ view = [d \in Device |-> [i \in Item |-> [revision |-> head[i], content |-> contents[head[i]]]]]
    /\ cursor = [d \in Device |-> 0]
    /\ pass = [d \in Device |-> Idle]
    /\ late = [d \in Device |-> << >>]
    /\ tries = [e \in Edit |-> 0]

Pending(rows) == {k \in DOMAIN rows : rows[k].status = "pending"}
Marked(rows, ids, status) ==
    [k \in DOMAIN rows |-> IF rows[k].id \in ids THEN [rows[k] EXCEPT !.status = status] ELSE rows[k]]
Without(rows, id) == RemoveAt(rows, CHOOSE k \in DOMAIN rows : rows[k].id = id)
Ids(rows) == {rows[k].id : k \in DOMAIN rows}
Sent(row) == [id |-> row.id, base |-> row.base, payload |-> row.payload]

-----------------------------------------------------------------------------
(* The owner works on a device.                                             *)

Fresh(e) == <<e, tries[e] + 1>>

Row(id, base, payload) ==
    [id |-> id, base |-> base, payload |-> payload, local |-> Local(id), status |-> "pending"]

Enqueue(d, row) ==
    /\ outbox' = [outbox EXCEPT ![d] = Append(@, row)]
    /\ view' = [view EXCEPT ![d][Changes(row.id)] = [revision |-> row.local, content |-> row.payload]]
    /\ tries' = [tries EXCEPT ![row.id[1]] = @ + 1]

\* The projection and the queued mutation are written together.
MakeEdit(d) ==
    /\ \E e \in Writes[d] :
          /\ tries[e] = 0
          /\ LET shown == view[d][ItemOf[e]]
             IN  Enqueue(d, Row(Fresh(e),
                                IF e \in Blind THEN {} ELSE {shown.revision},
                                [shown.content EXCEPT ![FieldOf[e]] = e]))
    /\ UNCHANGED <<feedVars, conflicts, cursor, pass, late>>

\* A command sent straight to the server, on what the server has.
Command ==
    /\ \E e \in Direct :
          /\ tries[e] = 0
          /\ Accept([id |-> Fresh(e), base |-> {head[ItemOf[e]]},
                     payload |-> [contents[head[ItemOf[e]]] EXCEPT ![FieldOf[e]] = e]])
          /\ tries' = [tries EXCEPT ![e] = 1]
    /\ UNCHANGED <<outbox, conflicts, view, cursor, pass, late>>

-----------------------------------------------------------------------------
(* Three-way merges of what one edit started from, made of it, and of the   *)
(* revision that beat it.                                                   *)

Clash(ancestor, local, remote) ==
    {f \in Field : local[f] # ancestor[f] /\ remote[f] # ancestor[f] /\ local[f] # remote[f]}

Merge(ancestor, local, remote) ==
    [f \in Field |-> IF local[f] = ancestor[f] THEN remote[f] ELSE local[f]]

\* The two revisions a comparison needs, when the server knows them both.
Comparisons(base, competing) ==
    {pair \in (base \cap DOMAIN contents) \X (competing \cap DOMAIN contents) :
        Cardinality(base) = 1 /\ Cardinality(competing) = 1}

\* The owner settles a conflict that cannot be merged.  The resolution is queued
\* before the record goes; a crash in between keeps both.
Resolve(d) ==
    /\ \E c \in conflicts[d] : \E pair \in Comparisons(c.base, c.competing) :
          LET ancestor == contents[pair[1]]
              remote == contents[pair[2]]
          IN  /\ Clash(ancestor, c.payload, remote) # {}
              /\ tries[c.id[1]] < MaxTries[c.id[1]]
              /\ \E choice \in {c.payload, remote} :
                    Enqueue(d, Row(Fresh(c.id[1]), {pair[1], pair[2]},
                                   [f \in Field |->
                                       IF f \in Clash(ancestor, c.payload, remote) THEN choice[f]
                                       ELSE Merge(ancestor, c.payload, remote)[f]]))
              /\ \/ conflicts' = [conflicts EXCEPT ![d] = @ \ {c}] /\ UNCHANGED pass
                 \/ d \in Unreliable /\ pass' = [pass EXCEPT ![d] = Idle] /\ UNCHANGED conflicts
    /\ UNCHANGED <<feedVars, cursor, late>>

-----------------------------------------------------------------------------
(* A pass submits the queue.                                                *)

\* Mutant: rows of an interrupted pass stay in flight.
BeginWithoutRecovery(d) ==
    /\ pass[d] = Idle
    /\ pass' = [pass EXCEPT ![d] = Submitting({})]
    /\ UNCHANGED <<feedVars, outbox, conflicts, view, cursor, late, tries>>

\* Whatever was in flight belongs to a pass that ended.
Begin(d) ==
    /\ pass[d] = Idle
    /\ pass' = [pass EXCEPT ![d] = Submitting({})]
    /\ outbox' = [outbox EXCEPT ![d] =
                    Marked(@, {r.id : r \in {q \in ToSet(@) : q.status = "sending"}}, "pending")]
    /\ UNCHANGED <<feedVars, conflicts, view, cursor, late, tries>>

Through(rows, k) == {j \in Pending(rows) : j <= k}

\* Mutant: a batch is cut by its size alone.
BatchBySize(rows) == {k \in Pending(rows) : Cardinality(Through(rows, k)) <= BatchLimit}

\* The rows of the next batch: a row that builds on one of it waits for another.
CausalBatch(rows) ==
    {k \in Pending(rows) :
        /\ Cardinality(Through(rows, k)) <= BatchLimit
        /\ \A j \in Through(rows, k) : \A h \in Through(rows, j) \ {j} :
              rows[h].local \notin rows[j].base}

InOrder(places) ==
    {order \in [1 .. Cardinality(places) -> places] :
        \A j, k \in DOMAIN order : j < k => order[j] < order[k]}

Submit(d) ==
    /\ pass[d].phase = "submit"
    /\ Pending(outbox[d]) # {}
    /\ \E order \in InOrder(CausalBatch(outbox[d])) :
          LET batch == [k \in DOMAIN order |-> outbox[d][order[k]]]
          IN  /\ outbox' = [outbox EXCEPT ![d] = Marked(@, Ids(batch), "sending")]
              /\ pass' = [pass EXCEPT ![d] =
                            [phase |-> "wait", merged |-> @.merged, batch |-> batch,
                             todo |-> [k \in DOMAIN batch |-> Sent(batch[k])], results |-> << >>]]
    /\ UNCHANGED <<feedVars, conflicts, view, cursor, late, tries>>

\* The server takes the mutations of a request one by one.
Serve(d) ==
    /\ pass[d].phase = "wait"
    /\ pass[d].todo # << >>
    /\ LET s == Head(pass[d].todo)
       IN  \/ Accept(s) /\ UNCHANGED pass
           \/ \E verdict \in Verdicts(s) :
                 /\ Answers(s, verdict)
                 /\ pass' = [pass EXCEPT ![d].todo = Tail(@), ![d].results = Append(@, verdict)]
    /\ UNCHANGED <<outbox, conflicts, view, cursor, late, tries>>

ServeLate(d) ==
    /\ late[d] # << >>
    /\ LET s == Head(late[d])
       IN  \/ Accept(s) /\ UNCHANGED late
           \/ /\ \E verdict \in Verdicts(s) :
                    Answers(s, verdict)
              /\ late' = [late EXCEPT ![d] = Tail(@)]
    /\ UNCHANGED <<outbox, conflicts, view, cursor, pass, tries>>

\* The answer, or the request, is lost; the server may still be working on it.
Abandon(d) == late' = [late EXCEPT ![d] = IF @ = << >> THEN pass[d].todo ELSE @]

GiveUp(d) ==
    /\ d \in Unreliable
    /\ pass[d].phase = "wait"
    /\ outbox' = [outbox EXCEPT ![d] = Marked(@, Ids(pass[d].batch), "pending")]
    /\ pass' = [pass EXCEPT ![d] = Idle]
    /\ Abandon(d)
    /\ UNCHANGED <<feedVars, conflicts, view, cursor, tries>>

Crash(d) ==
    /\ d \in Unreliable
    /\ pass[d].phase \in {"submit", "wait", "settle", "list"}
    /\ pass' = [pass EXCEPT ![d] = Idle]
    /\ IF pass[d].phase = "wait" THEN Abandon(d) ELSE UNCHANGED late
    /\ UNCHANGED <<feedVars, outbox, conflicts, view, cursor, tries>>

Answer(d) ==
    /\ pass[d].phase = "wait"
    /\ pass[d].todo = << >>
    /\ pass' = [pass EXCEPT ![d] = [phase |-> "settle", merged |-> @.merged,
                                    batch |-> @.batch, results |-> @.results]]
    /\ UNCHANGED <<feedVars, outbox, conflicts, view, cursor, late, tries>>

-----------------------------------------------------------------------------
(* Each result is settled in a transaction of its own.                      *)

\* The row goes, and the revision it stood for takes its canonical name.
Acknowledge(d, row) ==
    LET named(r) == IF r = row.local THEN Canonical(row.id) ELSE r
        rest == Without(outbox[d], row.id)
    IN  /\ outbox' = [outbox EXCEPT ![d] =
                        [k \in DOMAIN rest |->
                            [rest[k] EXCEPT !.base = {named(r) : r \in rest[k].base}]]]
        /\ view' = [view EXCEPT ![d] =
                      [i \in Item |-> [@[i] EXCEPT !.revision = named(view[d][i].revision)]]]
        /\ UNCHANGED <<conflicts, tries>>

\* The refused edit, merged with the revision that beat it, takes the place of
\* its row under a new identity.
Requeue(d, row, verdict) ==
    /\ row.id \notin pass[d].merged
    /\ tries[row.id[1]] < MaxTries[row.id[1]]
    /\ \E pair \in Comparisons(row.base, verdict.competing) :
          /\ Clash(contents[pair[1]], row.payload, contents[pair[2]]) = {}
          /\ outbox' = [outbox EXCEPT ![d] =
                          [k \in DOMAIN @ |->
                              IF @[k].id # row.id THEN @[k]
                              ELSE [@[k] EXCEPT !.id = Fresh(row.id[1]), !.status = "pending",
                                      !.payload = Merge(contents[pair[1]], row.payload, contents[pair[2]]),
                                      !.base = {pair[2]}]]]
    /\ tries' = [tries EXCEPT ![row.id[1]] = @ + 1]
    /\ UNCHANGED <<conflicts, view>>

\* Mutant: the row goes before the record of the conflict is written.
DropConflict(d, row, verdict) ==
    /\ outbox' = [outbox EXCEPT ![d] = Without(@, row.id)]
    /\ UNCHANGED <<conflicts, view, tries>>

CaptureConflict(d, row, verdict) ==
    /\ outbox' = [outbox EXCEPT ![d] = Without(@, row.id)]
    /\ conflicts' = [conflicts EXCEPT ![d] = @ \cup
                       {[id |-> row.id, base |-> row.base, payload |-> row.payload,
                         verdict |-> verdict.verdict, competing |-> verdict.competing]}]
    /\ UNCHANGED <<view, tries>>

MarkBlocked(d, row) ==
    /\ outbox' = [outbox EXCEPT ![d] = Marked(@, {row.id}, "blocked")]
    /\ UNCHANGED <<conflicts, view, tries>>

\* After the last result the pass looks for more to submit.
Onward(d, merged) ==
    LET p == pass[d]
    IN  pass' = [pass EXCEPT ![d] =
                    IF Len(p.results) = 1 THEN Submitting(merged)
                    ELSE [p EXCEPT !.merged = merged, !.batch = Tail(p.batch),
                                   !.results = Tail(p.results)]]

Settle(d) ==
    /\ pass[d].phase = "settle"
    /\ LET row == Head(pass[d].batch)
           verdict == Head(pass[d].results)
           merged == pass[d].merged
       IN  \/ /\ verdict.verdict = "accepted"
              /\ Acknowledge(d, row)
              /\ Onward(d, merged)
           \/ /\ verdict.verdict = "conflict"
              /\ Requeue(d, row, verdict)
              /\ Onward(d, merged \cup {Fresh(row.id[1])})
           \/ /\ verdict.verdict \in {"conflict", "rejected"}
              /\ CaptureConflict(d, row, verdict)
              /\ Onward(d, merged)
           \/ /\ verdict.verdict = "blocked"
              /\ MarkBlocked(d, row)
              /\ Onward(d, merged)
    /\ UNCHANGED <<feedVars, cursor, late>>

-----------------------------------------------------------------------------
(* Then it catches up with the feed, page by page.                          *)

CatchesUp(d) ==
    \/ pass[d].phase = "submit" /\ Pending(outbox[d]) = {}
    \/ pass[d].phase = "list"

\* The changes come with their items as they are when the page is read.
List(d) ==
    /\ CatchesUp(d)
    /\ LET page == {q \in ChangesAfter(cursor[d]) :
                        Cardinality({p \in ChangesAfter(cursor[d]) : p < q}) < PageLimit}
       IN  pass' = [pass EXCEPT ![d] =
                      [phase |-> "apply", page |-> page,
                       items |-> [i \in {Changes(feed[q]) : q \in page} |->
                                     [revision |-> head[i], content |-> contents[head[i]]]],
                       more |-> page # ChangesAfter(cursor[d])]]
    /\ UNCHANGED <<feedVars, outbox, conflicts, view, cursor, late, tries>>

Offline(d) ==
    /\ d \in Unreliable
    /\ CatchesUp(d)
    /\ pass' = [pass EXCEPT ![d] = Idle]
    /\ UNCHANGED <<feedVars, outbox, conflicts, view, cursor, late, tries>>

Refreshed(d, part) ==
    [i \in Item |-> IF \E q \in part : Changes(feed[q]) = i THEN pass[d].items[i] ELSE view[d][i]]

\* Mutant: the cursor jumps to the last number drawn.
InstallThroughDrawn(d, part) ==
    /\ view' = [view EXCEPT ![d] = Refreshed(d, part)]
    /\ cursor' = [cursor EXCEPT ![d] = drawn]

\* Every change moves the cursor in the transaction that applies it.
Install(d, part) ==
    /\ view' = [view EXCEPT ![d] = Refreshed(d, part)]
    /\ cursor' = [cursor EXCEPT ![d] = Max(part \cup {@})]

\* Mutant: work queued while the page was on its way is overwritten.
ApplyOverEdits(d) ==
    /\ pass[d].phase = "apply"
    /\ Install(d, pass[d].page)
    /\ pass' = [pass EXCEPT ![d] = IF @.more THEN Listing ELSE Idle]
    /\ UNCHANGED <<feedVars, outbox, conflicts, late, tries>>

\* A page that predates work queued since it was asked for is dropped.
Apply(d) ==
    /\ pass[d].phase = "apply"
    /\ IF Pending(outbox[d]) = {}
       THEN /\ Install(d, pass[d].page)
            /\ pass' = [pass EXCEPT ![d] = IF @.more THEN Listing ELSE Idle]
       ELSE pass' = [pass EXCEPT ![d] = Idle] /\ UNCHANGED <<view, cursor>>
    /\ UNCHANGED <<feedVars, outbox, conflicts, late, tries>>

\* The device stops before the last change of a page.
CrashApplying(d) ==
    /\ d \in Unreliable
    /\ pass[d].phase = "apply"
    /\ Pending(outbox[d]) = {}
    /\ \E next \in pass[d].page : Install(d, {q \in pass[d].page : q < next})
    /\ pass' = [pass EXCEPT ![d] = Idle]
    /\ UNCHANGED <<feedVars, outbox, conflicts, late, tries>>

Pass(d) ==
    \/ Begin(d) \/ Submit(d) \/ Serve(d) \/ Answer(d)
    \/ Settle(d) \/ List(d) \/ Apply(d)

Failure(d) == GiveUp(d) \/ Crash(d) \/ Offline(d) \/ CrashApplying(d)

SyncNext ==
    \/ \E d \in Device : MakeEdit(d) \/ Resolve(d) \/ Pass(d) \/ ServeLate(d) \/ Failure(d)
    \/ Command
    \/ (ToggleRefusing \/ \E i \in Item : Commit(i)) /\ UNCHANGED deviceVars

SyncSpec == SyncInit /\ [][SyncNext]_syncVars

-----------------------------------------------------------------------------
(* Fairness.  A pass follows every reconnection and every announced change  *)
(* and runs to its end; in the end the device and its network stay up.  No *)
(* failure has the effect of another step, so the clause excludes nothing   *)
(* else.                                                                    *)

Connected == <>[][~ \E d \in Device : Failure(d)]_syncVars

Fairness ==
    /\ \A d \in Device : WF_syncVars(Pass(d))
    /\ \A i \in Item : WF_syncVars(Commit(i) /\ UNCHANGED deviceVars)

FairSyncSpec == SyncSpec /\ Fairness /\ Connected

-----------------------------------------------------------------------------
(* Properties.                                                              *)

Rows(d) == ToSet(outbox[d])
Kept(d) == {r.id : r \in Rows(d)} \cup {c.id : c \in conflicts[d]}
Refused(m) == m \in DOMAIN receipts /\ receipts[m].verdict # "accepted"

SyncTypeOK ==
    /\ head \in [Item -> DOMAIN contents]
    /\ \A r \in DOMAIN contents : contents[r] \in Content
    /\ DOMAIN receipts \subseteq Mutation
    /\ DOMAIN feed \subseteq 1 .. drawn
    /\ DOMAIN open \subseteq Item
    /\ \A e \in Edit : tries[e] \in 0 .. MaxTries[e]
    /\ \A d \in Device :
          /\ Kept(d) \subseteq Mutation
          /\ \A r \in Rows(d) : r.status \in {"pending", "sending", "blocked"}
          /\ cursor[d] \in 0 .. drawn
          /\ pass[d].phase \in {"idle", "submit", "wait", "settle", "list", "apply"}

\* Whatever is lost, repeated, refused or interrupted, an edit the owner made is
\* queued on its device, kept there as a conflict, or accepted by the server.
NothingDropped ==
    \A d \in Device : \A e \in Writes[d] :
        tries[e] > 0 =>
            \/ \E m \in Kept(d) : m[1] = e
            \/ \E q \in DOMAIN feed : feed[q][1] = e

\* Retries, late copies, rebases and resolutions of one edit get it into the
\* feed once.
AcceptedOnce ==
    \A p, q \in DOMAIN feed : feed[p][1] = feed[q][1] => p = q

\* Only work the server has blocked may be queued and off the screen: markBlocked
\* keeps the row in the queue, and the guard of the feed, outbox.pending(), does not
\* count it, so a page of the feed overwrites what it shows.  Any other queued work
\* is on screen, or later work queued over it.  An edit that was refused and merged
\* can be overtaken by other work of the device, until that is answered.
OnlyBlockedIsHidden ==
    \A d \in Device : \A k \in DOMAIN outbox[d] :
        LET row == outbox[d][k]
            i == Changes(row.id)
            f == FieldOf[row.id[1]]
            resolution(r) == Cardinality(r.base) = 2
        IN  row.status # "blocked" =>
                \/ view[d][i].content[f] = IF resolution(row) THEN row.payload[f] ELSE row.id[1]
                \/ \E j \in k + 1 .. Len(outbox[d]) :
                      LET over == outbox[d][j]
                      IN  Changes(over.id) = i /\ (FieldOf[over.id[1]] = f \/ resolution(over))
                \/ /\ row.id[2] > 1 /\ ~resolution(row)
                   /\ \E m \in DOMAIN receipts :
                         Changes(m) = i /\ m[1] \in Writes[d] \ {row.id[1]}

\* A device that is merely behind itself is not in conflict: a stale base means
\* that another device changed the item, or that an earlier edit the refused one
\* builds on was itself refused, or that the device made an edit that names no base.
ConflictsAreReal ==
    \A d \in Device : \A c \in conflicts[d] :
        c.verdict = "conflict" =>
            \/ \E q \in DOMAIN feed :
                  /\ Changes(feed[q]) = Changes(c.id)
                  /\ feed[q][1] \notin Writes[d] \/ feed[q][1] \in Blind
            \/ \E m \in Mutation \ {c.id} :
                  /\ m[1] \in Writes[d] /\ Changes(m) = Changes(c.id)
                  /\ Refused(m) \/ \E r \in Rows(d) : r.id = m /\ r.status = "blocked"

\* A cursor stands for every change up to it: what a device shows of an item is
\* its own work, or no older than the last of those changes.
NoChangeSkipped ==
    \A d \in Device : \A q \in DOMAIN feed :
        LET shown == view[d][Changes(feed[q])].revision
        IN  q <= cursor[d] =>
                \/ shown[1] = "local"
                \/ \E p \in DOMAIN feed : p >= q /\ shown = Canonical(feed[p])

\* An accepted change stands until a change to the same thing is accepted.
AcceptedChangesStand ==
    \A q \in DOMAIN feed :
        LET m == feed[q]
            f == FieldOf[m[1]]
        IN  \/ contents[head[Changes(m)]][f] = contents[Canonical(m)][f]
            \/ \E p \in DOMAIN feed :
                  p > q /\ Changes(feed[p]) = Changes(m) /\ FieldOf[feed[p][1]] = f

\* Every device ends with an empty queue and the server's content of every item,
\* but for the work the server refused and the items it is on.
Converges ==
    <>[](\A d \in Device :
            /\ \A r \in Rows(d) : r.status = "blocked"
            /\ \A i \in Item :
                  \/ view[d][i].content = contents[head[i]]
                  \/ \E m \in Kept(d) : Changes(m) = i)

=============================================================================
