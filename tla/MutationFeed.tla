------------------------------ MODULE MutationFeed ------------------------------
(***************************************************************************)
(* The server's side of everything that is not page content: mutations     *)
(* with a stable identity, the verdict kept for each, the head revision of *)
(* every item, and the numbered feed of changes that devices follow.       *)
(*                                                                         *)
(* An edit changes one field of one item.  It is submitted under one or    *)
(* more mutation identities <<edit, n>>: a retry keeps the identity, a     *)
(* rebase or a resolution takes the next.                                  *)
(***************************************************************************)
EXTENDS Naturals, FiniteSets

CONSTANTS
    Edit, Item, Field,
    ItemOf, FieldOf,    \* what each edit changes
    Blind,              \* edits that name no base: rename, move, favourite...
    Rejectable,         \* edits that may break a rule of the workspace
    RefuseWithin,       \* bound: a deadline passes before that many verdicts
    MaxTries,           \* bound: mutation identities of each edit
    MaxOpen             \* bound: transactions open at once

Untouched == "untouched"
Mutation == UNION {{e} \X (1 .. MaxTries[e]) : e \in Edit}
Content == [Field -> Edit \cup {Untouched}]
Origin(i) == <<"origin", i>>
Local(m) == <<"local", m>>
Canonical(m) == <<"server", m>>
Changes(m) == ItemOf[m[1]]
Put(f, x, v) == [y \in DOMAIN f \cup {x} |-> IF y = x THEN v ELSE f[y]]

ASSUME FeedAssumption ==
    /\ ItemOf \in [Edit -> Item] /\ FieldOf \in [Edit -> Field]
    /\ Untouched \notin Edit
    /\ Blind \subseteq Edit /\ Rejectable \subseteq Edit
    /\ RefuseWithin \in Nat
    /\ MaxTries \in [Edit -> Nat \ {0}] /\ MaxOpen \in Nat \ {0}

VARIABLES
    contents,   \* content of every canonical revision
    head,       \* current revision of each item
    receipts,   \* the verdict of every mutation that has one
    feed,       \* the mutation committed under each sequence number
    drawn,      \* last sequence number drawn
    open,       \* by item, the transaction that has written it and not committed
    refusing    \* a rotation is overdue beyond its write-block deadline

feedVars == <<contents, head, receipts, feed, drawn, open, refusing>>

FeedInit ==
    /\ contents = [r \in {Origin(i) : i \in Item} |-> [f \in Field |-> Untouched]]
    /\ head = [i \in Item |-> Origin(i)]
    /\ receipts = << >>
    /\ feed = << >>
    /\ drawn = 0
    /\ open = << >>
    /\ refusing = FALSE

Accepted == {m \in DOMAIN receipts : receipts[m].verdict = "accepted"}
Known(s) == s.id \in DOMAIN receipts

\* The row of the item is written under a lock until the transaction ends; one
\* that waited for it is retried against the new head.
Free(s) == Changes(s.id) \notin DOMAIN open

\* An edit names the head as its base; a resolution names it as one of two.
Founded(s) == s.id[1] \in Blind \/ head[Changes(s.id)] \in s.base

Result(s) ==
    IF s.id[1] \in Blind
    THEN [contents[head[Changes(s.id)]] EXCEPT ![FieldOf[s.id[1]]] = s.id[1]]
    ELSE s.payload

\* The sequence number is drawn when the change is inserted, before the commit.
Accept(s) ==
    /\ ~Known(s) /\ Free(s) /\ Founded(s)
    /\ ~refusing
    /\ Cardinality(DOMAIN open) < MaxOpen
    /\ drawn' = drawn + 1
    /\ open' = Put(open, Changes(s.id), [id |-> s.id, sequence |-> drawn + 1, content |-> Result(s)])
    /\ UNCHANGED <<contents, head, receipts, feed, refusing>>

\* Mutant: the receipt is written after the commit, and lost.
CommitWithoutReceipt(i) ==
    /\ i \in DOMAIN open
    /\ head' = [head EXCEPT ![i] = Canonical(open[i].id)]
    /\ contents' = Put(contents, Canonical(open[i].id), open[i].content)
    /\ feed' = Put(feed, open[i].sequence, open[i].id)
    /\ open' = [j \in DOMAIN open \ {i} |-> open[j]]
    /\ UNCHANGED <<receipts, drawn, refusing>>

\* Content, receipt and change appear together.
Commit(i) ==
    /\ i \in DOMAIN open
    /\ head' = [head EXCEPT ![i] = Canonical(open[i].id)]
    /\ contents' = Put(contents, Canonical(open[i].id), open[i].content)
    /\ receipts' = Put(receipts, open[i].id, [verdict |-> "accepted", competing |-> {}])
    /\ feed' = Put(feed, open[i].sequence, open[i].id)
    /\ open' = [j \in DOMAIN open \ {i} |-> open[j]]
    /\ UNCHANGED <<drawn, refusing>>

Refusals(s) ==
    (IF Founded(s) THEN {} ELSE {[verdict |-> "conflict", competing |-> {head[Changes(s.id)]}]})
        \cup {[verdict |-> "rejected", competing |-> {}] : e \in {s.id[1]} \cap Rejectable}

\* A refusal is kept as well, so that a late copy can only repeat it.
Refuse(s, verdict) ==
    /\ ~Known(s) /\ Free(s)
    /\ verdict \in Refusals(s)
    /\ receipts' = Put(receipts, s.id, verdict)
    /\ UNCHANGED <<contents, head, feed, drawn, open, refusing>>

\* The write block is checked last, rolls everything back and keeps nothing.
WriteBlocked(s) ==
    /\ ~Known(s) /\ Free(s) /\ Founded(s)
    /\ refusing
    /\ UNCHANGED feedVars

Blocked == [verdict |-> "blocked", competing |-> {}]

Verdicts(s) == Refusals(s) \cup {Blocked} \cup {receipts[m] : m \in {s.id} \cap DOMAIN receipts}

\* The verdict a submission gets, once there is one.
Answers(s, verdict) ==
    \/ Known(s) /\ verdict = receipts[s.id] /\ UNCHANGED feedVars
    \/ Refuse(s, verdict)
    \/ WriteBlocked(s) /\ verdict = Blocked

\* A deadline passes, or a rotation completes.
ToggleRefusing ==
    /\ Cardinality(DOMAIN receipts) < RefuseWithin \/ refusing
    /\ refusing' = ~refusing
    /\ UNCHANGED <<contents, head, receipts, feed, drawn, open>>

\* What a device that asks for the changes after a cursor is given.
ChangesAfter(cursor) == {q \in DOMAIN feed : q > cursor}

=============================================================================
