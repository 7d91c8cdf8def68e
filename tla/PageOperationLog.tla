--------------------------- MODULE PageOperationLog ---------------------------
(***************************************************************************)
(* The server side of one operational page: the append-only log of         *)
(* accepted updates, its checkpoints, the durable frontier each device has *)
(* confirmed, and the compaction that forgets payloads nobody needs.       *)
(*                                                                         *)
(* A version vector is the set of updates it dominates, so domination is   *)
(* set inclusion; an update is its identity and the frontier it was        *)
(* authored on.  Every operation runs in one SERIALIZABLE transaction that *)
(* locks the page state, so each is one action.                            *)
(***************************************************************************)
EXTENDS Naturals, Sequences, FiniteSets

CONSTANTS
    Device,         \* devices of the workspace
    Managed,        \* those the owner may suspend or revoke
    Update,         \* update identities
    ServerUpdate,   \* those of commands the server authors itself
    Requests,       \* the synchronization requests a device may send
    MaxRows,        \* MAX_PAGE_UPDATES_PER_SYNC: log rows examined per request
    MaxRemote,      \* maxRemoteBytes, counted in updates of one size
    ReplayInterval, \* PAGE_OPERATION_REPLAY_CHECKPOINT_INTERVAL
    MaxCheckpoints  \* bound of the instance: candidates stop at this many

Frontier == SUBSET Update
Candidate == [id : Update, base : Frontier]
Request == [device : Device, updates : Seq(Candidate), persisted : Frontier]

ASSUME RequestsAssumption ==
    /\ Requests \subseteq Request
    /\ ServerUpdate \subseteq Update
    /\ Managed \subseteq Device
    /\ \A r \in Requests : \A i \in DOMAIN r.updates : r.updates[i].id \notin ServerUpdate
ASSUME LimitsAssumption ==
    /\ MaxRows \in Nat \ {0}
    /\ MaxRemote \in Nat \ {0}
    /\ ReplayInterval \in Nat \ {0}

VARIABLES
    rows,           \* page_operation_updates, in page_sequence order
    checkpoints,    \* page_operation_checkpoints, by through_page_sequence
    current,        \* current_checkpoint_id, as the sequence it reaches
    windowOpen,     \* revision_window_started_at is set
    frontiers,      \* page_device_frontiers, by device
    authorization,  \* authorized_devices.state
    ambiguities     \* page_ambiguities

vars == <<rows, checkpoints, current, windowOpen, frontiers, authorization, ambiguities>>

Row == [id : Update, device : Device, base : Frontier, compacted : BOOLEAN]
Checkpoint == [state : {"candidate", "verified", "superseded"},
               floor : Nat,      \* rows whose history the snapshot has trimmed
               revision : {"current", "stale"},  \* revision_id = last_revision_id
               covered : BOOLEAN]                \* named by a verified backup
DeviceFrontier == [persisted : Frontier, confirmed : Nat,
                   state : {"authorized", "revoked"}]
Authorization == {"active", "reauthorization-required", "revoked"}
Ambiguity == [sources : Frontier, open : BOOLEAN]

-----------------------------------------------------------------------------
(* The document and the frontiers the log retains.                         *)

\* Result frontier of the row at sequence n of a log: everything up to it.
Prefix(log, n) == {log[m].id : m \in 1 .. n}

Document == Prefix(rows, Len(rows))

\* The frontier the author of a row saw just after writing it.
Authored(row) == row.base \cup {row.id}

\* Retained payloads start at the first row that is not compacted.
Retained(log) == {n \in 1 .. Len(log) : ~log[n].compacted}

\* A replica rebuilt from a trimmed snapshot cannot import work that was
\* authored on a frontier older than the trimmed history.
Importable(base) == Prefix(rows, checkpoints[current].floor) \subseteq base

\* #load: the page can be rebuilt from its current checkpoint.
Loadable ==
    /\ current \in DOMAIN checkpoints
    /\ checkpoints[current].state = "verified"
    /\ \A n \in current + 1 .. Len(rows) :
          ~rows[n].compacted /\ Importable(rows[n].base)

-----------------------------------------------------------------------------
(* Accepting a batch.                                                      *)

Ids(r) == {r.updates[i].id : i \in DOMAIN r.updates}

NewIndexes(r) == {i \in DOMAIN r.updates : r.updates[i].id \notin Document}

\* Mutant: one identity may appear twice in one request.
RepeatsInRequestHold(r) ==
    \A i \in DOMAIN r.updates : \A n \in DOMAIN rows :
        rows[n].id = r.updates[i].id =>
            rows[n].device = r.device /\ rows[n].base = r.updates[i].base

\* Nothing in the request reuses an identity for something else.
IdentitiesHold(r) ==
    /\ \A i, j \in DOMAIN r.updates : r.updates[i].id = r.updates[j].id => i = j
    /\ \A i \in DOMAIN r.updates, n \in DOMAIN rows :
          rows[n].id = r.updates[i].id =>
              rows[n].device = r.device /\ rows[n].base = r.updates[i].base

\* Position of j in the batch when scanning on from i and around.
ScanDistance(r, i, j) == IF j > i THEN j - i ELSE (j + Len(r.updates)) - i

\* The order in which the repeated scans of the batch import it: always the
\* next candidate whose causal base the document already holds.
IsImportOrder(r, order) ==
    LET Imported(k) == Document \cup {r.updates[order[m]].id : m \in 1 .. k - 1}
        Last(k) == IF k = 1 THEN 0 ELSE order[k - 1]
        Waiting(k) == NewIndexes(r) \ {order[m] : m \in 1 .. k - 1}
        Ready(k) == {i \in Waiting(k) : r.updates[i].base \subseteq Imported(k)}
    IN  /\ \A i \in NewIndexes(r) : \E k \in DOMAIN order : order[k] = i
        /\ \A k \in DOMAIN order :
              /\ order[k] \in Ready(k)
              /\ Importable(r.updates[order[k]].base)
              /\ \A i \in Ready(k) :
                    ScanDistance(r, Last(k), order[k]) <= ScanDistance(r, Last(k), i)

ImportOrders(r) ==
    {order \in UNION {[1 .. k -> NewIndexes(r)] : k \in 0 .. Len(r.updates)} :
        IsImportOrder(r, order)}

\* The log after the batch is appended with consecutive page sequences.
AppendBatch(r, order) ==
    rows \o [k \in DOMAIN order |->
               [id |-> r.updates[order[k]].id, device |-> r.device,
                base |-> r.updates[order[k]].base, compacted |-> FALSE]]

-----------------------------------------------------------------------------
(* Catching the device up.                                                 *)

\* #confirmedRequestPrefix: the longest prefix the durable frontier proves.
IsConfirmedPrefix(log, persisted, n) ==
    /\ Prefix(log, n) \subseteq persisted
    /\ \A m \in n + 1 .. Len(log) : ~(Prefix(log, m) \subseteq persisted)

WindowEnd(log, confirmed) ==
    IF confirmed + MaxRows < Len(log) THEN confirmed + MaxRows ELSE Len(log)

\* Rows of the window whose payload the response may have to carry.
NeedPayload(log, r, confirmed) ==
    {n \in confirmed + 1 .. WindowEnd(log, confirmed) :
        log[n].id \notin Ids(r) /\ ~(Prefix(log, n) \subseteq r.persisted)}

\* Mutant: a device is never sent what it wrote itself.
SendableOfOthers(log, r, confirmed) ==
    {n \in NeedPayload(log, r, confirmed) : log[n].device # r.device}

\* Those the device does not already hold as its own authored branch.
Sendable(log, r, confirmed) ==
    {n \in NeedPayload(log, r, confirmed) : ~(Authored(log[n]) \subseteq r.persisted)}

\* The last row examined before the byte budget stops the walk.
IsThrough(log, r, confirmed, through) ==
    LET sent(t) == {n \in Sendable(log, r, confirmed) : n <= t}
    IN  /\ Cardinality(sent(through)) <= MaxRemote
        /\ \A t \in through + 1 .. WindowEnd(log, confirmed) :
              Cardinality(sent(t)) > MaxRemote

\* Everything sync decides before it writes, once the import order is known.
PlansFor(r, order) ==
    LET log == AppendBatch(r, order)
    IN  {p \in [order : {order},
                confirmed : {n \in 0 .. Len(log) : IsConfirmedPrefix(log, r.persisted, n)},
                through : 0 .. Len(log)] :
            /\ r.persisted \subseteq Prefix(log, Len(log))
            /\ \A n \in NeedPayload(log, r, p.confirmed) : ~log[n].compacted
            /\ p.confirmed <= p.through
            /\ p.through <= WindowEnd(log, p.confirmed)
            /\ IsThrough(log, r, p.confirmed, p.through)}

\* Empty exactly when sync refuses the request.
Plans(r) ==
    IF ~Loadable \/ ~IdentitiesHold(r) THEN {}
    ELSE UNION {PlansFor(r, order) : order \in ImportOrders(r)}

\* What the device is told: every submitted update with its retained result
\* frontier, the remote updates, the whole document frontier and the cursor.
Response(r, p) ==
    LET log == AppendBatch(r, p.order)
        carried == {n \in Sendable(log, r, p.confirmed) : n <= p.through}
    IN  [acknowledged |-> [u \in Ids(r) |->
              Prefix(log, CHOOSE n \in DOMAIN log : log[n].id = u)],
         remote |-> {[id |-> log[n].id, base |-> log[n].base] : n \in carried},
         document |-> Prefix(log, Len(log)),
         through |-> p.through,
         latest |-> Len(log)]

-----------------------------------------------------------------------------
(* Ambiguities: concurrent branches whose meaning needs the owner.         *)

FirstRetained(log) == CHOOSE n \in Retained(log) : \A m \in Retained(log) : n <= m

\* Rows no other retained authored branch contains.
Tips(log) ==
    {n \in Retained(log) :
        ~\E m \in Retained(log) \ {n} : Authored(log[n]) \subseteq Authored(log[m])}

\* A tip replayed alone, from the checkpoint before the retained rows.
BranchRebuilds(log, tip) ==
    Authored(log[tip]) =
        Prefix(log, FirstRetained(log) - 1)
            \cup {log[n].id : n \in {m \in Retained(log) :
                                        Authored(log[m]) \subseteq Authored(log[tip])}}

MustDetect(r, p) ==
    /\ DOMAIN p.order # {}
    /\ ~(Prefix(AppendBatch(r, p.order), Len(rows) + Len(p.order)) \subseteq r.persisted)

\* The sets of ambiguities one request may open: at most one here, between
\* two tips one of which the device had not seen.  No member: the detection
\* refuses the request.
Detections(r, p) ==
    LET log == AppendBatch(r, p.order)
        hidden == \E n \in Tips(log) : ~(Authored(log[n]) \subseteq r.persisted)
        pairs == {{log[n].id, log[m].id} : n, m \in Tips(log)}
    IN  IF ~MustDetect(r, p) THEN {{}}
        ELSE IF FirstRetained(log) - 1 \notin DOMAIN checkpoints THEN {}
        ELSE IF Cardinality(Tips(log)) <= 1 \/ ~hidden THEN {{}}
        ELSE IF \E n \in Tips(log) : ~BranchRebuilds(log, n) THEN {}
        ELSE {{}} \cup {{[sources |-> pair, open |-> TRUE]} :
                           pair \in {q \in pairs : Cardinality(q) = 2}}

\* An ambiguity already recorded under the same sources is not opened again.
WithDetected(found) ==
    ambiguities \cup {a \in found : \A b \in ambiguities : b.sources # a.sources}

-----------------------------------------------------------------------------
(* History and checkpoints.                                                *)

\* Mutant: every checkpoint is attached to the new revision.
ConsolidatedEverywhere(cps, head) ==
    [c \in DOMAIN cps |-> [cps[c] EXCEPT !.revision = "current"]]

\* A new revision: only a checkpoint at the head is re-attached to it.
Consolidated(cps, head) ==
    [c \in DOMAIN cps |->
        [cps[c] EXCEPT !.revision = IF c = head THEN "current" ELSE "stale"]]

\* promotePageOperationCheckpoint: the previous checkpoint is superseded.
Promoted(cps, old, new) ==
    [c \in DOMAIN cps |->
        IF c = old /\ old # new /\ cps[c].state = "verified"
        THEN [cps[c] EXCEPT !.state = "superseded"] ELSE cps[c]]

\* #rollReplayCheckpoint runs before new updates are accepted.
RollDue(r) ==
    /\ NewIndexes(r) # {}
    /\ Len(rows) - current >= ReplayInterval
    /\ Len(rows) \notin DOMAIN checkpoints

\* Mutant: the rolled checkpoint is promoted without having been stored.
RolledWithoutRow(cps, window) == Promoted(cps, current, Len(rows))

\* The rolled snapshot keeps all the history the loaded document still has.
Rolled(cps, window) ==
    Promoted([c \in DOMAIN cps \cup {Len(rows)} |->
                IF c \in DOMAIN cps THEN cps[c]
                ELSE [state |-> "verified", floor |-> cps[current].floor,
                      revision |-> IF window THEN "stale" ELSE "current",
                      covered |-> FALSE]],
             current, Len(rows))

Init ==
    /\ rows = << >>
    /\ checkpoints = [c \in {0} |-> [state |-> "verified", floor |-> 0,
                                    revision |-> "current", covered |-> FALSE]]
    /\ current = 0
    /\ windowOpen = FALSE
    /\ frontiers = [d \in {} |-> {}]
    /\ authorization = [d \in Device |-> "active"]
    /\ ambiguities = {}

-----------------------------------------------------------------------------
(* A synchronization request, from the first lock to the commit.            *)

\* Mutant: a stale tab overwrites the frontier of its device.
ConfirmedByAnyTab(r, confirmed) ==
    [d \in DOMAIN frontiers \cup {r.device} |->
        IF d # r.device THEN frontiers[d]
        ELSE [persisted |-> r.persisted,
              confirmed |-> IF r.device \in DOMAIN frontiers
                               /\ frontiers[r.device].confirmed > confirmed
                            THEN frontiers[r.device].confirmed ELSE confirmed,
              state |-> "authorized"]]

\* The device row after a request that proved the given prefix.  A stale tab
\* is answered but never moves the frontier of its device back.
Confirmed(r, confirmed) ==
    LET known == r.device \in DOMAIN frontiers
        reached == IF known /\ frontiers[r.device].confirmed > confirmed
                   THEN frontiers[r.device].confirmed ELSE confirmed
        advances == ~known \/ frontiers[r.device].persisted \subseteq r.persisted
        changes == ~known \/ frontiers[r.device].persisted # r.persisted
                          \/ frontiers[r.device].confirmed # reached
    IN  IF advances /\ changes
        THEN [d \in DOMAIN frontiers \cup {r.device} |->
                 IF d = r.device
                 THEN [persisted |-> r.persisted, confirmed |-> reached,
                       state |-> "authorized"]
                 ELSE frontiers[d]]
        ELSE frontiers

\* before and after: the history window is consolidated when the request
\* arrives (it is due) and when it has been served (due, or editor closed).
SyncWrites(r, p, found, before, after) ==
    LET log == AppendBatch(r, p.order)
        accepted == Len(log) > Len(rows)
        waiting == windowOpen /\ ~before
        settled == IF before THEN Consolidated(checkpoints, Len(rows)) ELSE checkpoints
        rolled == IF RollDue(r) THEN Rolled(settled, waiting) ELSE settled
    IN  /\ before => windowOpen
        /\ after => waiting \/ accepted
        /\ rows' = log
        /\ current' = IF RollDue(r) THEN Len(rows) ELSE current
        /\ checkpoints' = IF after THEN Consolidated(rolled, Len(log)) ELSE rolled
        /\ windowOpen' = ((waiting \/ accepted) /\ ~after)
        /\ frontiers' = Confirmed(r, p.confirmed)
        /\ ambiguities' = WithDetected(found)

SyncBy(r, p) ==
    /\ authorization[r.device] = "active"
    /\ \E found \in Detections(r, p) :
          \E before, after \in BOOLEAN : SyncWrites(r, p, found, before, after)
    /\ UNCHANGED authorization

Sync(r) == \E p \in Plans(r) : SyncBy(r, p)

-----------------------------------------------------------------------------
(* Commands the server authors on behalf of the owner.                     *)

\* applyServerCommands: one update on top of the merged page and a revision
\* of its own, which no existing checkpoint is attached to.
ApplyServerCommands(u, d) ==
    /\ authorization[d] = "active"
    /\ u \in ServerUpdate \ Document
    /\ Loadable
    /\ rows' = Append(rows, [id |-> u, device |-> d, base |-> Document, compacted |-> FALSE])
    /\ windowOpen' = FALSE
    /\ checkpoints' = [c \in DOMAIN checkpoints |->
                          [checkpoints[c] EXCEPT !.revision = "stale"]]
    /\ UNCHANGED <<current, frontiers, authorization>>

RestoreRevision(u, d) ==
    /\ ApplyServerCommands(u, d)
    /\ UNCHANGED ambiguities

ResolveAmbiguity(u, d, a) ==
    /\ a.open
    /\ ApplyServerCommands(u, d)
    /\ ambiguities' = (ambiguities \ {a}) \cup {[a EXCEPT !.open = FALSE]}

\* consolidateDue: the background timer closes a due history window.
ConsolidateDue ==
    /\ windowOpen
    /\ windowOpen' = FALSE
    /\ checkpoints' = Consolidated(checkpoints, Len(rows))
    /\ UNCHANGED <<rows, current, frontiers, authorization, ambiguities>>

-----------------------------------------------------------------------------
(* Shallow checkpoints and compaction.                                     *)

\* A candidate at the head; its snapshot trims the history it reproduces.
CreateCandidate ==
    /\ Loadable
    /\ Len(rows) \notin DOMAIN checkpoints
    /\ Cardinality(DOMAIN checkpoints) < MaxCheckpoints
    /\ checkpoints' = [c \in DOMAIN checkpoints \cup {Len(rows)} |->
                          IF c \in DOMAIN checkpoints THEN checkpoints[c]
                          ELSE [state |-> "candidate", floor |-> Len(rows),
                                revision |-> "current", covered |-> FALSE]]
    /\ UNCHANGED <<rows, current, windowOpen, frontiers, authorization, ambiguities>>

VerifyCandidate(c) ==
    /\ checkpoints[c].state = "candidate"
    /\ checkpoints' = [checkpoints EXCEPT ![c].state = "verified"]
    /\ UNCHANGED <<rows, current, windowOpen, frontiers, authorization, ambiguities>>

\* A backup that passed its read-back vouches for the checkpoints it carries:
\* every one but the candidates and those already superseded.
VerifiedBackup ==
    /\ checkpoints' = [c \in DOMAIN checkpoints |->
                          IF checkpoints[c].state = "verified"
                          THEN [checkpoints[c] EXCEPT !.covered = TRUE] ELSE checkpoints[c]]
    /\ UNCHANGED <<rows, current, windowOpen, frontiers, authorization, ambiguities>>

\* Open or resolved, an ambiguity retains the updates it names.
AmbiguityDependsThrough(c) ==
    \E a \in ambiguities, n \in 1 .. c : rows[n].id \in a.sources

\* Mutant: an open history window is not looked at.
RevisionAllows(c) == checkpoints[c].revision = "current"

HistoryAllows(c) == ~windowOpen /\ checkpoints[c].revision = "current"

\* Mutant: a device waiting for reauthorization is not waited for.
LaggingActive(c) ==
    {d \in DOMAIN frontiers :
        /\ authorization[d] = "active"
        /\ \/ frontiers[d].confirmed < c
           \/ ~(Prefix(rows, c) \subseteq frontiers[d].persisted)}

Lagging(c) ==
    {d \in DOMAIN frontiers :
        /\ authorization[d] # "revoked"
        /\ \/ frontiers[d].confirmed < c
           \/ ~(Prefix(rows, c) \subseteq frontiers[d].persisted)}

\* Every gate of compact that precedes the device frontiers.
MayCompact(c) ==
    /\ checkpoints[c].state = "verified"
    /\ current < c
    /\ c <= Len(rows)
    /\ checkpoints[c].covered
    /\ HistoryAllows(c)
    /\ ~AmbiguityDependsThrough(c)

\* The revocation is copied to the frontier rows whatever compact decides.
MarkRevoked ==
    frontiers' = [d \in DOMAIN frontiers |->
                    IF authorization[d] = "revoked"
                    THEN [frontiers[d] EXCEPT !.state = "revoked"] ELSE frontiers[d]]

\* Mutant: the payload of the last row the checkpoint covers stays.
CompactBelow(c) ==
    /\ MayCompact(c)
    /\ Lagging(c) = {}
    /\ MarkRevoked
    /\ current' = c
    /\ checkpoints' = Promoted(checkpoints, current, c)
    /\ rows' = [n \in DOMAIN rows |->
                  IF n < c THEN [rows[n] EXCEPT !.compacted = TRUE] ELSE rows[n]]
    /\ UNCHANGED <<windowOpen, authorization, ambiguities>>

Compact(c) ==
    /\ MayCompact(c)
    /\ Lagging(c) = {}
    /\ MarkRevoked
    /\ current' = c
    /\ checkpoints' = Promoted(checkpoints, current, c)
    /\ rows' = [n \in DOMAIN rows |->
                  IF n <= c THEN [rows[n] EXCEPT !.compacted = TRUE] ELSE rows[n]]
    /\ UNCHANGED <<windowOpen, authorization, ambiguities>>

CompactionBlocked(c) ==
    /\ MayCompact(c)
    /\ Lagging(c) # {}
    /\ MarkRevoked
    /\ UNCHANGED <<rows, checkpoints, current, windowOpen, authorization, ambiguities>>

-----------------------------------------------------------------------------
(* The device lifecycle, owned by the account and not by the page.         *)

Authorize(d, from, to) ==
    /\ authorization[d] \in from
    /\ authorization' = [authorization EXCEPT ![d] = to]
    /\ UNCHANGED <<rows, checkpoints, current, windowOpen, frontiers, ambiguities>>

RequireDeviceReauthorization(d) == Authorize(d, {"active"}, "reauthorization-required")

Reauthorize(d) == Authorize(d, {"reauthorization-required"}, "active")

RevokeDevice(d) == Authorize(d, {"active", "reauthorization-required"}, "revoked")

-----------------------------------------------------------------------------
Next ==
    \/ \E r \in Requests : Sync(r)
    \/ \E u \in ServerUpdate, d \in Device :
          RestoreRevision(u, d) \/ \E a \in ambiguities : ResolveAmbiguity(u, d, a)
    \/ ConsolidateDue
    \/ CreateCandidate
    \/ VerifiedBackup
    \/ \E c \in DOMAIN checkpoints :
          VerifyCandidate(c) \/ Compact(c) \/ CompactionBlocked(c)
    \/ \E d \in Managed :
          RequireDeviceReauthorization(d) \/ Reauthorize(d) \/ RevokeDevice(d)

Spec == Init /\ [][Next]_vars

-----------------------------------------------------------------------------
(* What the log promises.                                                  *)

TypeOK ==
    /\ rows \in Seq(Row)
    /\ DOMAIN checkpoints \subseteq 0 .. Len(rows)
    /\ \A c \in DOMAIN checkpoints : checkpoints[c] \in Checkpoint
    /\ current \in DOMAIN checkpoints
    /\ windowOpen \in BOOLEAN
    /\ DOMAIN frontiers \subseteq Device
    /\ \A d \in DOMAIN frontiers : frontiers[d] \in DeviceFrontier
    /\ authorization \in [Device -> Authorization]
    /\ ambiguities \subseteq Ambiguity

\* Every update has one receipt however often it is submitted, and the log is
\* a causal order: a row only follows work its author had seen.
CausalLog ==
    \A n \in DOMAIN rows :
        /\ rows[n].base \subseteq Prefix(rows, n - 1)
        /\ rows[n].id \notin Prefix(rows, n - 1)

\* The durable frontier recorded for a device proves the prefix it is said to
\* have confirmed, and never claims updates the server does not hold.
FrontierProven ==
    \A d \in DOMAIN frontiers :
        /\ frontiers[d].confirmed <= Len(rows)
        /\ Prefix(rows, frontiers[d].confirmed) \subseteq frontiers[d].persisted
        /\ frontiers[d].persisted \subseteq Document

\* No rolled checkpoint, consolidation or compaction ever leaves a page that
\* #load can no longer rebuild from its current checkpoint.
Reloadable == Loadable

\* A checkpoint that passes the history gates is at the head of the log, so
\* the history it trims is the base of no row that stays.
CompactionAtHead == \A c \in DOMAIN checkpoints : HistoryAllows(c) => c = Len(rows)

\* Compaction never outruns a device that is not revoked: a poll on the
\* frontier it confirmed is answered, never "history was compacted".
CanCatchUp ==
    \A d \in DOMAIN frontiers :
        authorization[d] # "revoked" =>
            Plans([device |-> d, updates |-> << >>, persisted |-> frontiers[d].persisted]) # {}

\* What a response carries closes the gap up to its cursor, whatever concurrent
\* branch the device was on: the cursor never skips a row the device lacks.
CatchUpComplete ==
    \A r \in Requests : \A p \in Plans(r) :
        LET carried == {u.id : u \in Response(r, p).remote}
        IN  Prefix(AppendBatch(r, p.order), p.through)
                \subseteq r.persisted \cup Ids(r) \cup carried

\* A request that could be accepted is never refused because the branches it
\* meets can no longer be compared from a retained checkpoint.
OfflineWorkComparable ==
    \A r \in Requests : \A p \in Plans(r) : Detections(r, p) # {}

\* An ambiguity the owner has settled no longer holds back compaction.
SettledReleases ==
    \A c \in DOMAIN checkpoints :
        AmbiguityDependsThrough(c) =>
            \E a \in ambiguities, n \in 1 .. c : a.open /\ rows[n].id \in a.sources

\* Receipts are append-only and immutable: a step adds rows at the end and
\* forgets payloads, it never rewrites, reorders or restores one.
ReceiptsImmutable ==
    [][/\ Len(rows) <= Len(rows')
       /\ \A n \in DOMAIN rows :
             \/ rows'[n] = rows[n]
             \/ rows'[n] = [rows[n] EXCEPT !.compacted = TRUE]]_vars

\* The frontier of a device only advances: no stale tab or retried request
\* makes the server forget what the device confirmed.
FrontierAdvances ==
    [][\A d \in DOMAIN frontiers :
          /\ d \in DOMAIN frontiers'
          /\ frontiers[d].confirmed <= frontiers'[d].confirmed
          /\ frontiers[d].persisted \subseteq frontiers'[d].persisted]_vars

=============================================================================
