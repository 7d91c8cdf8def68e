---------------------- MODULE PageOperationRestoreProofs ----------------------
(***************************************************************************)
(* Proofs about a page that is restored, at any moment, from a backup made *)
(* at any other: it reloads, and whoever is not revoked is answered.       *)
(***************************************************************************)
EXTENDS PageOperationRestore, PageOperationLogProofs

-----------------------------------------------------------------------------
(* What holds of a page holds of its archive.                              *)

\* The page, in the form in which it is archived.
Page ==
    [rows |-> rows, checkpoints |-> checkpoints, current |-> current,
     windowOpen |-> windowOpen, frontiers |-> frontiers, ambiguities |-> ambiguities]

\* The invariants of PageOperationLog, of a page that is not the live one.
PageTyped(p) ==
    /\ p.rows \in Seq(Row)
    /\ DOMAIN p.checkpoints \subseteq 0 .. Len(p.rows)
    /\ \A c \in DOMAIN p.checkpoints : p.checkpoints[c] \in Checkpoint
    /\ p.current \in DOMAIN p.checkpoints
    /\ p.windowOpen \in BOOLEAN
    /\ DOMAIN p.frontiers \subseteq Device
    /\ \A d \in DOMAIN p.frontiers : p.frontiers[d] \in DeviceFrontier
    /\ p.ambiguities \subseteq Ambiguity

PageLoads(p) ==
    /\ \A c \in DOMAIN p.checkpoints :
          ~p.windowOpen /\ p.checkpoints[c].revision = "current" => c = Len(p.rows)
    /\ \A c \in DOMAIN p.checkpoints : p.checkpoints[c].floor <= c
    /\ p.checkpoints[p.current].state = "verified"
    /\ \A n \in p.current + 1 .. Len(p.rows) :
          /\ ~p.rows[n].compacted
          /\ Prefix(p.rows, p.checkpoints[p.current].floor) \subseteq p.rows[n].base

PageProves(p) ==
    \A d \in DOMAIN p.frontiers :
        /\ p.frontiers[d].confirmed <= Len(p.rows)
        /\ Prefix(p.rows, p.frontiers[d].confirmed) \subseteq p.frontiers[d].persisted
        /\ p.frontiers[d].persisted \subseteq Prefix(p.rows, Len(p.rows))

PageWaits(p, revoked) ==
    /\ \A n \in 1 .. Len(p.rows) :
          p.rows[n].compacted => \A m \in 1 .. n : p.rows[m].compacted
    /\ \A d \in DOMAIN p.frontiers \ revoked : \A n \in 1 .. Len(p.rows) :
          p.rows[n].compacted => Prefix(p.rows, n) \subseteq p.frontiers[d].persisted
    /\ \A n \in 1 .. Len(p.rows) :
          p.rows[n].device \in DOMAIN p.frontiers \/ p.rows[n].id \in ServerUpdate

PageHolds(p, revoked) ==
    PageTyped(p) /\ PageLoads(p) /\ PageProves(p) /\ PageWaits(p, revoked)

Revoked == {d \in Device : authorization[d] = "revoked"}

LogHolds == Rebuildable /\ FrontierProven /\ HistoryWaits

LEMMA PageIs ==
    /\ Page.rows = rows /\ Page.checkpoints = checkpoints /\ Page.current = current
    /\ Page.windowOpen = windowOpen /\ Page.frontiers = frontiers
    /\ Page.ambiguities = ambiguities
BY DEF Page

LEMMA HoldsOfPage == LogHolds => PageHolds(Page, Revoked)
<1> SUFFICES ASSUME LogHolds PROVE PageHolds(Page, Revoked)
  OBVIOUS
<1>1. PageTyped(Page)
  BY PageIs DEF PageTyped, LogHolds, Rebuildable, TypeOK
<1>2. PageLoads(Page)
  BY PageIs DEF PageLoads, LogHolds, Rebuildable, CompactionAtHead, HistoryAllows,
                FloorsBounded, Reloadable, Loadable, Importable
<1>3. PageProves(Page)
  BY PageIs DEF PageProves, LogHolds, FrontierProven, Document
<1>4. PageWaits(Page, Revoked)
  BY PageIs DEF PageWaits, Revoked, LogHolds, HistoryWaits, ForgottenInOrder, WaitedFor,
                WritersKnown, Covers, Rebuildable, TypeOK
<1> QED
  BY <1>1, <1>2, <1>3, <1>4 DEF PageHolds

LEMMA PageIsHeld ==
    PageHolds(Page, Revoked) /\ authorization \in [Device -> Authorization] => LogHolds
<1> SUFFICES ASSUME PageHolds(Page, Revoked), authorization \in [Device -> Authorization]
             PROVE  LogHolds
  OBVIOUS
<1>1. TypeOK
  BY PageIs DEF PageHolds, PageTyped, TypeOK
<1>2. CompactionAtHead /\ FloorsBounded
  BY PageIs DEF PageHolds, PageLoads, CompactionAtHead, HistoryAllows, FloorsBounded
<1>3. Reloadable
  BY <1>1, PageIs DEF PageHolds, PageLoads, Reloadable, Loadable, Importable, TypeOK
<1>4. FrontierProven
  BY PageIs DEF PageHolds, PageProves, FrontierProven, Document
<1>5. HistoryWaits
  BY <1>1, PageIs DEF PageHolds, PageWaits, Revoked, HistoryWaits, ForgottenInOrder, WaitedFor,
                      WritersKnown, Covers, TypeOK
<1> QED
  BY <1>1, <1>2, <1>3, <1>4, <1>5 DEF LogHolds, Rebuildable

\* What a backup leaves out is no part of what a page is rebuilt from.
LEMMA ArchivedHolds ==
    ASSUME NEW revoked, PageHolds(Page, revoked)
    PROVE  PageHolds(Archived, revoked)
<1> DEFINE p == Page
           a == Archived
<1>1. /\ a.rows = p.rows /\ a.current = p.current /\ a.windowOpen = p.windowOpen
      /\ a.frontiers = p.frontiers /\ a.ambiguities = p.ambiguities
      /\ a.checkpoints = ArchivedCheckpoints
      /\ p.checkpoints = checkpoints /\ p.current = current
  BY DEF Archived, Page
<1>2. /\ DOMAIN ArchivedCheckpoints \subseteq DOMAIN checkpoints
      /\ current \in DOMAIN checkpoints => current \in DOMAIN ArchivedCheckpoints
      /\ \A c \in DOMAIN ArchivedCheckpoints :
            ArchivedCheckpoints[c] = [checkpoints[c] EXCEPT !.covered = FALSE]
  BY DEF ArchivedCheckpoints
<1>3. \A c \in DOMAIN ArchivedCheckpoints :
         checkpoints[c] \in Checkpoint =>
            /\ ArchivedCheckpoints[c] \in Checkpoint
            /\ ArchivedCheckpoints[c].state = checkpoints[c].state
            /\ ArchivedCheckpoints[c].floor = checkpoints[c].floor
            /\ ArchivedCheckpoints[c].revision = checkpoints[c].revision
  BY <1>2 DEF Checkpoint
<1> HIDE DEF p, a
<1>4. PageTyped(p) /\ PageLoads(p) /\ PageProves(p) /\ PageWaits(p, revoked)
  BY DEF PageHolds, p
<1>5. PageTyped(a)
  BY <1>1, <1>2, <1>3, <1>4 DEF PageTyped
<1>6. PageLoads(a)
  BY <1>1, <1>2, <1>3, <1>4 DEF PageLoads, PageTyped
<1>7. PageProves(a) /\ PageWaits(a, revoked)
  BY <1>1, <1>4 DEF PageProves, PageWaits
<1> QED
  BY <1>5, <1>6, <1>7 DEF PageHolds, a

-----------------------------------------------------------------------------
(* The invariant.                                                          *)

\* The archive is a page that could be live, and nobody it waits for comes back.
RestoreInv == LogHolds /\ PageHolds(archive, Revoked)

LEMMA RestoreInvInit == RestoreInit => RestoreInv
<1> SUFFICES ASSUME RestoreInit PROVE RestoreInv
  OBVIOUS
<1>1. LogHolds
  BY TypeInit, HeadInit, ReloadableInit, HistoryWaitsInit
  DEF RestoreInit, LogHolds, Rebuildable, Init, FrontierProven
<1>2. PageHolds(Archived, Revoked)
  BY <1>1, HoldsOfPage, ArchivedHolds
<1> QED
  BY <1>1, <1>2 DEF RestoreInv, RestoreInit

LEMMA LogHoldsStep == LogHolds /\ [Next]_vars => LogHolds'
BY ReloadableStep, FrontierStep, HistoryWaitsStep
DEF LogHolds, LogStep, HonestStep, Rebuildable

\* Revocation is final, on whatever page.
LEMMA RevokedStay == TypeOK /\ [Next]_vars => Revoked \subseteq Revoked'
<1> SUFFICES ASSUME TypeOK, [Next]_vars PROVE Revoked \subseteq Revoked'
  OBVIOUS
<1>1. CASE UNCHANGED authorization
  BY <1>1 DEF Revoked
<1>2. ASSUME NEW d \in Device, NEW from, NEW to, Authorize(d, from, to), "revoked" \notin from
      PROVE  Revoked \subseteq Revoked'
  BY <1>2 DEF Authorize, TypeOK, Revoked
<1>3. ASSUME NEW d \in Managed,
             RequireDeviceReauthorization(d) \/ Reauthorize(d) \/ RevokeDevice(d)
      PROVE  Revoked \subseteq Revoked'
  BY <1>2, <1>3, RequestsAssumption DEF RequireDeviceReauthorization, Reauthorize, RevokeDevice
<1>4. ASSUME NEW r \in Requests, Sync(r)
      PROVE  UNCHANGED authorization
  BY <1>4 DEF Sync, SyncBy
<1> QED
  BY <1>1, <1>3, <1>4
  DEF Next, vars, RestoreRevision, ResolveAmbiguity, ApplyServerCommands, ConsolidateDue,
      CreateCandidate, VerifiedBackup, VerifyCandidate, Compact, CompactionBlocked

LEMMA WaitsForFewer ==
    ASSUME NEW p, NEW old, NEW new, old \subseteq new, PageHolds(p, old)
    PROVE  PageHolds(p, new)
BY DEF PageHolds, PageWaits

LEMMA RestoreKeeps ==
    ASSUME RestoreInv, Restore, PageHolds(archive, Revoked)'
    PROVE  LogHolds'
<1>1. Page' = [rows |-> archive.rows, checkpoints |-> archive.checkpoints,
               current |-> archive.current, windowOpen |-> archive.windowOpen,
               frontiers |-> archive.frontiers, ambiguities |-> archive.ambiguities]
  BY DEF Restore, Page
<1> DEFINE q == Page'
<1>2. /\ q.rows = archive.rows /\ q.checkpoints = archive.checkpoints
      /\ q.current = archive.current /\ q.windowOpen = archive.windowOpen
      /\ q.frontiers = archive.frontiers /\ q.ambiguities = archive.ambiguities
  BY <1>1
<1> HIDE DEF q
<1>3. PageHolds(archive, Revoked) /\ Revoked' = Revoked
  BY DEF RestoreInv, Restore, Revoked
<1>4. PageHolds(q, Revoked)
  BY <1>2, <1>3 DEF PageHolds, PageTyped, PageLoads, PageProves, PageWaits
<1>5. PageHolds(Page, Revoked)'
  BY <1>3, <1>4 DEF q
<1>6. authorization' \in [Device -> Authorization]
  BY DEF RestoreInv, LogHolds, Rebuildable, TypeOK, Restore
<1>7. (PageHolds(Page, Revoked) /\ authorization \in [Device -> Authorization] => LogHolds)'
  BY PageIsHeld, PTL
<1> QED
  BY <1>5, <1>6, <1>7

LEMMA RestoreInvStep == RestoreInv /\ [RestoreNext]_restoreVars => RestoreInv'
<1> SUFFICES ASSUME RestoreInv, [RestoreNext]_restoreVars PROVE RestoreInv'
  OBVIOUS
<1>0. LogHolds /\ TypeOK /\ PageHolds(archive, Revoked)
  BY DEF RestoreInv, LogHolds, Rebuildable
<1>1. CASE BackUp
  <2>1. [Next]_vars /\ Revoked' = Revoked
    BY <1>1 DEF BackUp, Next, VerifiedBackup, Revoked
  <2>2. PageHolds(Archived, Revoked)
    BY <1>0, HoldsOfPage, ArchivedHolds
  <2>3. archive' = Archived
    BY <1>1 DEF BackUp
  <2>4. PageHolds(archive, Revoked)'
    BY <2>1, <2>2, <2>3
  <2> QED
    BY <1>0, <2>1, <2>4, LogHoldsStep DEF RestoreInv
<1>2. CASE Restore
  <2>1. PageHolds(archive, Revoked)'
    <3>1. archive' = archive /\ Revoked' = Revoked
      BY <1>2 DEF Restore, Revoked
    <3> QED
      BY <1>0, <3>1
  <2> QED
    BY <1>2, <2>1, RestoreKeeps DEF RestoreInv
<1>3. CASE [Next]_vars /\ UNCHANGED archive
  <2>1. Revoked \subseteq Revoked'
    BY <1>0, <1>3, RevokedStay
  <2>2. PageHolds(archive, Revoked')
    BY <1>0, <2>1, WaitsForFewer
  <2>3. PageHolds(archive, Revoked)'
    BY <1>3, <2>2
  <2> QED
    BY <1>0, <1>3, <2>3, LogHoldsStep DEF RestoreInv
<1> QED
  BY <1>1, <1>2, <1>3 DEF RestoreNext, restoreVars

LEMMA RestoreInvHolds == RestoreSpec => []RestoreInv
BY RestoreInvInit, RestoreInvStep, PTL DEF RestoreSpec

\* Whichever backup is restored, and however far the workspace had moved on, its
\* pages can be rebuilt from the checkpoints they come back with.
THEOREM RestoredPagesReload == RestoreSpec => []Reloadable
<1>1. RestoreInv => Reloadable
  BY DEF RestoreInv, LogHolds, Rebuildable
<1> QED
  BY <1>1, RestoreInvHolds, PTL

\* The frontiers that come back are answered as well, for every device that was
\* not revoked since.
THEOREM RestoredDevicesCatchUp == RestoreSpec => []CanCatchUp
<1>1. RestoreInv => CanCatchUp
  BY WaitsSoCatchesUp DEF RestoreInv, LogHolds, Rebuildable
<1> QED
  BY <1>1, RestoreInvHolds, PTL

=============================================================================
