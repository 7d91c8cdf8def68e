------------------------- MODULE PageOperationRestore -------------------------
(***************************************************************************)
(* A page's operational archive, exported with a backup and restored over  *)
(* a workspace that has moved on since.                                    *)
(***************************************************************************)
EXTENDS PageOperationLog

VARIABLE archive    \* the page as the last verified backup carries it

restoreVars == <<vars, archive>>

\* Candidates and superseded checkpoints are not exported, and coverage by a
\* backup is not part of the page.
ArchivedCheckpoints ==
    [c \in {c \in DOMAIN checkpoints : c = current \/ checkpoints[c].state = "verified"} |->
        [checkpoints[c] EXCEPT !.covered = FALSE]]

Archived ==
    [rows |-> rows, checkpoints |-> ArchivedCheckpoints, current |-> current,
     windowOpen |-> windowOpen, frontiers |-> frontiers, ambiguities |-> ambiguities]

RestoreInit ==
    /\ Init
    /\ archive = Archived

BackUp ==
    /\ VerifiedBackup
    /\ archive' = Archived

\* Mutant: the page keeps the checkpoint it had.
RestoreAroundCheckpoint ==
    /\ rows' = archive.rows
    /\ checkpoints' = archive.checkpoints
    /\ windowOpen' = archive.windowOpen
    /\ frontiers' = archive.frontiers
    /\ ambiguities' = archive.ambiguities
    /\ UNCHANGED <<current, authorization, archive>>

\* Mutant: the device frontiers survive the restoration.
RestoreAroundFrontiers ==
    /\ rows' = archive.rows
    /\ checkpoints' = archive.checkpoints
    /\ current' = archive.current
    /\ windowOpen' = archive.windowOpen
    /\ ambiguities' = archive.ambiguities
    /\ UNCHANGED <<frontiers, authorization, archive>>

\* The operational tables are replaced; the authorization inventory stays.
Restore ==
    /\ rows' = archive.rows
    /\ checkpoints' = archive.checkpoints
    /\ current' = archive.current
    /\ windowOpen' = archive.windowOpen
    /\ frontiers' = archive.frontiers
    /\ ambiguities' = archive.ambiguities
    /\ UNCHANGED <<authorization, archive>>

RestoreNext ==
    \/ BackUp
    \/ Restore
    \/ Next /\ UNCHANGED archive

RestoreSpec == RestoreInit /\ [][RestoreNext]_restoreVars

=============================================================================
