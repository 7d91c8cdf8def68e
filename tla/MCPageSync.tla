------------------------------- MODULE MCPageSync -------------------------------
(***************************************************************************)
(* Two devices.  Device d1 writes a1, a2, ... in the tabs t1 and t3, d2    *)
(* writes b1, ... in t2.                                                   *)
(***************************************************************************)
EXTENDS PageSync, TLC

CONSTANTS
    d1, d2, t2,
    Writes1, Writes2,   \* the updates each device writes in this run
    Delayed             \* bound: the devices whose lost requests may arrive late

MCOwner == [t \in Tab |-> IF t = t2 THEN d2 ELSE d1]
MCWrites == [d \in Device |-> IF d = d1 THEN Writes1 ELSE Writes2]

\* The tabs of one device differ in nothing but their names.
TabSymmetry == Permutations(Tab \ {t2})

\* Bounds of the instance.  A request settles the history it opens (the editor
\* was closed), so that windows and checkpoints, which PageOperationLog
\* explores, do not multiply the states of the devices.
BoundedNext ==
    /\ SyncNext
    /\ ~windowOpen'
    /\ \A d \in Device \ Delayed : late'[d] = None

BoundedSpec == SyncInit /\ [][BoundedNext]_syncVars
FairBoundedSpec == BoundedSpec /\ Fairness

=============================================================================
