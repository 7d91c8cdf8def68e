---------------------------- MODULE MCWorkspaceSync ----------------------------
(***************************************************************************)
(* Edits whose name begins with a are made by the first device; the name   *)
(* tells the item and the field an edit changes.  Each run keeps the edits *)
(* it needs.                                                               *)
(***************************************************************************)
EXTENDS WorkspaceSync

CONSTANTS
    d1, d2,
    Writes1, Writes2,   \* the edits of d1 and of d2
    Tries1, Tries2      \* identities of a1, and of any other edit

MCWrites == [d \in Device |-> IF d = d1 THEN Writes1 ELSE Writes2]
MCItemOf == [e \in Edit |-> IF e = "b3" THEN "y" ELSE "x"]
MCFieldOf == [e \in Edit |-> IF e \in {"a2", "b2"} THEN "g" ELSE "f"]
MCMaxTries == [e \in Edit |-> IF e = "a1" THEN Tries1 ELSE Tries2]

=============================================================================
