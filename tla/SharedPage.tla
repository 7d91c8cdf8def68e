------------------------------- MODULE SharedPage -------------------------------
(***************************************************************************)
(* What synchronizing a page promises, without the protocol: every device  *)
(* knows a set of updates and one set is shared.  Both only grow; a device *)
(* contributes what it knows and learns what is shared.                    *)
(***************************************************************************)
CONSTANTS Device, Update

VARIABLES
    known,  \* what each device holds durably
    shared  \* what the server has accepted

pageVars == <<known, shared>>

Init ==
    /\ known = [d \in Device |-> {}]
    /\ shared = {}

\* An update is written once, on one device.
Write(d, u) ==
    /\ u \notin shared
    /\ \A e \in Device : u \notin known[e]
    /\ known' = [known EXCEPT ![d] = @ \cup {u}]
    /\ UNCHANGED shared

Contribute(d, updates) ==
    /\ updates \subseteq known[d]
    /\ shared' = shared \cup updates
    /\ UNCHANGED known

Learn(d, updates) ==
    /\ updates \subseteq shared
    /\ known' = [known EXCEPT ![d] = @ \cup updates]
    /\ UNCHANGED shared

\* A command the server authors, on what is shared.
Author(u) ==
    /\ u \notin shared
    /\ \A e \in Device : u \notin known[e]
    /\ shared' = shared \cup {u}
    /\ UNCHANGED known

Next ==
    \/ \E d \in Device, u \in Update : Write(d, u)
    \/ \E d \in Device, updates \in SUBSET Update :
          Contribute(d, updates) \/ Learn(d, updates)
    \/ \E u \in Update : Author(u)

Spec == Init /\ [][Next]_pageVars

=============================================================================
