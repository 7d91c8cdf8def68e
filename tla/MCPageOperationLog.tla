-------------------------- MODULE MCPageOperationLog --------------------------
(***************************************************************************)
(* A page shared by two devices.  Device d1 writes a1 and then a2 on top   *)
(* of it; d2 writes b1 concurrently and b2 after seeing a1; the server     *)
(* authors s1 for the owner.  Each run keeps the updates it needs.         *)
(***************************************************************************)
EXTENDS PageOperationLog

CONSTANTS
    d1, d2,
    Authored1, Authored2    \* the updates each device writes in this run

MCDevice == {d1, d2}

Base == [u \in {"a1", "a2", "b1", "b2"} |->
            CASE u = "a2" -> {"a1"}
              [] u = "b2" -> {"a1", "b1"}
              [] OTHER -> {}]

\* Every sequence of the device's updates: in and out of order, without a
\* dependency, one identity twice.
Batches(authored) ==
    {[i \in DOMAIN ids |-> [id |-> ids[i], base |-> Base[ids[i]]]] :
        ids \in UNION {[1 .. k -> authored] : k \in 0 .. Cardinality(authored)}}

Last(b) == IF b = << >> THEN {} ELSE b[Len(b)].base \cup {b[Len(b)].id}

CausallyClosed ==
    {f \in SUBSET Update :
        /\ \A u \in f \cap DOMAIN Base : Base[u] \subseteq f
        /\ f \cap ServerUpdate # {} => f = Update}

\* A device that submits names the frontier of its last update; one that polls
\* names whatever it has imported so far.
MCRequests ==
    UNION {{[device |-> d, updates |-> b, persisted |-> Last(b)] :
                b \in Batches(IF d = d1 THEN Authored1 ELSE Authored2)}
           \cup {[device |-> d, updates |-> << >>, persisted |-> f] : f \in CausallyClosed}
           : d \in MCDevice}

\* One update per request, and polls on what a device may have imported once it
\* has what it wrote itself.
MCSingleRequests ==
    {r \in MCRequests :
        /\ Len(r.updates) <= 1
        /\ r.updates = << >> => r.persisted \cap (IF r.device = d1 THEN Authored1 ELSE Authored2) # {} }

=============================================================================
