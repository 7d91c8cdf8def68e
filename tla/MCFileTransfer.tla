----------------------------- MODULE MCFileTransfer -----------------------------
(***************************************************************************)
(* Files of no part, of one and of three; for that of one, an earlier file *)
(* with the same bytes.                                                    *)
(***************************************************************************)
EXTENDS FileTransfer

MCLength == [u \in Upload |->
    CASE u = "empty" -> 0
      [] u \in {"short", "short2"} -> 1
      [] OTHER -> 3]

MCBytes == [u \in Upload |->
    CASE u = "empty" -> "e"
      [] u \in {"short", "short2"} -> "s"
      [] OTHER -> "l"]

=============================================================================
