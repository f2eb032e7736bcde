-------------------------- MODULE MCStoragePublish --------------------------
(* Instances of StoragePublish for TLC. *)
EXTENDS StoragePublish, TLC

CONSTANTS c1, c2, c3, p1, p2

\* Two documents of the same length and one of another.
MCSize == (c1 :> 1) @@ (c2 :> 2) @@ (c3 :> 2)
=============================================================================
