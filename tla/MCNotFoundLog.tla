--------------------------- MODULE MCNotFoundLog ---------------------------
(* Instances of NotFoundLog for TLC; the .cfg files give all the constants. *)
EXTENDS NotFoundLog
=============================================================================
