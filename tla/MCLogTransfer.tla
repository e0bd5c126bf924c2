--------------------------- MODULE MCLogTransfer ---------------------------
(* Instances of LogTransfer are given by their configurations alone. *)
EXTENDS LogTransfer
=============================================================================
