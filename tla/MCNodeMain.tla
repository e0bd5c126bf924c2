----------------------------- MODULE MCNodeMain -----------------------------
(* The instance of NodeMain is given by its configuration alone. *)
EXTENDS NodeMain
=============================================================================
