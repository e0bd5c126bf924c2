----------------------------- MODULE MCCtrlNode -----------------------------
(* CtrlNode for model checking: its constants are set in the .cfg files. *)
EXTENDS CtrlNode
=============================================================================
