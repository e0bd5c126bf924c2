-------------------------- MODULE MCCloudPipeline --------------------------
(* Instances of CloudPipeline for TLC; the configurations choose the bounds. *)
EXTENDS CloudPipeline
=============================================================================
