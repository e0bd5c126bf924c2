------------------------- MODULE MCCommandExchange -------------------------
(* Values of UsedOps for the runs of CommandExchange. *)
EXTENDS CommandExchange

\* Operations whose replies share a command, a state or reg_back_data_, and one
\* whose builder may not return.
SharingOps == {"getMode", "setMode", "SetLidarWorkMode", "GetLidarConfig", "rebootLidar",
  "readRegData.bot"}
=============================================================================
