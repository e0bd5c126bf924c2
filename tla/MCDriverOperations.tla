------------------------- MODULE MCDriverOperations -------------------------
(* Values of the constants for the run of DriverOperations. *)
EXTENDS DriverOperations

\* Every exchange but rebootLidar, whose TRUE does not wait for a reply.
AllOps == UNION {Exchanges[f] : f \in Family} \ {"rebootLidar"}

\* Files that declare nothing, that hold what they declare, the last block
\* full or not, and that hold more or less.
Files == {[declared |-> f[1], actual |-> f[2]] : f \in {<<0, 2>>, <<3, 3>>, <<4, 4>>, <<1, 3>>, <<4, 3>>}}
=============================================================================
