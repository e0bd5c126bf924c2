---------------------------- MODULE MCDeskewNode ----------------------------
(* The clouds of the instance of DeskewNode. *)
EXTENDS DeskewNode

\* Without stamps: the rows alone.
Plain == {[rows |-> n, stamped |-> FALSE, usable |-> {}, rate |-> 1, phase |-> 0] :
            n \in {0, 1, 4, 5}}

\* With stamps, usable in all rows or in some; a sweep as supposed, one that
\* starts late, and one that takes twice as long.
Stamped ==
  {[rows |-> n, stamped |-> TRUE, usable |-> u \cap (0..(n - 1)),
    rate |-> sweep[1], phase |-> sweep[2]] :
     n \in {1, 4, 5}, u \in {0..4, {0, 3}}, sweep \in {<<1, 0>>, <<1, 1>>, <<2, 0>>}}

AllClouds == Plain \cup Stamped
=============================================================================
