--------------------------- MODULE CloudDelivery ---------------------------
(***************************************************************************)
(* What a Source promises the destinations registered with it: every       *)
(* message of a chain (point clouds, IMU samples) the driver publishes     *)
(* reaches each destination at most once, unchanged, in publication order, *)
(* and no destination runs ahead of another by more than one message.      *)
(* CloudPipeline implements it with two queues of recycled buffers.        *)
(***************************************************************************)
EXTENDS Naturals, Sequences

CONSTANTS
  Chain,      \* the message chains of one source
  NDst        \* number of registered destinations

VARIABLES
  published,  \* published[c]: messages of chain c handed over by the driver
  delivered   \* delivered[c][d]: the message numbers destination d was given

vars == <<published, delivered>>

Dst == 1..NDst

Init ==
  /\ published = [c \in Chain |-> 0]
  /\ delivered = [c \in Chain |-> [d \in Dst |-> <<>>]]

Publish(c) ==
  /\ published' = [published EXCEPT ![c] = @ + 1]
  /\ UNCHANGED delivered

\* Destination d is given the first message it has not seen yet.
Deliver(c, d) ==
  /\ Len(delivered[c][d]) < published[c]
  /\ \A e \in Dst : Len(delivered[c][d]) <= Len(delivered[c][e])
  /\ delivered' = [delivered EXCEPT ![c][d] = Append(@, Len(@) + 1)]
  /\ UNCHANGED published

Next == \E c \in Chain : Publish(c) \/ \E d \in Dst : Deliver(c, d)

Spec == Init /\ [][Next]_vars
=============================================================================
