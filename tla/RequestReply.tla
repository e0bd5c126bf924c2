---------------------------- MODULE RequestReply ----------------------------
(***************************************************************************)
(* What a caller of the control driver may rely on: it makes one call at a *)
(* time, the lidar carries out at most the request of the call in          *)
(* progress and at most once, and a call that returns TRUE was carried     *)
(* out.  A call that returns FALSE says nothing about the lidar.           *)
(***************************************************************************)
EXTENDS Naturals, FiniteSets

VARIABLES
  callNo,     \* calls made so far
  busy,       \* the last of them has not returned
  done,       \* calls the lidar has carried out
  confirmed   \* calls that returned TRUE

vars == <<callNo, busy, done, confirmed>>

Init == callNo = 0 /\ busy = FALSE /\ done = {} /\ confirmed = {}

Call ==
  /\ ~busy
  /\ callNo' = callNo + 1
  /\ busy' = TRUE
  /\ UNCHANGED <<done, confirmed>>

CarryOut ==
  /\ busy
  /\ callNo \notin done
  /\ done' = done \cup {callNo}
  /\ UNCHANGED <<callNo, busy, confirmed>>

Confirm ==
  /\ busy
  /\ callNo \in done
  /\ confirmed' = confirmed \cup {callNo}
  /\ busy' = FALSE
  /\ UNCHANGED <<callNo, done>>

Fail ==
  /\ busy
  /\ busy' = FALSE
  /\ UNCHANGED <<callNo, done, confirmed>>

\* The call is refused before anything is sent.
Refuse ==
  /\ ~busy
  /\ callNo' = callNo + 1
  /\ UNCHANGED <<busy, done, confirmed>>

Next == Call \/ CarryOut \/ Confirm \/ Fail \/ Refuse

Spec == Init /\ [][Next]_vars
=============================================================================
