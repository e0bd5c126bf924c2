------------------------------ MODULE CtrlNode ------------------------------
(***************************************************************************)
(* RslidarCtrlNode (node/rslidar_ctrl_node.cpp): it powers the lidar on    *)
(* when it starts, then serves /rslidar/reboot and /rslidar/set_power, one *)
(* request at a time because one thread spins.  Each request makes a       *)
(* LidarCtrlDriver of its own, connects it, makes one call, disconnects    *)
(* and answers; so each is a TcpSession with a single operation.           *)
(*                                                                         *)
(* The node is configured for one type of lidar, whose protocol class has  *)
(* the builders.  The lidar obeys what it carries out.                     *)
(***************************************************************************)
EXTENDS TcpSession, LidarCommands

CONSTANTS
  Families,     \* protocol classes the node is configured for
  MaxRequests   \* bound: requests, the one at startup included

ASSUME FamiliesAssumption == Families \subseteq Family

ASSUME MaxRequestsAssumption == MaxRequests \in Nat /\ MaxCalls >= MaxRequests

VARIABLES
  family,     \* the protocol class, by the configured lidar type
  node,       \* where the handler is; "free" when the node spins
  nReq,       \* requests so far
  kind,       \* what the request in progress asks: "on", "off" or "reboot"
  asked,      \* asked[n]: the kind of operation n
  ok,         \* what the operation returned
  last,       \* the last response: kind, operation (0 when none), success
  mode,       \* the lidar's work mode, "on" (normal) or "off" (low power)
  rebooting,  \* the lidar has carried out a reboot on this connection
  dropped     \* it has closed a connection no reboot was asked for on

requestVars == <<family, node, nReq, kind, asked, ok, last>>
lidarState == <<mode, rebooting, dropped>>
nodeVars == <<requestVars, lidarState>>
allVars == <<vars, nodeVars>>

Kind == {"on", "off", "reboot"}
Mode == {"on", "off"}

NodeInit ==
  /\ Init
  /\ family \in Families
  /\ node = "free" /\ nReq = 0 /\ kind = "on" /\ asked = <<>> /\ ok = "none"
  /\ last = [kind |-> "on", call |-> 0, success |-> "false"]
  /\ mode \in Mode
  /\ rebooting = FALSE
  /\ dropped = FALSE

\* The operation of TcpCom that a request of kind k makes.
OperationOf(k) == IF k = "reboot" THEN "rebootLidar" ELSE "setMode"

\* The builder of the class for operation o.
BuilderOf(o) ==
  IF o \notin Exchanges[family] THEN "refuses"
  ELSE IF PreRaised(family, o) THEN "raises" ELSE "lowers"

-----------------------------------------------------------------------------
\* powerOnAtStartup, handleSetPower or handleReboot begins: connectCtrl.
Accept(k) ==
  /\ node = "free"
  /\ nReq < MaxRequests
  /\ nReq = 0 => k = "on"
  /\ init
  /\ nReq' = nReq + 1
  /\ kind' = k
  /\ node' = "init"
  /\ UNCHANGED <<family, asked, ok, last, lidarState>>

\* init() returned true: setMode or rebootLidar.
CallOperation ==
  /\ node = "init"
  /\ ret = "true"
  /\ op(BuilderOf(OperationOf(kind)))
  /\ asked' = Append(asked, kind)
  /\ node' = "op"
  /\ UNCHANGED <<family, nReq, kind, ok, last, lidarState>>

\* The operation returned: uninit().
CallUninit ==
  /\ node = "op"
  /\ ret # "none"
  /\ uninit
  /\ ok' = ret
  /\ node' = "uninit"
  /\ UNCHANGED <<family, nReq, kind, asked, last, lidarState>>

\* Mutant: the next request uses the same LidarCtrlDriver.
SameDriver ==
  /\ ret' = "none"
  /\ UNCHANGED <<api, goal, callNo, builder, cause, objectVars, reader, raised, lidarVars>>

\* The next request makes a new LidarCtrlDriver.  This one is deleted through a
\* void pointer, so no destructor runs: what it still holds is left behind.
NewDriver ==
  /\ ret' = "none"
  /\ socket' = "null" /\ service' = TRUE /\ run' = FALSE /\ netOK' = FALSE
  /\ reader' = "none"
  /\ raised' \in BOOLEAN
  /\ UNCHANGED <<api, goal, callNo, builder, cause, lidarVars>>

\* The handler returns its response.
Respond(call, success) ==
  /\ api = "idle"
  /\ last' = [kind |-> kind, call |-> call, success |-> success]
  /\ node' = "free"
  /\ NewDriver
  /\ UNCHANGED <<family, nReq, kind, asked, ok, lidarState>>

\* init() returned false: "Failed to connect to LiDAR", without uninit().
RespondUnconnected == node = "init" /\ ret = "false" /\ Respond(0, "false")

\* Mutant: the handler answers without uninit() and before it has the result.
RespondsEarly == node = "op" /\ ret # "none" /\ Respond(callNo, ok)

RespondDone == node = "uninit" /\ ret # "none" /\ Respond(callNo, ok)

Handler == CallOperation \/ CallUninit \/ RespondUnconnected \/ RespondDone

-----------------------------------------------------------------------------
\* The driver's own steps; a lidar that accepts a connection is up again.
Session ==
  /\ Finish \/ Reader
  /\ rebooting' = (rebooting /\ peer' = peer)
  /\ UNCHANGED <<requestVars, mode, dropped>>

\* The lidar carries out operation n: it sets its mode, or reboots into either.
Obeys(n) == IF asked[n] = "reboot" THEN mode' \in Mode ELSE mode' = asked[n]

Obey ==
  /\ \/ CatchUp /\ Obeys(Head(backlog)) /\ UNCHANGED rebooting
     \/ CarryOut /\ Obeys(Head(inbox)) /\ rebooting' = (asked[Head(inbox)] = "reboot")
  /\ UNCHANGED <<requestVars, dropped>>

\* It closes the connection: for a reboot asked for on it, or on its own, or for
\* a reboot that an earlier connection asked for.
Drop ==
  /\ Close
  /\ dropped' = (dropped \/ ~rebooting)
  /\ UNCHANGED <<requestVars, mode, rebooting>>

Spin ==
  /\ api = "crashed" \/ (node = "free" /\ nReq = MaxRequests)
  /\ UNCHANGED allVars

NodeNext == (\E k \in Kind : Accept(k)) \/ Handler \/ Session \/ Obey \/ Drop \/ Spin

NodeSpec == NodeInit /\ [][NodeNext]_allVars

\* A handler that began goes on, its waits are bounded (connect by its deadline,
\* sendData by its polls), and the reading thread runs; no error of read_some has
\* to come or to end, and nothing obliges clients to ask or the lidar to answer.
NodeFairness == WF_allVars(Handler) /\ WF_allVars(Session /\ Finish) /\ WF_allVars(Session /\ ReadOn)

FairNodeSpec == NodeSpec /\ NodeFairness

-----------------------------------------------------------------------------
NodeTypeOK ==
  /\ TypeOK
  /\ family \in Families
  /\ node \in {"free", "init", "op", "uninit"}
  /\ nReq \in 0..MaxRequests
  /\ kind \in Kind
  /\ asked \in Seq(Kind) /\ Len(asked) = callNo
  /\ ok \in {"none", "true", "false"}
  /\ last \in [kind : Kind, call : 0..MaxCalls, success : {"true", "false"}]
  /\ mode \in Mode
  /\ rebooting \in BOOLEAN /\ dropped \in BOOLEAN

\* "LiDAR powered ON" is true: after a response with success the lidar has done
\* what was asked and is in the mode that was asked for, until the next request -
\* neither a reply nor a request of an earlier session can interfere.  Only the
\* reboot of a Helios is reported before it is done: "Reboot command sent".
PowerAgrees ==
  node = "free" /\ last.success = "true" =>
    /\ last.call \in done \/ PreRaised(family, OperationOf(last.kind))
    /\ last.kind # "reboot" => mode = last.kind

\* A handler never returns while its reading thread runs: the LidarCtrlDriver
\* it deletes is in use by nobody.
NoThreadLeft ==
  [][node # "free" /\ node' = "free" => reader = "none" /\ socket # "connected"]_allVars

\* Every request is answered, unless the process crashed: uninit() gets the
\* reading thread out of read_some and joins it.
RequestAnswered == node # "free" ~> node = "free" \/ api = "crashed"

\* The node comes down only when the lidar has closed a connection for another
\* reason than a reboot asked for on it: requests and reboots in any number and
\* at any speed do not bring it down.
CrashNeedsDrop == api = "crashed" => dropped

\* "setMode(1) failed. Use /rslidar/set_power to retry."
\* (rslidar_ctrl_node.cpp:69): the node outlives a call that fails.
NeverCrashes == api # "crashed"
=============================================================================
