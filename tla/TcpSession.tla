----------------------------- MODULE TcpSession -----------------------------
(***************************************************************************)
(* One TcpCom behind LidarCtrlDriver: connecting, the thread that reads    *)
(* the socket, exchanging commands, disconnecting - and the lidar's end of *)
(* the connection, which may close at any moment.                          *)
(*                                                                         *)
(* init() connects.  Every operation first asks isConnected() and, when it *)
(* says no, connects again.  uninit() disconnects.  The caller is one      *)
(* thread; the reading thread is the other.  m_netOK, flag_thread_run_ and *)
(* the awaited state are all they share.                                   *)
(*                                                                         *)
(* The lidar and the network are external: a connection attempt succeeds   *)
(* or fails within a deadline; read_some may fail any number of times, and *)
(* a byte stream ends in EOF.  The lidar serves one connection at a time,  *)
(* in the order it accepted them: what an earlier one sent is carried out  *)
(* late, before anything of the next, or not at all.                       *)
(***************************************************************************)
EXTENDS Naturals, Sequences

CONSTANT MaxCalls  \* bound: operations started

ASSUME MaxCallsAssumption == MaxCalls \in Nat

VARIABLES
  api,        \* where the API call in progress is; "idle" when there is none
  goal,       \* why connect() runs: "init" or "op"
  ret,        \* what the last API call returned, or "none"
  socket,     \* ptr_socket_: "null", "made" or "connected"
  service,    \* ptr_io_service_ is not null
  run,        \* flag_thread_run_
  netOK,      \* m_netOK
  reader,     \* ptr_thread_: "none"; at its loop's "check" or in read_some
              \* ("reading"); "ended", still joinable
  raised,     \* the state the operation waits for, in read_write_state_
  builder,    \* what the builder of the operation makes of that state
  callNo,     \* operations started so far: the number of the last one
  peer,       \* the lidar's end: "none", "up" or "closed"
  backlog,    \* requests of earlier connections it has not looked at, by number
  inbox,      \* requests of this connection it has not looked at
  replies,    \* replies the reading thread has not read
  done,       \* operations the lidar has carried out
  cause       \* why the process crashed: "none", "terminate" or "null"

callerVars == <<api, goal, ret, callNo, builder, cause>>
objectVars == <<socket, service, run, netOK>>
lidarVars  == <<peer, backlog, inbox, replies, done>>
vars == <<callerVars, objectVars, reader, raised, lidarVars>>

\* The builder lowers the state sendData then polls; HeliosCom's of a reboot
\* raises it; LidarBase's, for a class that has none, returns false.
Builder == {"lowers", "raises", "refuses"}

Object == [socket : {"null", "made", "connected"}, service : BOOLEAN, run : BOOLEAN, netOK : BOOLEAN]

\* The constructor of TcpCom; read_write_state_ is not initialised.
Init ==
  /\ api = "idle" /\ goal = "init" /\ ret = "none" /\ callNo = 0 /\ cause = "none"
  /\ socket = "null" /\ service = TRUE /\ run = FALSE /\ netOK = FALSE
  /\ reader = "none"
  /\ raised \in BOOLEAN /\ builder = "lowers"
  /\ peer = "none" /\ backlog = <<>> /\ inbox = <<>> /\ replies = <<>> /\ done = {}

-----------------------------------------------------------------------------
(* connect *)

\* connect() begins with a ping that is a stub and always succeeds.
connect(why) ==
  /\ goal' = why
  /\ ret' = "none"
  /\ api' = "ping"
  /\ UNCHANGED <<cause, objectVars>>

\* A socket is made when there is none; resolver(*ptr_io_service_) uses the
\* io_service, which disconnect() has released for good.
Resolve ==
  /\ api = "ping"
  /\ IF service
     THEN /\ socket' = IF socket = "null" THEN "made" ELSE socket
          /\ api' = "connect"
          /\ UNCHANGED cause
     ELSE /\ api' = "crashed"
          /\ cause' = "null"
          /\ UNCHANGED socket
  /\ UNCHANGED <<goal, ret, callNo, builder, service, run, netOK, reader, raised, lidarVars>>

\* The attempt fails or the deadline closes the socket.
ConnectFails ==
  /\ api = "connect"
  /\ socket' = "made"
  /\ api' = "idle"
  /\ ret' = "false"
  /\ peer' = "none" /\ replies' = <<>>
  /\ UNCHANGED <<goal, callNo, builder, cause, service, run, netOK, reader, raised, backlog, inbox,
                 done>>

\* The old thread is discarded before the new one is kept: discarding one that
\* was not joined ends the process.  What the lidar has not looked at of the old
\* connection is still to be carried out, or lost with it.
ConnectOk ==
  /\ api = "connect"
  /\ peer' = "up" /\ inbox' = <<>> /\ replies' = <<>>
  /\ backlog' \in {backlog \o inbox, <<>>}
  /\ socket' = "connected"
  /\ run' = TRUE
  /\ IF reader = "none"
     THEN reader' = "check" /\ api' = "started" /\ UNCHANGED cause
     ELSE api' = "crashed" /\ cause' = "terminate" /\ UNCHANGED reader
  /\ UNCHANGED <<goal, ret, callNo, builder, service, netOK, raised, done>>

\* m_netOK = true, while the reading thread already runs; then init() returns
\* or the operation goes on.
SetNetOK ==
  /\ api = "started"
  /\ netOK' = TRUE
  /\ IF goal = "init"
     THEN api' = "idle" /\ ret' = "true"
     ELSE api' = "build" /\ UNCHANGED ret
  /\ UNCHANGED <<goal, callNo, builder, cause, socket, service, run, reader, raised, lidarVars>>

-----------------------------------------------------------------------------
(* LidarCtrlDriver *)

\* init(); it is called once, first.
init ==
  /\ api = "idle"
  /\ ret = "none"
  /\ connect("init")
  /\ UNCHANGED <<callNo, builder, reader, raised, lidarVars>>

\* Mutant: every operation connects again.
NeverConnected == FALSE

isConnected == socket = "connected" /\ netOK

\* Any operation: go on when connected, else connect first.
op(b) ==
  /\ api = "idle"
  /\ ret # "none"
  /\ callNo < MaxCalls
  /\ callNo' = callNo + 1
  /\ builder' = b
  /\ IF isConnected
     THEN api' = "build" /\ ret' = "none" /\ UNCHANGED <<goal, cause, objectVars>>
     ELSE connect("op")
  /\ UNCHANGED <<reader, raised, lidarVars>>

\* Mutant: the builder leaves the state as it is.
LeftRaised == raised

\* The state, when its builder is done with it.
Built == IF builder = "refuses" THEN raised ELSE builder = "raises"

\* Mutant: the request is taken for the next operation's.
NextRequest == callNo + 1

\* The request sendData writes: that of the operation in progress.
Request == callNo

\* The builder packs the request and sendData writes it, unless the builder
\* returned false or the reading thread was told to end.
Send ==
  /\ api = "build"
  /\ raised' = Built
  /\ IF run /\ builder # "refuses"
     THEN /\ inbox' = IF peer = "up" THEN Append(inbox, Request) ELSE inbox
          /\ api' = "poll"
          /\ UNCHANGED ret
     ELSE api' = "idle" /\ ret' = "false" /\ UNCHANGED inbox
  /\ UNCHANGED <<goal, callNo, builder, cause, objectVars, reader, peer, backlog, replies, done>>

Poll ==
  /\ api = "poll"
  /\ raised
  /\ api' = "idle"
  /\ ret' = "true"
  /\ UNCHANGED <<goal, callNo, builder, cause, objectVars, reader, raised, lidarVars>>

\* The last of the polls has been made.
Timeout ==
  /\ api = "poll"
  /\ api' = "idle"
  /\ ret' = "false"
  /\ UNCHANGED <<goal, callNo, builder, cause, objectVars, reader, raised, lidarVars>>

\* uninit(): nothing to do unless a reading thread was started and not joined.
uninit ==
  /\ api = "idle"
  /\ ret # "none"
  /\ IF socket # "null" /\ run
     THEN run' = FALSE /\ api' = "join" /\ ret' = "none"
     ELSE ret' = "true" /\ UNCHANGED <<run, api>>
  /\ UNCHANGED <<goal, callNo, builder, cause, socket, service, netOK, reader, raised, lidarVars>>

\* Mutant: the socket is released without waiting for the reading thread.
SkipsJoin == api = "join"

\* The join returns.
Joined == api = "join" /\ reader = "ended"

\* The thread is joined, socket and io_service are released.
Release ==
  /\ Joined
  /\ reader' = IF reader = "ended" THEN "none" ELSE reader
  /\ socket' = "null"
  /\ service' = FALSE
  /\ peer' = "none" /\ replies' = <<>>
  /\ api' = "idle"
  /\ ret' = "true"
  /\ UNCHANGED <<goal, callNo, builder, cause, run, netOK, raised, backlog, inbox, done>>

-----------------------------------------------------------------------------
(* slotReadTCPData *)

\* while (flag_thread_run_)
LoopCheck ==
  /\ reader = "check"
  /\ reader' = IF run THEN "reading" ELSE "ended"
  /\ UNCHANGED <<callerVars, objectVars, raised, lidarVars>>

\* read_some returns a reply; parsing it raises its state.
ReadReply ==
  /\ reader = "reading"
  /\ replies # <<>>
  /\ replies' = Tail(replies)
  /\ raised' = TRUE
  /\ reader' = "check"
  /\ UNCHANGED <<callerVars, objectVars, peer, backlog, inbox, done>>

\* Mutant: only the lidar closing the connection wakes the reading thread.
WokenByPeer == peer = "closed"

\* read_some returns EOF: the lidar closed, or disconnect shut the socket down.
Woken == peer = "closed" \/ ~run

ReadEof ==
  /\ reader = "reading"
  /\ replies = <<>>
  /\ Woken
  /\ netOK' = FALSE
  /\ reader' = "ended"
  /\ UNCHANGED <<callerVars, socket, service, run, raised, lidarVars>>

\* read_some returns another error, which is printed and retried.
ReadError ==
  /\ reader = "reading"
  /\ reader' = "check"
  /\ UNCHANGED <<callerVars, objectVars, raised, lidarVars>>

ReadOn == LoopCheck \/ ReadReply \/ ReadEof

Reader == ReadOn \/ ReadError

-----------------------------------------------------------------------------
(* The lidar *)

\* A late request is carried out; its connection is gone, and nobody hears of it.
CatchUp ==
  /\ backlog # <<>>
  /\ done' = done \cup {Head(backlog)}
  /\ backlog' = Tail(backlog)
  /\ UNCHANGED <<callerVars, objectVars, reader, raised, peer, inbox, replies>>

CarryOut ==
  /\ backlog = <<>>
  /\ inbox # <<>>
  /\ done' = done \cup {Head(inbox)}
  /\ inbox' = Tail(inbox)
  /\ replies' = IF peer = "up" THEN Append(replies, Head(inbox)) ELSE replies
  /\ UNCHANGED <<callerVars, objectVars, reader, raised, peer, backlog>>

\* It closes the connection; replies on their way may be lost with it, and what
\* it had still to catch up with.
Close ==
  /\ peer = "up"
  /\ peer' = "closed"
  /\ inbox' = <<>>
  /\ backlog' \in {backlog, <<>>}
  /\ replies' \in {replies, <<>>}
  /\ UNCHANGED <<callerVars, objectVars, reader, raised, done>>

Lidar == CatchUp \/ CarryOut \/ Close

-----------------------------------------------------------------------------
Finish ==
  \/ Resolve \/ ConnectFails \/ ConnectOk \/ SetNetOK
  \/ Send \/ Poll \/ Timeout \/ Release

\* The caller makes no more calls, or the process is gone.
Finished == api = "crashed" \/ (api = "idle" /\ callNo = MaxCalls)

Next ==
  \/ init \/ (\E b \in Builder : op(b)) \/ uninit \/ Finish
  \/ Reader
  \/ Lidar
  \/ Finished /\ UNCHANGED vars

Spec == Init /\ [][Next]_vars

-----------------------------------------------------------------------------
TypeOK ==
  /\ api \in {"idle", "ping", "connect", "started", "build", "poll", "join", "crashed"}
  /\ goal \in {"init", "op"}
  /\ ret \in {"none", "true", "false"}
  /\ [socket |-> socket, service |-> service, run |-> run, netOK |-> netOK] \in Object
  /\ reader \in {"none", "check", "reading", "ended"}
  /\ raised \in BOOLEAN /\ builder \in Builder
  /\ callNo \in 0..MaxCalls
  /\ peer \in {"none", "up", "closed"}
  /\ backlog \in Seq(1..MaxCalls)
  /\ inbox \in Seq(1..MaxCalls)
  /\ replies \in Seq(1..MaxCalls)
  /\ done \subseteq 1..callNo
  /\ cause \in {"none", "terminate", "null"}

\* The reading thread never outlives what it reads from: while its function
\* runs, the socket is the one it was started for.
ReaderHasSocket == reader \in {"check", "reading"} => socket = "connected" /\ service

\* The process crashes only when a call is made after uninit(), or when an
\* operation reconnects because the reading thread has seen the connection end.
CrashNeedsMisuse ==
  /\ cause = "null" => socket = "null" /\ ~service
  /\ cause = "terminate" => goal = "op" /\ reader = "ended" /\ ~netOK
=============================================================================
