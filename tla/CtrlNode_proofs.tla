-------------------------- MODULE CtrlNode_proofs ---------------------------
(***************************************************************************)
(* Theorems about TcpSession for any number of operations, and about the   *)
(* node on top of it for any number of requests.                           *)
(*                                                                         *)
(* The session: the reading thread has its socket, and the process crashes *)
(* in two ways only.  This rests on the caller's protocol.  connect() runs *)
(* only over a thread that has ended: init() is called once, and an        *)
(* operation connects only if the object is not connected, which a running *)
(* thread excludes from the moment m_netOK is set until it sees the        *)
(* connection end.                                                         *)
(*                                                                         *)
(* The node: a response with success tells the truth about the lidar, no   *)
(* reading thread is left, and only a lidar that closes a connection of its*)
(* own accord brings the node down.  The argument follows one request.  Its*)
(* object starts detached; init() leaves it attached to a connection on    *)
(* which nothing was sent, or detached; the operation sends at most one    *)
(* request, and what comes back is its reply; uninit() leaves the object   *)
(* detached again.  Requests that earlier connections left (LateInv) are   *)
(* carried out before it.  The one exception is a reboot of a Helios, which*)
(* succeeds as soon as it is sent (Hasty).                                 *)
(***************************************************************************)
EXTENDS CtrlNode, TLAPS

-----------------------------------------------------------------------------
(* The session *)

\* The types of what is not a sequence or a set.
StateTypes ==
  /\ api \in {"idle", "ping", "connect", "started", "build", "poll", "join", "crashed"}
  /\ goal \in {"init", "op"}
  /\ ret \in {"none", "true", "false"}
  /\ socket \in {"null", "made", "connected"}
  /\ service \in BOOLEAN /\ run \in BOOLEAN /\ netOK \in BOOLEAN
  /\ reader \in {"none", "check", "reading", "ended"}
  /\ raised \in BOOLEAN /\ builder \in Builder
  /\ callNo \in 0..MaxCalls
  /\ peer \in {"none", "up", "closed"}
  /\ cause \in {"none", "terminate", "null"}

\* Requests and replies on the wire are those of operations that were started,
\* and what is sent is the request of one.
WireTypes ==
  /\ api = "build" \/ goal = "op" => callNo > 0
  /\ backlog \in Seq(1..callNo)
  /\ inbox \in Seq(1..callNo)
  /\ replies \in Seq(1..callNo)
  /\ done \subseteq 1..callNo

\* connect() is under way and has not started a thread.
Connecting == api \in {"ping", "connect"}

\* The thread's function has not returned.
ReaderRuns == reader \in {"check", "reading"}

\* A running thread has its socket, and m_netOK is set once connect() is over.
ReaderInv ==
  /\ ReaderRuns => socket = "connected" /\ service
  /\ ReaderRuns => netOK \/ api = "started"
  /\ reader = "ended" /\ netOK => socket = "connected"
  /\ api = "started" => socket = "connected"

\* A thread that is left when connect() runs has ended, and lowered m_netOK.
ConnectInv ==
  /\ Connecting /\ reader # "none" => goal = "op" /\ reader = "ended" /\ ~netOK
  /\ api = "idle" /\ ret = "none" => reader = "none"
  /\ api = "connect" => service
  /\ ~service => socket = "null" /\ reader = "none"

\* What a crash leaves; no call is made after it.
CrashInv ==
  /\ cause # "none" => api = "crashed"
  /\ CrashNeedsMisuse

SessionInv == ReaderInv /\ ConnectInv /\ CrashInv

IInv == StateTypes /\ WireTypes /\ SessionInv

-----------------------------------------------------------------------------
(* Types *)

\* Every step keeps the types of the state.
LEMMA StateTypesStep ==
  ASSUME StateTypes, [Next]_vars
  PROVE  StateTypes'
<1>. USE DEF callerVars, objectVars, lidarVars, StateTypes
<1>1. CASE init BY <1>1 DEF init, connect
<1>2. ASSUME NEW b \in Builder, op(b) PROVE StateTypes'
  <2>1. callNo + 1 \in 0..MaxCalls BY <1>2, MaxCallsAssumption DEF op
  <2>. QED BY <1>2, <2>1 DEF op, connect
<1>3. CASE uninit BY <1>3 DEF uninit
<1>4. CASE Resolve BY <1>4 DEF Resolve
<1>5. CASE ConnectFails \/ ConnectOk BY <1>5 DEF ConnectFails, ConnectOk
<1>6. CASE SetNetOK BY <1>6 DEF SetNetOK
<1>7. CASE Send BY <1>7 DEF Send, Built
<1>8. CASE Poll \/ Timeout \/ Release BY <1>8 DEF Poll, Timeout, Release
<1>9. CASE Reader BY <1>9 DEF Reader, ReadOn, LoopCheck, ReadReply, ReadEof, ReadError
<1>10. CASE Lidar BY <1>10 DEF Lidar, CatchUp, CarryOut, Close
<1>11. CASE UNCHANGED vars BY <1>11 DEF vars
<1>. QED
  BY <1>1, <1>2, <1>3, <1>4, <1>5, <1>6, <1>7, <1>8, <1>9, <1>10, <1>11 DEF Next, Finish

\* What is left of a sequence of operations.
LEMMA TailOfWire ==
  ASSUME NEW S, NEW q \in Seq(S), q # <<>>
  PROVE  Head(q) \in S /\ Tail(q) \in Seq(S)
OBVIOUS

\* A sequence of operations is one of a wider range of them.
LEMMA WiderWire ==
  ASSUME NEW n \in Nat, NEW m \in Nat, n <= m, NEW q \in Seq(1..n)
  PROVE  q \in Seq(1..m)
<1>1. \A i \in 1..Len(q) : q[i] \in 1..m
  <2>1. SUFFICES ASSUME NEW i \in 1..Len(q) PROVE q[i] \in 1..m
    OBVIOUS
  <2>2. q[i] \in 1..n OBVIOUS
  <2>. QED BY <2>2
<1>2. Len(q) \in Nat /\ q = [i \in 1..Len(q) |-> q[i]] OBVIOUS
<1>. QED BY <1>1, <1>2

\* Every step keeps the operations on the wire among those started.
LEMMA WireTypesStep ==
  ASSUME StateTypes, WireTypes, [Next]_vars
  PROVE  WireTypes'
<1>. USE DEF callerVars, objectVars, lidarVars
<1>1. callNo \in Nat /\ <<>> \in Seq(1..callNo) BY DEF StateTypes
<1>2. ASSUME NEW b \in Builder, op(b) PROVE WireTypes'
  <2>1. callNo' = callNo + 1 /\ UNCHANGED <<backlog, inbox, replies, done>> BY <1>2 DEF op
  <2>2. 1..callNo \subseteq 1..(callNo + 1) /\ callNo + 1 \in Nat /\ callNo <= callNo + 1
    BY <1>1
  <2>. QED BY <1>1, <2>1, <2>2, WiderWire DEF WireTypes
<1>3. CASE Send
  <2>1. callNo \in 1..callNo BY <1>1, <1>3 DEF Send, WireTypes
  <2>2. Append(inbox, callNo) \in Seq(1..callNo) BY <2>1 DEF WireTypes
  <2>. QED BY <1>3, <2>2 DEF Send, Request, WireTypes
<1>4. CASE ConnectFails \/ ConnectOk \/ Release
  <2>1. backlog \o inbox \in Seq(1..callNo) BY DEF WireTypes
  <2>. QED BY <1>1, <1>4, <2>1 DEF ConnectFails, ConnectOk, Release, WireTypes
<1>5. CASE ReadReply
  <2>1. Tail(replies) \in Seq(1..callNo) BY <1>1, <1>5, TailOfWire DEF ReadReply, WireTypes
  <2>. QED BY <1>5, <2>1 DEF ReadReply, WireTypes
<1>6. CASE CarryOut
  <2>1. Head(inbox) \in 1..callNo /\ Tail(inbox) \in Seq(1..callNo)
    BY <1>1, <1>6, TailOfWire DEF CarryOut, WireTypes
  <2>2. Append(replies, Head(inbox)) \in Seq(1..callNo) BY <2>1 DEF WireTypes
  <2>. QED BY <1>6, <2>1, <2>2 DEF CarryOut, WireTypes
<1>7. CASE Close BY <1>1, <1>7 DEF Close, WireTypes
<1>12. CASE CatchUp
  <2>1. Head(backlog) \in 1..callNo /\ Tail(backlog) \in Seq(1..callNo)
    BY <1>1, <1>12, TailOfWire DEF CatchUp, WireTypes
  <2>. QED BY <1>12, <2>1 DEF CatchUp, WireTypes
<1>8. ASSUME UNCHANGED <<callNo, backlog, inbox, replies, done>>,
             api' = "build" => goal = "op" \/ api = "build",
             goal' = "op" => goal = "op"
      PROVE  WireTypes'
  BY <1>8 DEF WireTypes
<1>9. CASE init \/ uninit \/ Resolve
  BY <1>8, <1>9 DEF init, connect, uninit, Resolve
<1>10. CASE SetNetOK
  BY <1>8, <1>10 DEF SetNetOK, StateTypes
<1>11. CASE Poll \/ Timeout \/ LoopCheck \/ ReadEof \/ ReadError \/ UNCHANGED vars
  BY <1>8, <1>11 DEF Poll, Timeout, LoopCheck, ReadEof, ReadError, vars
<1>. QED
  BY <1>2, <1>3, <1>4, <1>5, <1>6, <1>7, <1>9, <1>10, <1>11, <1>12
     DEF Next, Finish, Reader, ReadOn, Lidar

-----------------------------------------------------------------------------
(* The session *)

\* A step of the caller, the reading thread or the lidar keeps the session in
\* order: each action is a matter of the few flags it touches.
LEMMA SessionStep ==
  ASSUME StateTypes, SessionInv, [Next]_vars
  PROVE  SessionInv'
<1>. USE DEF callerVars, objectVars, lidarVars, StateTypes, SessionInv, ReaderInv, ConnectInv,
             CrashInv, CrashNeedsMisuse, Connecting, ReaderRuns
<1>1. CASE init BY <1>1 DEF init, connect
<1>2. ASSUME NEW b \in Builder, op(b) PROVE SessionInv'
  BY <1>2 DEF op, connect, isConnected
<1>3. CASE uninit BY <1>3 DEF uninit
<1>5. CASE Resolve BY <1>5 DEF Resolve
<1>6. CASE ConnectFails BY <1>6 DEF ConnectFails
<1>7. CASE ConnectOk BY <1>7 DEF ConnectOk
<1>8. CASE SetNetOK BY <1>8 DEF SetNetOK
<1>9. CASE Send \/ Poll \/ Timeout BY <1>9 DEF Send, Poll, Timeout
<1>10. CASE Release BY <1>10 DEF Release, Joined
<1>11. CASE LoopCheck \/ ReadReply \/ ReadError BY <1>11 DEF LoopCheck, ReadReply, ReadError
<1>12. CASE ReadEof BY <1>12 DEF ReadEof
<1>13. CASE Lidar BY <1>13 DEF Lidar, CatchUp, CarryOut, Close
<1>14. CASE UNCHANGED vars BY <1>14 DEF vars
<1>. QED
  BY <1>1, <1>2, <1>3, <1>5, <1>6, <1>7, <1>8, <1>9, <1>10, <1>11, <1>12, <1>13, <1>14
  DEF Next, Finish, Reader, ReadOn

-----------------------------------------------------------------------------
(* Theorems *)

\* The inductive invariant holds of every behaviour.
THEOREM Invariant == Spec => []IInv
<1>1. Init => IInv
  <2>1. 0 \in 0..MaxCalls /\ <<>> \in Seq(1..0) BY MaxCallsAssumption
  <2>. QED BY <2>1
       DEF Init, Builder, IInv, StateTypes, WireTypes, SessionInv, ReaderInv, ConnectInv, CrashInv,
           CrashNeedsMisuse, Connecting, ReaderRuns
<1>2. IInv /\ [Next]_vars => IInv' BY StateTypesStep, WireTypesStep, SessionStep DEF IInv
<1>. QED BY <1>1, <1>2, PTL DEF Spec

\* The types the invariant implies: operations on the wire are within MaxCalls.
LEMMA TypesOfInvariant ==
  ASSUME IInv
  PROVE  TypeOK
<1>1. callNo \in Nat /\ callNo <= MaxCalls
  BY MaxCallsAssumption DEF IInv, StateTypes
<1>2. /\ backlog \in Seq(1..MaxCalls) /\ inbox \in Seq(1..MaxCalls)
      /\ replies \in Seq(1..MaxCalls)
  BY <1>1, MaxCallsAssumption, WiderWire DEF IInv, WireTypes
<1>. QED BY <1>2 DEF IInv, StateTypes, WireTypes, TypeOK, Object

\* The session's state keeps its types; the lidar is sent, and carries out, no
\* operation that was not started.
THEOREM TypeCorrectness == Spec => []TypeOK
<1>1. IInv => TypeOK BY TypesOfInvariant
<1>. QED BY <1>1, Invariant, PTL

\* ReaderHasSocket, for any number of operations: slotReadTCPData never reads
\* from a socket that disconnect() or a failed connect() has taken away.
THEOREM ReaderHasSocketAlways == Spec => []ReaderHasSocket
<1>1. IInv => ReaderHasSocket
  BY DEF IInv, SessionInv, ReaderInv, ReaderRuns, ReaderHasSocket
<1>. QED BY <1>1, Invariant, PTL

\* CrashNeedsMisuse, for any number of operations: connect() discards a thread
\* only in an operation that found its connection ended, and dereferences a
\* released io_service only after uninit().
THEOREM CrashNeedsMisuseAlways == Spec => []CrashNeedsMisuse
<1>1. IInv => CrashNeedsMisuse BY DEF IInv, SessionInv, CrashInv
<1>. QED BY <1>1, Invariant, PTL

-----------------------------------------------------------------------------
(* The node *)

NodeTypes ==
  /\ family \in Families
  /\ node \in {"free", "init", "op", "uninit"}
  /\ nReq \in 0..MaxRequests
  /\ kind \in Kind
  /\ asked \in Seq(Kind) /\ Len(asked) = callNo
  /\ ok \in {"none", "true", "false"} /\ (node = "uninit" => ok # "none")
  /\ last \in [kind : Kind, call : Nat, success : {"true", "false"}]
  /\ last.call <= callNo
  /\ mode \in Mode
  /\ rebooting \in BOOLEAN /\ dropped \in BOOLEAN

\* What waits of earlier connections are requests made before this one's.
LateInv == node \in {"op", "uninit"} => backlog \in Seq(1..(callNo - 1))

\* The object has no connection and no thread.
Detached == peer = "none" /\ replies = <<>> /\ reader = "none" /\ ~netOK /\ socket # "connected"

\* The object has a connection on which nothing was sent.
Attached == run /\ socket = "connected" /\ reader # "none" /\ inbox = <<>> /\ replies = <<>>

\* A node that spins has a fresh object.
FreeInv == node = "free" => api = "idle" /\ ret = "none" /\ service /\ ~run /\ Detached

\* While init() runs, and when it has returned false or true.
InitInv ==
  node = "init" =>
    /\ goal = "init" /\ service
    /\ \/ Connecting /\ ret = "none" /\ ~run /\ Detached
       \/ api = "idle" /\ ret = "false" /\ ~run /\ Detached
       \/ api = "started" /\ Attached
       \/ api = "idle" /\ ret = "true" /\ Attached

\* The operation keeps its thread, joinable, and has sent nothing at first.
OpInv ==
  node = "op" =>
    /\ run /\ service /\ socket # "null" /\ reader # "none"
    /\ \/ api \in {"ping", "connect", "build", "poll", "crashed"} /\ ret = "none"
       \/ api = "idle" /\ ret # "none"
    /\ api \in {"ping", "connect", "build"} => inbox = <<>> /\ replies = <<>> /\ callNo \notin done

\* uninit() joins the thread, then everything is released.
UninitInv ==
  node = "uninit" =>
    \/ api = "join" /\ ret = "none"
    \/ /\ api = "idle" /\ ret = "true"
       /\ socket = "null" /\ reader = "none" /\ peer = "none" /\ replies = <<>>

Protocol == FreeInv /\ InitInv /\ OpInv /\ UninitInv

\* The lidar has carried out operation n, of kind k, and nothing else since.
Carried(n, k) ==
  n \in done /\ backlog = <<>> /\ inbox = <<>> /\ (k # "reboot" => mode = k)

\* TRUE of an operation for a request of kind k says nothing of the lidar.
Hasty(k) == PreRaised(family, OperationOf(k))

\* Only the request of the operation is on the connection, and a reply to it, a
\* raised state or a result "true" says that it was carried out, unless its
\* builder raises the state.
WorkInv ==
  node \in {"op", "uninit"} =>
    /\ callNo > 0 /\ asked[callNo] = kind
    /\ builder = BuilderOf(OperationOf(kind))
    /\ inbox = <<>> \/ (inbox = <<callNo>> /\ callNo \notin done)
    /\ callNo \in done => Carried(callNo, kind)
    /\ replies # <<>> => callNo \in done
    /\ node = "op" /\ api = "poll" => builder # "refuses"
    /\ node = "op" /\ api = "poll" /\ raised => callNo \in done \/ Hasty(kind)
    /\ node = "op" /\ ret = "true" => callNo \in done \/ Hasty(kind)
    /\ node = "uninit" /\ ok = "true" => callNo \in done \/ Hasty(kind)

\* What a response with success says stays true while the node spins.
LastInv ==
  node = "free" /\ last.success = "true" => Carried(last.call, last.kind) \/ Hasty(last.kind)

\* A lidar that has closed connections only to reboot was told to do so by
\* the operation, which by then no longer needs to connect.
UndroppedInv ==
  ~dropped =>
    /\ goal = "init" /\ api # "crashed"
    /\ node = "init" /\ reader # "none" => peer = "up" /\ ~rebooting /\ ReaderRuns
    /\ node = "op" => api \notin {"ping", "connect"}

NodeIInv == IInv /\ NodeTypes /\ LateInv /\ Protocol /\ WorkInv /\ LastInv /\ UndroppedInv

-----------------------------------------------------------------------------
(* The session within a request *)

\* What a step of the node is to the session: one of its own, or a new object.
LEMMA NodeStepOfSession ==
  ASSUME [NodeNext]_allVars
  PROVE  [Next]_vars \/ (api = "idle" /\ NewDriver)
<1>1. ASSUME NEW k \in Kind, Accept(k) PROVE Next BY <1>1 DEF Accept, Next
<1>2. CASE Handler
  <2>1. BuilderOf(OperationOf(kind)) \in Builder BY DEF BuilderOf, Builder
  <2>. QED
    BY <1>2, <2>1
    DEF Handler, CallOperation, CallUninit, RespondUnconnected, RespondDone, Respond, Next
<1>3. CASE Session BY <1>3 DEF Session, Next
<1>4. CASE Obey BY <1>4 DEF Obey, Next, Lidar
<1>5. CASE Drop BY <1>5 DEF Drop, Next, Lidar
<1>6. CASE Spin \/ UNCHANGED allVars BY <1>6 DEF Spin, allVars
<1>. QED BY <1>1, <1>2, <1>3, <1>4, <1>5, <1>6 DEF NodeNext

\* Every step of the node keeps the session's invariant.
LEMMA NodeKeepsSession ==
  ASSUME IInv, [NodeNext]_allVars
  PROVE  IInv'
<1>. USE DEF callerVars, objectVars, lidarVars
<1>1. CASE [Next]_vars BY <1>1, StateTypesStep, WireTypesStep, SessionStep DEF IInv
<1>2. CASE api = "idle" /\ NewDriver
  <2>1. StateTypes' /\ WireTypes' BY <1>2 DEF NewDriver, IInv, StateTypes, WireTypes
  <2>2. SessionInv'
    BY <1>2
    DEF NewDriver, IInv, SessionInv, ReaderInv, ConnectInv, CrashInv, CrashNeedsMisuse,
        Connecting, ReaderRuns
  <2>. QED BY <2>1, <2>2 DEF IInv
<1>. QED BY <1>1, <1>2, NodeStepOfSession

\* Every step keeps the types of the node.
LEMMA NodeTypesStep ==
  ASSUME IInv, NodeTypes, [NodeNext]_allVars
  PROVE  NodeTypes'
<1>. USE DEF callerVars, objectVars, lidarVars, requestVars, lidarState
<1>1. callNo \in Nat /\ nReq \in Nat /\ ret \in {"none", "true", "false"}
  BY MaxRequestsAssumption DEF IInv, StateTypes, NodeTypes
<1>2. ASSUME NEW k \in Kind, Accept(k) PROVE NodeTypes'
  <2>1. nReq + 1 \in 0..MaxRequests BY <1>1, <1>2, MaxRequestsAssumption DEF Accept
  <2>. QED BY <1>2, <2>1 DEF Accept, init, NodeTypes
<1>3. CASE CallOperation
  <2>1. callNo' = callNo + 1 BY <1>3 DEF CallOperation, op
  <2>2. Append(asked, kind) \in Seq(Kind) /\ Len(Append(asked, kind)) = callNo + 1
    BY DEF NodeTypes
  <2>3. last.call \in Nat BY DEF NodeTypes
  <2>. QED BY <1>1, <1>3, <2>1, <2>2, <2>3 DEF CallOperation, NodeTypes
<1>4. CASE CallUninit BY <1>1, <1>4 DEF CallUninit, uninit, NodeTypes
<1>5. CASE RespondUnconnected
  BY <1>1, <1>5 DEF RespondUnconnected, Respond, NewDriver, NodeTypes
<1>6. CASE RespondDone
  BY <1>1, <1>6 DEF RespondDone, Respond, NewDriver, NodeTypes
<1>7. CASE Session
  <2>1. callNo' = callNo
    BY <1>7
    DEF Session, Finish, Resolve, ConnectFails, ConnectOk, SetNetOK, Send, Poll,
        Timeout, Release, Reader, ReadOn, LoopCheck, ReadReply, ReadEof, ReadError
  <2>. QED BY <1>7, <2>1 DEF Session, NodeTypes
<1>8. CASE Obey
  <2>1. ASSUME NEW q \in Seq(1..callNo), q # <<>>, Obeys(Head(q)) PROVE mode' \in Mode
    <3>1. Head(q) \in 1..Len(asked) BY <1>1, <2>1, TailOfWire DEF NodeTypes
    <3>2. asked[Head(q)] \in Kind BY <3>1 DEF NodeTypes
    <3>. QED BY <2>1, <3>2 DEF Obeys, Kind, Mode
  <2>2. mode' \in Mode
    BY <1>8, <2>1 DEF Obey, CatchUp, CarryOut, IInv, WireTypes
  <2>. QED BY <1>8, <2>2 DEF Obey, CatchUp, CarryOut, NodeTypes
<1>9. CASE Drop BY <1>9 DEF Drop, Close, NodeTypes
<1>10. CASE Spin \/ UNCHANGED allVars BY <1>10 DEF Spin, allVars, vars, nodeVars, NodeTypes
<1>. QED
  BY <1>2, <1>3, <1>4, <1>5, <1>6, <1>7, <1>8, <1>9, <1>10 DEF NodeNext, Handler

\* A late request is not the operation's.
LEMMA LateIsOther ==
  ASSUME StateTypes, LateInv, node \in {"op", "uninit"}, CatchUp
  PROVE  callNo # Head(backlog) /\ Tail(backlog) \in Seq(1..(callNo - 1))
<1>1. callNo \in Nat BY DEF StateTypes
<1>2. backlog \in Seq(1..(callNo - 1)) /\ backlog # <<>> BY DEF LateInv, CatchUp
<1>3. Head(backlog) \in 1..(callNo - 1) /\ Tail(backlog) \in Seq(1..(callNo - 1))
  BY <1>2, TailOfWire
<1>. QED BY <1>1, <1>3

\* Every step keeps late requests apart from the operation's.
LEMMA LateStep ==
  ASSUME IInv, NodeTypes, LateInv, Protocol, [NodeNext]_allVars
  PROVE  LateInv'
<1>. USE DEF callerVars, objectVars, lidarVars, requestVars, lidarState
<1>1. callNo \in Nat /\ backlog \in Seq(1..callNo) /\ <<>> \in Seq(1..(callNo - 1))
  BY DEF IInv, StateTypes, WireTypes
<1>2. CASE CallOperation
  <2>1. callNo' - 1 = callNo /\ backlog' = backlog
    BY <1>1, <1>2 DEF CallOperation, op
  <2>. QED BY <1>1, <2>1 DEF LateInv
<1>3. CASE Session /\ ConnectOk
  <2>1. node = "op" => inbox = <<>> BY <1>3 DEF ConnectOk, Protocol, OpInv
  <2>2. node # "uninit" BY <1>3 DEF ConnectOk, Protocol, UninitInv
  <2>3. backlog \o <<>> = backlog BY <1>1
  <2>4. UNCHANGED <<node, callNo>> BY <1>3 DEF Session, ConnectOk
  <2>. QED BY <1>1, <1>3, <2>1, <2>2, <2>3, <2>4 DEF ConnectOk, LateInv
<1>4. CASE Obey
  <2>1. ASSUME CatchUp PROVE LateInv'
    <3>1. UNCHANGED <<node, callNo>> /\ backlog' = Tail(backlog) BY <1>4, <2>1 DEF Obey, CatchUp
    <3>2. StateTypes BY DEF IInv
    <3>. QED BY <2>1, <3>1, <3>2, LateIsOther DEF LateInv
  <2>. QED BY <1>4, <2>1 DEF Obey, CarryOut, LateInv
<1>5. CASE Drop BY <1>1, <1>5 DEF Drop, Close, LateInv
<1>6. ASSUME UNCHANGED <<callNo, backlog>>, node' \in {"op", "uninit"} => node \in {"op", "uninit"}
      PROVE  LateInv'
  BY <1>6 DEF LateInv
<1>7. ASSUME NEW k \in Kind, Accept(k) PROVE LateInv' BY <1>6, <1>7 DEF Accept, init
<1>8. CASE CallUninit BY <1>6, <1>8 DEF CallUninit, uninit
<1>9. CASE RespondUnconnected \/ RespondDone
  BY <1>6, <1>9 DEF RespondUnconnected, RespondDone, Respond, NewDriver
<1>10. CASE Session /\ (Finish \/ Reader) /\ ~ConnectOk
  BY <1>6, <1>10
  DEF Session, Finish, Resolve, ConnectFails, SetNetOK, Send, Poll, Timeout, Release,
      Reader, ReadOn, LoopCheck, ReadReply, ReadEof, ReadError
<1>11. CASE Spin \/ UNCHANGED allVars BY <1>6, <1>11 DEF Spin, allVars, vars, nodeVars
<1>. QED
  BY <1>2, <1>3, <1>4, <1>5, <1>7, <1>8, <1>9, <1>10, <1>11 DEF NodeNext, Handler, Session

\* Every step follows the protocol of one request.
LEMMA ProtocolStep ==
  ASSUME IInv, NodeTypes, LateInv, Protocol, WorkInv, [NodeNext]_allVars
  PROVE  Protocol'
<1>. USE DEF callerVars, objectVars, lidarVars, requestVars, lidarState, Protocol, FreeInv, InitInv,
             OpInv, UninitInv, Connecting, Detached, Attached
<1>1. /\ StateTypes /\ ReaderInv /\ ConnectInv /\ CrashInv
      /\ node \in {"free", "init", "op", "uninit"}
      /\ done \subseteq 1..callNo
  BY DEF IInv, SessionInv, NodeTypes, WireTypes
<1>2. ASSUME NEW k \in Kind, Accept(k) PROVE Protocol'
  BY <1>2 DEF Accept, init, connect
<1>3. CASE CallOperation
  <2>1. callNo + 1 \notin done BY <1>1 DEF StateTypes
  <2>. QED BY <1>1, <1>3, <2>1 DEF CallOperation, op, connect, StateTypes
<1>4. CASE CallUninit BY <1>4 DEF CallUninit, uninit
<1>5. CASE RespondUnconnected \/ RespondDone
  BY <1>1, <1>5 DEF RespondUnconnected, RespondDone, Respond, NewDriver, CrashInv
<1>6. CASE Session /\ Finish
  <2>1. UNCHANGED <<node, callNo, done>>
    BY <1>6
    DEF Session, Finish, Resolve, ConnectFails, ConnectOk, SetNetOK, Send, Poll, Timeout,
        Release
  <2>2. CASE Resolve \/ ConnectFails BY <1>1, <2>1, <2>2 DEF Resolve, ConnectFails
  <2>3. CASE ConnectOk BY <1>1, <2>1, <2>3 DEF ConnectOk
  <2>4. CASE SetNetOK BY <1>1, <2>1, <2>4 DEF SetNetOK
  <2>5. CASE Send BY <1>1, <2>1, <2>5 DEF Send
  <2>6. CASE Poll \/ Timeout BY <1>1, <2>1, <2>6 DEF Poll, Timeout
  <2>7. CASE Release BY <1>1, <2>1, <2>7 DEF Release, Joined
  <2>. QED BY <1>6, <2>2, <2>3, <2>4, <2>5, <2>6, <2>7 DEF Finish
<1>7. CASE Session /\ Reader
  BY <1>1, <1>7 DEF Session, Reader, ReadOn, LoopCheck, ReadReply, ReadEof, ReadError
<1>8. CASE Obey
  <2>1. UNCHANGED <<node, api, goal, ret, callNo, cause, socket, service, run, netOK, reader, raised, peer>>
    BY <1>8 DEF Obey, CatchUp, CarryOut
  <2>2. CASE CatchUp
    <3>1. node = "op" => callNo # Head(backlog) BY <1>1, <2>2, LateIsOther
    <3>2. done' = done \cup {Head(backlog)} /\ UNCHANGED <<inbox, replies>> BY <2>2 DEF CatchUp
    <3>. QED BY <2>1, <3>1, <3>2
  <2>3. CASE CarryOut BY <2>1, <2>3 DEF CarryOut
  <2>. QED BY <1>8, <2>2, <2>3 DEF Obey
<1>9. CASE Drop BY <1>9 DEF Drop, Close
<1>10. CASE Spin \/ UNCHANGED allVars BY <1>10 DEF Spin, allVars, vars, nodeVars
<1>. QED
  BY <1>2, <1>3, <1>4, <1>5, <1>6, <1>7, <1>8, <1>9, <1>10 DEF NodeNext, Handler, Session
-----------------------------------------------------------------------------
(* The request and the lidar *)

\* A sequence of one request.
LEMMA OneRequest ==
  ASSUME NEW n
  PROVE  /\ Append(<<>>, n) = <<n>> /\ <<n>> # <<>>
         /\ Head(<<n>>) = n /\ Tail(<<n>>) = <<>>
OBVIOUS

\* Every step keeps what replies, states and results say of the request.
LEMMA WorkStep ==
  ASSUME IInv, NodeTypes, LateInv, Protocol, WorkInv, [NodeNext]_allVars
  PROVE  WorkInv'
<1>. USE DEF callerVars, objectVars, lidarVars, requestVars, lidarState
<1>1. /\ callNo \in Nat /\ done \subseteq 1..callNo
      /\ asked \in Seq(Kind) /\ Len(asked) = callNo
  BY DEF IInv, StateTypes, WireTypes, NodeTypes
<1>2. ASSUME NEW k \in Kind, Accept(k) PROVE WorkInv' BY <1>2 DEF Accept, WorkInv
<1>3. CASE CallOperation
  <2>1. callNo' = callNo + 1 /\ callNo' > 0 /\ callNo' \notin done
    BY <1>1, <1>3 DEF CallOperation, op
  <2>2. asked'[callNo'] = kind BY <1>1, <1>3, <2>1 DEF CallOperation
  <2>3. inbox = <<>> /\ replies = <<>>
    BY <1>3 DEF CallOperation, op, Protocol, InitInv, Attached, Connecting
  <2>4. /\ node' = "op" /\ ret' # "true" /\ api' # "poll"
        /\ builder' = BuilderOf(OperationOf(kind))
        /\ UNCHANGED <<family, kind, inbox, replies, done>>
    BY <1>3 DEF CallOperation, op, connect
  <2>. QED BY <2>1, <2>2, <2>3, <2>4 DEF WorkInv, BuilderOf
<1>4. CASE CallUninit
  <2>1. /\ node = "op" /\ node' = "uninit" /\ ok' = ret
        /\ UNCHANGED <<family, callNo, builder, kind, asked, mode, backlog, inbox, replies, done>>
    BY <1>4 DEF CallUninit, uninit
  <2>. QED BY <2>1 DEF WorkInv, Carried, Hasty, BuilderOf
<1>5. CASE RespondUnconnected \/ RespondDone
  BY <1>5 DEF RespondUnconnected, RespondDone, Respond, WorkInv
<1>6. CASE Session /\ (Resolve \/ ConnectFails \/ ConnectOk \/ SetNetOK \/ Release)
  <2>1. /\ UNCHANGED <<family, node, kind, callNo, builder, asked, ok, mode, done>>
        /\ replies' = replies \/ replies' = <<>>
        /\ api' # "poll" /\ ret' \in {ret, "true", "false"}
    BY <1>6 DEF Session, Resolve, ConnectFails, ConnectOk, SetNetOK, Release
  <2>2. inbox' = inbox \/ inbox' = <<>>
    BY <1>6 DEF Resolve, ConnectFails, ConnectOk, SetNetOK, Release
  <2>4. node \in {"op", "uninit"} /\ callNo \in done => backlog' = backlog
    BY <1>6 DEF Resolve, ConnectFails, ConnectOk, SetNetOK, Release, Protocol, OpInv, UninitInv
  <2>3. node = "op" /\ ret' = "true" => ret = "true"
    BY <1>6
    DEF Resolve, ConnectFails, ConnectOk, SetNetOK, Release, Joined, Protocol, OpInv
  <2>. QED BY <2>1, <2>2, <2>3, <2>4 DEF WorkInv, Carried, Hasty, BuilderOf
<1>7. CASE Session /\ Send
  <2>1. node \in {"op", "uninit"} => inbox = <<>> /\ replies = <<>> /\ callNo \notin done
    BY <1>7 DEF Send, Protocol, OpInv, UninitInv
  <2>2. /\ ret' \in {ret, "false"}
        /\ inbox' = inbox \/ inbox' = Append(inbox, callNo)
        /\ UNCHANGED <<family, node, kind, callNo, builder, asked, ok, mode, replies, done>>
    BY <1>7 DEF Session, Send, Request
  <2>3. node = "op" => ret # "true" BY <1>7 DEF Send, Protocol, OpInv
  <2>4. api' = "poll" => builder # "refuses" /\ raised' = Built BY <1>7 DEF Send
  <2>5. node = "op" /\ api' = "poll" /\ raised' => Hasty(kind)
    BY <2>4 DEF WorkInv, Built, BuilderOf, Hasty
  <2>. QED BY <2>1, <2>2, <2>3, <2>4, <2>5, OneRequest DEF WorkInv, Hasty, BuilderOf
<1>8. CASE Session /\ (Poll \/ Timeout)
  BY <1>8 DEF Session, Poll, Timeout, Protocol, UninitInv, WorkInv, Carried, Hasty, BuilderOf
<1>9. CASE Session /\ Reader
  BY <1>9
     DEF Session, Reader, ReadOn, LoopCheck, ReadReply, ReadEof, ReadError, WorkInv, Carried,
         Hasty, BuilderOf
<1>10. CASE Obey
  <2>1. ASSUME node \in {"op", "uninit"} PROVE WorkInv'
    <3>1. UNCHANGED <<family, node, kind, callNo, builder, asked, ok, ret, api, raised>>
      BY <1>10 DEF Obey, CatchUp, CarryOut
    <3>2. CASE CatchUp
      <4>1. callNo # Head(backlog) BY <2>1, <3>2, LateIsOther DEF IInv
      <4>2. done' = done \cup {Head(backlog)} /\ UNCHANGED <<inbox, replies>> /\ backlog # <<>>
        BY <3>2 DEF CatchUp
      <4>. QED BY <2>1, <3>1, <4>1, <4>2 DEF WorkInv, Carried, Hasty, BuilderOf
    <3>3. CASE CarryOut /\ ~CatchUp
      <4>1. inbox = <<callNo>> /\ asked[callNo] = kind /\ callNo > 0
        BY <2>1, <3>3 DEF CarryOut, WorkInv
      <4>2. Head(inbox) = callNo /\ Tail(inbox) = <<>> BY <4>1, OneRequest
      <4>3. done' = done \cup {callNo} /\ inbox' = <<>> /\ backlog' = <<>>
        BY <3>3, <4>2 DEF CarryOut
      <4>4. kind # "reboot" => mode' = kind BY <1>10, <3>3, <4>1, <4>2 DEF Obey, Obeys
      <4>. QED BY <2>1, <3>1, <4>1, <4>3, <4>4 DEF WorkInv, Carried, Hasty, BuilderOf
    <3>. QED BY <1>10, <3>2, <3>3 DEF Obey
  <2>. QED BY <1>10, <2>1 DEF Obey, WorkInv
<1>11. CASE Drop
  BY <1>11 DEF Drop, Close, WorkInv, Carried, Hasty, BuilderOf
<1>12. CASE Spin \/ UNCHANGED allVars
  BY <1>12 DEF Spin, allVars, vars, nodeVars, WorkInv, Carried, Hasty, BuilderOf
<1>. QED
  BY <1>2, <1>3, <1>4, <1>5, <1>6, <1>7, <1>8, <1>9, <1>10, <1>11, <1>12
  DEF NodeNext, Handler, Session, Finish

\* Nothing happens to the lidar, or to a fresh object, while the node spins
\* after a success.
LEMMA LastStep ==
  ASSUME IInv, NodeTypes, Protocol, WorkInv, LastInv, [NodeNext]_allVars
  PROVE  LastInv'
<1>. USE DEF callerVars, objectVars, lidarVars, requestVars, lidarState
<1>1. ASSUME NEW k \in Kind, Accept(k) PROVE LastInv' BY <1>1 DEF Accept, LastInv
<1>2. CASE CallOperation \/ CallUninit BY <1>2 DEF CallOperation, CallUninit, LastInv
<1>3. CASE RespondUnconnected BY <1>3 DEF RespondUnconnected, Respond, LastInv
<1>4. CASE RespondDone
  <2>1. /\ last' = [kind |-> kind, call |-> callNo, success |-> ok]
        /\ UNCHANGED <<family, backlog, inbox, done, mode>> /\ node = "uninit"
    BY <1>4 DEF RespondDone, Respond, NewDriver
  <2>2. ok = "true" => Carried(callNo, kind) \/ Hasty(kind) BY <2>1 DEF WorkInv
  <2>. QED BY <2>1, <2>2 DEF LastInv, Carried, Hasty
<1>5. CASE Session
  <2>1. node # "free"
    BY <1>5
    DEF Session, Finish, Resolve, ConnectFails, ConnectOk, SetNetOK, Send, Poll, Timeout,
        Release, Joined, Reader, ReadOn, LoopCheck, ReadReply, ReadEof, ReadError, Protocol, FreeInv, Detached
  <2>. QED BY <1>5, <2>1 DEF Session, LastInv
<1>6. CASE Obey BY <1>6 DEF Obey, CatchUp, CarryOut, LastInv, Carried, Hasty
<1>7. CASE Drop
  <2>1. node # "free" BY <1>7 DEF Drop, Close, Protocol, FreeInv, Detached
  <2>. QED BY <1>7, <2>1 DEF Drop, nodeVars, LastInv
<1>8. CASE Spin \/ UNCHANGED allVars
  BY <1>8 DEF Spin, allVars, vars, nodeVars, LastInv, Carried, Hasty
<1>. QED BY <1>1, <1>2, <1>3, <1>4, <1>5, <1>6, <1>7, <1>8 DEF NodeNext, Handler

\* As long as the lidar is steady, operations find the connection they need.
LEMMA UndroppedStep ==
  ASSUME IInv, NodeTypes, Protocol, UndroppedInv, [NodeNext]_allVars
  PROVE  UndroppedInv'
<1>. USE DEF callerVars, objectVars, lidarVars, requestVars, lidarState, UndroppedInv, ReaderRuns
<1>1. StateTypes /\ SessionInv BY DEF IInv
<1>2. ASSUME NEW k \in Kind, Accept(k) PROVE UndroppedInv'
  BY <1>2 DEF Accept, init, connect, Protocol, FreeInv, Detached
<1>3. CASE CallOperation
  <2>1. ~dropped => netOK /\ socket = "connected"
    BY <1>1, <1>3
    DEF CallOperation, op, Protocol, InitInv, Connecting, Attached, SessionInv, ReaderInv
  <2>. QED BY <1>3, <2>1 DEF CallOperation, op, isConnected
<1>4. CASE CallUninit BY <1>4 DEF CallUninit, uninit
<1>5. CASE RespondUnconnected \/ RespondDone
  BY <1>5 DEF RespondUnconnected, RespondDone, Respond, NewDriver
<1>6. CASE Session /\ (Resolve \/ ConnectFails)
  BY <1>1, <1>6
  DEF Session, Resolve, ConnectFails, Protocol, FreeInv, InitInv, UninitInv, Detached,
      Connecting, Attached, NodeTypes
<1>7. CASE Session /\ ConnectOk
  <2>1. ~dropped => node = "init" /\ reader = "none" /\ peer = "none"
    BY <1>7
    DEF ConnectOk, Protocol, FreeInv, InitInv, UninitInv, Detached, Connecting, Attached, NodeTypes
  <2>. QED BY <1>7, <2>1 DEF Session, ConnectOk
<1>8. CASE Session /\ (SetNetOK \/ Send \/ Poll \/ Timeout \/ Release)
  BY <1>8
  DEF Session, SetNetOK, Send, Poll, Timeout, Release, Joined, Protocol, InitInv, Connecting, OpInv
<1>9. CASE Session /\ Reader
  BY <1>1, <1>9
  DEF Session, Reader, ReadOn, LoopCheck, ReadReply, ReadEof, ReadError, Woken, Protocol, InitInv, Attached, Detached
<1>10. CASE Obey
  BY <1>10 DEF Obey, CatchUp, CarryOut, Protocol, InitInv, Attached, Detached
<1>11. CASE Drop
  BY <1>11 DEF Drop, Close, Protocol, InitInv, Attached, Detached
<1>12. CASE Spin \/ UNCHANGED allVars BY <1>12 DEF Spin, allVars, vars, nodeVars
<1>. QED
  BY <1>2, <1>3, <1>4, <1>5, <1>6, <1>7, <1>8, <1>9, <1>10, <1>11, <1>12
  DEF NodeNext, Handler, Session, Finish

-----------------------------------------------------------------------------
(* Theorems *)

\* The inductive invariant holds of every behaviour.
THEOREM NodeInvariant == NodeSpec => []NodeIInv
<1>1. NodeInit => NodeIInv
  <2>1. SUFFICES ASSUME NodeInit PROVE NodeIInv
    OBVIOUS
  <2>2. IInv
    <3>1. 0 \in 0..MaxCalls /\ <<>> \in Seq(1..0) BY MaxCallsAssumption
    <3>. QED BY <2>1, <3>1
         DEF NodeInit, Init, Builder, IInv, StateTypes, WireTypes, SessionInv, ReaderInv, ConnectInv,
             CrashInv, CrashNeedsMisuse, Connecting, ReaderRuns
  <2>3. NodeTypes
    <3>1. 0 \in 0..MaxRequests /\ <<>> \in Seq(Kind) /\ Len(<<>>) = 0 BY MaxRequestsAssumption
    <3>2. last = [kind |-> "on", call |-> 0, success |-> "false"] /\ callNo = 0
      BY <2>1 DEF NodeInit, Init
    <3>3. /\ last \in [kind : Kind, call : Nat, success : {"true", "false"}]
          /\ last.call <= callNo
      BY <3>2 DEF Kind
    <3>. QED BY <2>1, <3>1, <3>2, <3>3 DEF NodeInit, NodeTypes, Kind
  <2>4. LateInv /\ Protocol /\ WorkInv /\ LastInv /\ UndroppedInv
    BY <2>1
    DEF NodeInit, Init, LateInv, Protocol, FreeInv, InitInv, OpInv, UninitInv, Detached, WorkInv, LastInv,
        UndroppedInv
  <2>. QED BY <2>2, <2>3, <2>4 DEF NodeIInv
<1>2. NodeIInv /\ [NodeNext]_allVars => NodeIInv'
  BY NodeKeepsSession, NodeTypesStep, LateStep, ProtocolStep, WorkStep, LastStep, UndroppedStep
     DEF NodeIInv
<1>. QED BY <1>1, <1>2, PTL DEF NodeSpec

\* The state of the node and of its session keeps its types; a response names
\* an operation that was started.
THEOREM NodeTypeCorrectness == NodeSpec => []NodeTypeOK
<1>1. NodeIInv => NodeTypeOK
  <2>1. SUFFICES ASSUME NodeIInv PROVE NodeTypeOK
    OBVIOUS
  <2>2. TypeOK BY <2>1, TypesOfInvariant DEF NodeIInv
  <2>3. callNo \in 0..MaxCalls BY <2>1 DEF NodeIInv, IInv, StateTypes
  <2>4. last \in [kind : Kind, call : 0..MaxCalls, success : {"true", "false"}]
    <3>1. last \in [kind : Kind, call : Nat, success : {"true", "false"}] /\ last.call <= callNo
      BY <2>1 DEF NodeIInv, NodeTypes
    <3>2. last.call \in 0..MaxCalls BY <2>3, <3>1, MaxCallsAssumption
    <3>. QED BY <3>1, <3>2
  <2>. QED BY <2>1, <2>2, <2>4 DEF NodeIInv, NodeTypes, NodeTypeOK
<1>. QED BY <1>1, NodeInvariant, PTL

\* PowerAgrees, for any number of requests and every class: after handleSetPower
\* or powerOnAtStartup reported success, the lidar is in the mode asked for,
\* whatever earlier requests left for it to do late; a reported reboot was done,
\* unless the class raises its state itself.
THEOREM PowerAgreesAlways == NodeSpec => []PowerAgrees
<1>1. NodeIInv => PowerAgrees
  BY DEF NodeIInv, LastInv, Carried, Hasty, OperationOf, PreRaised, PowerAgrees
<1>. QED BY <1>1, NodeInvariant, PTL

\* NoThreadLeft, for any number of requests: when a handler returns, the thread
\* of its LidarCtrlDriver was joined or never started.
THEOREM NoThreadLeftAlways == NodeSpec => NoThreadLeft
<1>1. NodeIInv /\ [NodeNext]_allVars
      => [node # "free" /\ node' = "free" => reader = "none" /\ socket # "connected"]_allVars
  <2>1. SUFFICES ASSUME NodeIInv, NodeNext, node # "free", node' = "free"
                 PROVE  reader = "none" /\ socket # "connected"
    OBVIOUS
  <2>2. CASE RespondUnconnected
    BY <2>1, <2>2
    DEF RespondUnconnected, Respond, NodeIInv, Protocol, InitInv, Connecting, Detached
  <2>3. CASE RespondDone
    BY <2>1, <2>3 DEF RespondDone, Respond, NodeIInv, Protocol, UninitInv
  <2>4. ~RespondUnconnected /\ ~RespondDone => FALSE
    BY <2>1
    DEF NodeNext, Accept, Handler, CallOperation, CallUninit, Session, Obey, Drop, Spin, nodeVars,
        requestVars, allVars
  <2>. QED BY <2>2, <2>3, <2>4
<1>. QED BY <1>1, NodeInvariant, PTL DEF NodeSpec, NoThreadLeft

\* CrashNeedsDrop, for any number of requests: no operation reconnects over the
\* thread of init() unless the lidar closed the connection on its own.
THEOREM CrashNeedsDropAlways == NodeSpec => []CrashNeedsDrop
<1>1. NodeIInv => CrashNeedsDrop BY DEF NodeIInv, UndroppedInv, CrashNeedsDrop
<1>. QED BY <1>1, NodeInvariant, PTL
=============================================================================
