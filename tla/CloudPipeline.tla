--------------------------- MODULE CloudPipeline ---------------------------
(***************************************************************************)
(* One SourceDriver (src/src/source/source_driver.hpp) between the vendor  *)
(* driver that decodes packets and the destinations that publish to ROS.   *)
(*                                                                         *)
(* A chain moves one kind of message: the driver thread takes an empty     *)
(* buffer (getPointCloud / getImuData), fills it and hands it over         *)
(* (putPointCloud / putImuData); a processing thread per chain sends it to *)
(* every destination and recycles it.  Two more threads poll the driver:   *)
(* temperature for ever, device information once.  NodeManager registers   *)
(* the destinations, starts the driver and stops it; the threads run from  *)
(* init(), before any destination is registered.                           *)
(*                                                                         *)
(* The vendor driver and SyncQueue are external: a queue operation is one  *)
(* atomic step (it holds the queue's mutex), and the driver calls back     *)
(* only between start() and stop().                                        *)
(***************************************************************************)
EXTENDS Integers, Sequences

CONSTANTS
  Chain,      \* "cloud", and "imu" when ENABLE_IMU_DATA_PARSE is defined
  NDst,       \* destinations NodeManager::init registers
  MaxMsgs     \* bound: messages the driver produces per chain

ASSUME ChainAssumption == Chain \subseteq {"cloud", "imu"} /\ "cloud" \in Chain
ASSUME NDstAssumption == NDst \in Nat
ASSUME MaxMsgsAssumption == MaxMsgs \in Nat

VARIABLES
  freeQ,      \* freeQ[c]: free_point_cloud_queue_ / free_imu_data_queue_
  msgQ,       \* msgQ[c]: point_cloud_queue_ / imu_data_queue_
  allocated,  \* allocated[c]: buffers make_shared has created; their ids are 1..allocated[c]
  content,    \* content[c][b]: number of the message in buffer b, 0 when never filled
  drvBuf,     \* drvBuf[c]: the buffer the driver is filling, or NoBuf
  published,  \* published[c]: messages put so far
  procPc,     \* procPc[c]: where the processing thread of c is
  procBuf,    \* procBuf[c]: the buffer it is sending, or NoBuf
  procDst,    \* procDst[c]: the destination it serves next
  delivered,  \* delivered[c][d]: message numbers destination d was given
  nReg,       \* pc_cb_vec_ holds destinations 1..nReg
  driver,     \* "created", "running" or "stopped"
  difop,      \* the driver has decoded the device information
  tempPc,     \* where pollTemperature is
  infoPc,     \* where pollDeviceInfo is
  infoDst,    \* the destination it serves next
  infoSent,   \* infoSent[d]: times destination d was given the device information
  toExit,     \* to_exit_process_
  stopPc,     \* where stop() is
  nJoined     \* threads of JoinOrder already joined: no longer joinable

chainVars == <<freeQ, msgQ, allocated, content, drvBuf, published>>
procVars  == <<procPc, procBuf, procDst, delivered>>
pollVars  == <<tempPc, infoPc, infoDst, infoSent>>
ctlVars   == <<nReg, driver, difop, toExit, stopPc, nJoined>>
vars == <<chainVars, procVars, pollVars, ctlVars>>

NoBuf == 0
Dst == 1..NDst
\* ids of buffers; each message needs at most one new buffer
Buf == 1..MaxMsgs

\* The order in which stop() joins.
JoinOrder ==
  IF "imu" \in Chain THEN <<"cloud", "imu", "temperature", "deviceInfo">>
                     ELSE <<"cloud", "temperature", "deviceInfo">>

Init ==
  /\ freeQ = [c \in Chain |-> <<>>]
  /\ msgQ = [c \in Chain |-> <<>>]
  /\ allocated = [c \in Chain |-> 0]
  /\ content = [c \in Chain |-> [b \in Buf |-> 0]]
  /\ drvBuf = [c \in Chain |-> NoBuf]
  /\ published = [c \in Chain |-> 0]
  /\ procPc = [c \in Chain |-> "check"]
  /\ procBuf = [c \in Chain |-> NoBuf]
  /\ procDst = [c \in Chain |-> 1]
  /\ delivered = [c \in Chain |-> [d \in Dst |-> <<>>]]
  /\ nReg = 0
  /\ driver = "created"
  /\ difop = FALSE
  /\ tempPc = "sleep"
  /\ infoPc = "check"
  /\ infoDst = 1
  /\ infoSent = [d \in Dst |-> 0]
  /\ toExit = FALSE
  /\ stopPc = "idle"
  /\ nJoined = 0

-----------------------------------------------------------------------------
(* NodeManager: registration, then start. *)

\* Source::regPointCloudCallback, called by NodeManager::init per destination.
regPointCloudCallback ==
  /\ driver = "created"
  /\ nReg < NDst
  /\ nReg' = nReg + 1
  /\ UNCHANGED <<chainVars, procVars, pollVars, driver, difop, toExit, stopPc, nJoined>>

\* Mutant: started while destinations are still being registered.
StartsEarly == driver = "created"

\* NodeManager::init registers every destination before main calls start.
MayStart == driver = "created" /\ nReg = NDst

start ==
  /\ MayStart
  /\ driver' = "running"
  /\ UNCHANGED <<chainVars, procVars, pollVars, nReg, difop, toExit, stopPc, nJoined>>

-----------------------------------------------------------------------------
(* The driver thread: it fills one buffer of each chain at a time. *)

\* getPointCloud / getImuData: a recycled buffer if there is one, else a new one.
TakeBuffer(c) ==
  IF freeQ[c] # <<>>
  THEN /\ drvBuf' = [drvBuf EXCEPT ![c] = Head(freeQ[c])]
       /\ freeQ' = [freeQ EXCEPT ![c] = Tail(@)]
       /\ UNCHANGED allocated
  ELSE /\ drvBuf' = [drvBuf EXCEPT ![c] = allocated[c] + 1]
       /\ allocated' = [allocated EXCEPT ![c] = @ + 1]
       /\ UNCHANGED freeQ

getBuffer(c) ==
  /\ driver = "running"
  /\ drvBuf[c] = NoBuf
  /\ published[c] < MaxMsgs
  /\ TakeBuffer(c)
  /\ UNCHANGED <<msgQ, content, published, procVars, pollVars, ctlVars>>

\* The driver decodes a message into its buffer, over whatever it held.
Fill(c) ==
  /\ driver = "running"
  /\ drvBuf[c] # NoBuf
  /\ content[c][drvBuf[c]] # published[c] + 1
  /\ content' = [content EXCEPT ![c][drvBuf[c]] = published[c] + 1]
  /\ UNCHANGED <<freeQ, msgQ, allocated, drvBuf, published, procVars, pollVars, ctlVars>>

\* putPointCloud / putImuData.
putBuffer(c) ==
  /\ driver = "running"
  /\ drvBuf[c] # NoBuf
  /\ content[c][drvBuf[c]] = published[c] + 1
  /\ msgQ' = [msgQ EXCEPT ![c] = Append(@, drvBuf[c])]
  /\ drvBuf' = [drvBuf EXCEPT ![c] = NoBuf]
  /\ published' = [published EXCEPT ![c] = @ + 1]
  /\ UNCHANGED <<freeQ, allocated, content, procVars, pollVars, ctlVars>>

\* The driver decodes a DIFOP packet that carries the device information.
DecodeDifop ==
  /\ driver = "running"
  /\ ~difop
  /\ difop' = TRUE
  /\ UNCHANGED <<chainVars, procVars, pollVars, nReg, driver, toExit, stopPc, nJoined>>

-----------------------------------------------------------------------------
(* processPointCloud / processImuData *)

\* while (!to_exit_process_)
ProcCheck(c) ==
  /\ procPc[c] = "check"
  /\ procPc' = [procPc EXCEPT ![c] = IF toExit THEN "done" ELSE "pop"]
  /\ UNCHANGED <<chainVars, procBuf, procDst, delivered, pollVars, ctlVars>>

\* Mutant: the buffer goes back to the free queue before it is sent.
RecyclesAtPop(c) ==
  /\ procPc[c] = "pop"
  /\ msgQ[c] # <<>>
  /\ procBuf' = [procBuf EXCEPT ![c] = Head(msgQ[c])]
  /\ freeQ' = [freeQ EXCEPT ![c] = Append(@, Head(msgQ[c]))]
  /\ msgQ' = [msgQ EXCEPT ![c] = Tail(@)]
  /\ procDst' = [procDst EXCEPT ![c] = 1]
  /\ procPc' = [procPc EXCEPT ![c] = "send"]
  /\ UNCHANGED <<allocated, content, drvBuf, published, delivered, pollVars, ctlVars>>

\* Mutant: only the newest message is kept when several wait.
PopsNewest(c) ==
  /\ procPc[c] = "pop"
  /\ msgQ[c] # <<>>
  /\ procBuf' = [procBuf EXCEPT ![c] = msgQ[c][Len(msgQ[c])]]
  /\ msgQ' = [msgQ EXCEPT ![c] = <<>>]
  /\ procDst' = [procDst EXCEPT ![c] = 1]
  /\ procPc' = [procPc EXCEPT ![c] = "send"]
  /\ UNCHANGED <<freeQ, allocated, content, drvBuf, published, delivered, pollVars, ctlVars>>

\* popWait: a message, or NULL when its wait ends with the queue empty.
ProcPop(c) ==
  /\ procPc[c] = "pop"
  /\ IF msgQ[c] # <<>>
     THEN /\ procBuf' = [procBuf EXCEPT ![c] = Head(msgQ[c])]
          /\ msgQ' = [msgQ EXCEPT ![c] = Tail(@)]
          /\ procDst' = [procDst EXCEPT ![c] = 1]
          /\ procPc' = [procPc EXCEPT ![c] = "send"]
     ELSE /\ procPc' = [procPc EXCEPT ![c] = "check"]
          /\ UNCHANGED <<procBuf, msgQ, procDst>>
  /\ UNCHANGED <<freeQ, allocated, content, drvBuf, published, delivered, pollVars, ctlVars>>

\* Mutant: the loop runs once past the last destination.
OneDestinationMore(c) == procDst[c] <= nReg + 1

\* The loop over pc_cb_vec_ has a destination left.
MoreDestinations(c) == procDst[c] <= nReg

\* One iteration of sendPointCloud / sendImuData: the destination copies the
\* buffer while it publishes.
ProcSend(c) ==
  /\ procPc[c] = "send"
  /\ MoreDestinations(c)
  /\ delivered' = [delivered EXCEPT ![c][procDst[c]] = Append(@, content[c][procBuf[c]])]
  /\ procDst' = [procDst EXCEPT ![c] = @ + 1]
  /\ UNCHANGED <<chainVars, procPc, procBuf, pollVars, ctlVars>>

\* Mutant: the buffer is dropped instead of recycled.
DropsBuffer(c) ==
  /\ procPc[c] = "send"
  /\ ~MoreDestinations(c)
  /\ procBuf' = [procBuf EXCEPT ![c] = NoBuf]
  /\ procPc' = [procPc EXCEPT ![c] = "check"]
  /\ UNCHANGED <<freeQ, msgQ, allocated, content, drvBuf, published, procDst, delivered, pollVars, ctlVars>>

\* Every destination has been served: the buffer goes to the free queue.
ProcRecycle(c) ==
  /\ procPc[c] = "send"
  /\ ~MoreDestinations(c)
  /\ freeQ' = [freeQ EXCEPT ![c] = Append(@, procBuf[c])]
  /\ procBuf' = [procBuf EXCEPT ![c] = NoBuf]
  /\ procPc' = [procPc EXCEPT ![c] = "check"]
  /\ UNCHANGED <<msgQ, allocated, content, drvBuf, published, procDst, delivered, pollVars, ctlVars>>

Proc(c) == ProcCheck(c) \/ ProcPop(c) \/ ProcSend(c) \/ ProcRecycle(c)

-----------------------------------------------------------------------------
(* pollTemperature and pollDeviceInfo *)

\* The sleep of one second ends, or ends early because the source stops.
TempSleep ==
  /\ tempPc = "sleep"
  /\ tempPc' = IF toExit THEN "done" ELSE "read"
  /\ UNCHANGED <<chainVars, procVars, infoPc, infoDst, infoSent, ctlVars>>

\* getTemperature fails or succeeds; sendTemperature serves the destinations.
TempSend ==
  /\ tempPc = "read"
  /\ tempPc' = "sleep"
  /\ UNCHANGED <<chainVars, procVars, infoPc, infoDst, infoSent, ctlVars>>

\* Mutant: the thread waits for the device information whatever happens.
IgnoresExit ==
  /\ infoPc = "check"
  /\ infoPc' = "poll"
  /\ UNCHANGED <<chainVars, procVars, tempPc, infoDst, infoSent, ctlVars>>

InfoCheck ==
  /\ infoPc = "check"
  /\ infoPc' = IF toExit THEN "done" ELSE "poll"
  /\ UNCHANGED <<chainVars, procVars, tempPc, infoDst, infoSent, ctlVars>>

\* The sleep of 100 ms ends and getDeviceInfo is asked; to_exit_process_ is
\* not read between the two.
InfoPoll ==
  /\ infoPc = "poll"
  /\ infoPc' = IF difop THEN "send" ELSE "check"
  /\ UNCHANGED <<chainVars, procVars, tempPc, infoDst, infoSent, ctlVars>>

\* One iteration of sendDeviceInfo; the thread returns after the last one.
InfoSend ==
  /\ infoPc = "send"
  /\ IF infoDst <= nReg
     THEN /\ infoSent' = [infoSent EXCEPT ![infoDst] = @ + 1]
          /\ infoDst' = infoDst + 1
          /\ UNCHANGED infoPc
     ELSE /\ infoPc' = "done"
          /\ UNCHANGED <<infoSent, infoDst>>
  /\ UNCHANGED <<chainVars, procVars, tempPc, ctlVars>>

Temp == TempSleep \/ TempSend
Info == InfoCheck \/ InfoPoll \/ InfoSend

-----------------------------------------------------------------------------
(* stop(): NodeManager's destructor calls it, then ~SourceDriver again. *)

\* The function of thread t has returned.
ThreadDone(t) ==
  /\ t = "temperature" => tempPc = "done"
  /\ t = "deviceInfo" => infoPc = "done"
  /\ t \in Chain => procPc[t] = "done"

\* driver_ptr_->stop(): no callback runs once it returns.
StopDriver ==
  /\ stopPc \in {"idle", "returned"}
  /\ driver # "created"
  /\ driver' = "stopped"
  /\ stopPc' = "setExit"
  /\ UNCHANGED <<chainVars, procVars, pollVars, nReg, difop, toExit, nJoined>>

\* to_exit_process_ = true
SetExit ==
  /\ stopPc = "setExit"
  /\ toExit' = TRUE
  /\ stopPc' = "join"
  /\ UNCHANGED <<chainVars, procVars, pollVars, nReg, driver, difop, nJoined>>

\* Mutant: the last thread of JoinOrder is left running.
ForgetsLast == nJoined + 2 = Len(JoinOrder)

\* The join in progress is the last one of stop().
LastJoin == nJoined + 1 = Len(JoinOrder)

\* join() waits for the thread's function to return.
Join ==
  /\ stopPc = "join"
  /\ nJoined < Len(JoinOrder)
  /\ ThreadDone(JoinOrder[nJoined + 1])
  /\ nJoined' = nJoined + 1
  /\ stopPc' = IF LastJoin THEN "returned" ELSE "join"
  /\ UNCHANGED <<chainVars, procVars, pollVars, nReg, driver, difop, toExit>>

\* The second stop() joins a thread that is no longer joinable: join throws
\* std::system_error, nothing catches it and the process ends in std::terminate.
JoinAgain ==
  /\ stopPc = "join"
  /\ nJoined = Len(JoinOrder)
  /\ stopPc' = "terminated"
  /\ UNCHANGED <<chainVars, procVars, pollVars, nReg, driver, difop, toExit, nJoined>>

Stop == StopDriver \/ SetExit \/ Join \/ JoinAgain

\* The process has ended.
Ended == stopPc = "terminated" /\ UNCHANGED vars

-----------------------------------------------------------------------------
DriverStep(c) == getBuffer(c) \/ Fill(c) \/ putBuffer(c)

Next ==
  \/ regPointCloudCallback \/ start \/ DecodeDifop
  \/ \E c \in Chain : DriverStep(c) \/ Proc(c)
  \/ Temp \/ Info \/ Stop \/ Ended

Spec == Init /\ [][Next]_vars

\* The processing and polling threads and stop() itself keep running once they
\* have something to do; nothing obliges the driver to produce messages or the
\* process to stop.
Fairness ==
  /\ \A c \in Chain : WF_vars(Proc(c))
  /\ WF_vars(Temp) /\ WF_vars(Info)
  /\ WF_vars(SetExit \/ Join)

FairSpec == Spec /\ Fairness

-----------------------------------------------------------------------------
ChainTypes ==
  /\ freeQ \in [Chain -> Seq(Buf)]
  /\ msgQ \in [Chain -> Seq(Buf)]
  /\ allocated \in [Chain -> Nat]
  /\ content \in [Chain -> [Buf -> Nat]]
  /\ drvBuf \in [Chain -> Buf \cup {NoBuf}]
  /\ published \in [Chain -> 0..MaxMsgs]

ProcTypes ==
  /\ procPc \in [Chain -> {"check", "pop", "send", "done"}]
  /\ procBuf \in [Chain -> Buf \cup {NoBuf}]
  /\ procDst \in [Chain -> 1..(NDst + 1)]
  /\ delivered \in [Chain -> [Dst -> Seq(Nat)]]

PollTypes ==
  /\ tempPc \in {"sleep", "read", "done"}
  /\ infoPc \in {"check", "poll", "send", "done"}
  /\ infoDst \in 1..(NDst + 1)
  /\ infoSent \in [Dst -> Nat]

CtlTypes ==
  /\ nReg \in 0..NDst
  /\ driver \in {"created", "running", "stopped"}
  /\ difop \in BOOLEAN
  /\ toExit \in BOOLEAN
  /\ stopPc \in {"idle", "setExit", "join", "returned", "terminated"}
  /\ nJoined \in 0..Len(JoinOrder)

TypeOK == ChainTypes /\ ProcTypes /\ PollTypes /\ CtlTypes

\* No position of q repeats a buffer.
Distinct(q) == \A i, j \in DOMAIN q : q[i] = q[j] => i = j

Apart(q, r) == \A i \in DOMAIN q, j \in DOMAIN r : q[i] # r[j]

Outside(b, q) == \A i \in DOMAIN q : q[i] # b

\* A buffer is in one place at a time - a queue, the driver or the processing
\* thread - so the driver never fills a cloud that is waiting or being
\* published, and no buffer is handed out twice.
SingleOwner ==
  \A c \in Chain :
    /\ Distinct(freeQ[c]) /\ Distinct(msgQ[c]) /\ Apart(freeQ[c], msgQ[c])
    /\ drvBuf[c] # NoBuf =>
         /\ Outside(drvBuf[c], freeQ[c]) /\ Outside(drvBuf[c], msgQ[c])
         /\ drvBuf[c] # procBuf[c]
    /\ procBuf[c] # NoBuf =>
         Outside(procBuf[c], freeQ[c]) /\ Outside(procBuf[c], msgQ[c])

Held(b) == IF b = NoBuf THEN 0 ELSE 1

\* Recycling loses no buffer: each one make_shared created is in a queue or in
\* a thread's hands, so the pool grows only to what was in flight at once.
NoBufferLost ==
  \A c \in Chain :
    allocated[c] = Len(freeQ[c]) + Len(msgQ[c]) + Held(drvBuf[c]) + Held(procBuf[c])

\* The threads run before a destination is registered, yet device information
\* reaches every destination, exactly once, when its thread ends having sent any.
DeviceInfoToAll ==
  /\ \A d \in Dst : infoSent[d] <= 1
  /\ infoPc = "done" /\ (\E d \in Dst : infoSent[d] > 0) => \A d \in Dst : infoSent[d] = 1

\* When stop() returns, no thread that calls a destination is left.
QuietAfterStop ==
  stopPc \in {"returned", "terminated"} =>
    /\ driver = "stopped"
    /\ tempPc = "done" /\ infoPc = "done"
    /\ \A c \in Chain : procPc[c] = "done"

\* "RoboSense-LiDAR-Driver is stopping....." (rslidar_sdk_node.cpp:54): the node
\* stops; it does not end in std::terminate.
NoTerminate == stopPc # "terminated"

\* What a destination has seen is an abstract delivery: in order, unchanged,
\* without repetition or gaps.
Abstract == INSTANCE CloudDelivery
DeliversInOrder == Abstract!Spec

\* A message put while the source runs reaches every destination, unless the
\* source is stopped first: again and again nothing is waiting (the driver puts
\* at most MaxMsgs, so none can wait for ever behind newer ones).
EveryMessageSent ==
  []<>(toExit \/ \A c \in Chain, d \in Dst : Len(delivered[c][d]) = published[c])

\* stop() terminates: every join is eventually satisfied.
StopReturns == stopPc = "setExit" /\ ~toExit ~> stopPc = "returned"
=============================================================================
