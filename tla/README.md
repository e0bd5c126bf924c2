# A TLA+ model of rslidar_sdk

This directory models the concurrent core of `rslidar_sdk`: the pipeline that
moves point clouds from the vendor driver to ROS publishers, the process around
it, the control driver (`rs_ctrl_driver`) from the framing of its byte stream up
to the operations of its library and the ROS node built on it, and the de-skew
node. TLC checks the models on small instances; TLAPS proves safety properties
for every value of the constants. `PROJECT.json` lists the components, the runs,
the source lines each definition stands for, the hazards and the findings.

    tlc -workers 2 -config MCCloudPipeline.cfg MCCloudPipeline.tla
    tlapm CloudPipeline_proofs.tla

and likewise for the other `MC*.cfg` and `*_proofs.tla`.

## 1. The system

Three executables share little code:

* `rslidar_sdk_node` reads a YAML file and lets `NodeManager` build, per lidar,
  one `Source` and the destinations registered with it. Online lidars, PCAP
  files and ROS packets are a `SourceDriver`, which wraps the vendor driver
  `rs_driver` (a git submodule, absent from this commit).
* `rslidar_ctrl_node` powers a lidar on at startup and offers the services
  `/rslidar/reboot` and `/rslidar/set_power`, through `LidarCtrlDriver`.
* `rslidar_deskew_node` subscribes to clouds, looks up the sensor's poses during
  the sweep and corrects the motion of the sensor within one revolution.

### Components

| component | state | operations | what makes it correct |
|---|---|---|---|
| `SourceDriver` (source_driver.hpp) | per message kind a free queue, a message queue and a thread; two polling threads; `to_exit_process_`; `pc_cb_vec_` | get/put callbacks of the driver, four thread loops, `start`, `stop` | one owner per buffer, none lost; in order, once, to every destination; `stop` ends and leaves no thread |
| `NodeManager` | `sources_` | `init`, `start`, `stop`, destructor | destinations registered before start; stopped once |
| `TcpCom`, connection (tcp_com.cpp) | socket, io_service, `ptr_thread_`, `flag_thread_run_`, `m_netOK` | `connect`, `disconnect`, `isConnected`, `slotReadTCPData` | the reading thread never outlives its socket and is joined before it is replaced; `disconnect` returns |
| `TcpCom`, exchange | `m_usedCom` | about 50 operations: build, `sendData`, extract | TRUE means this request was carried out; the payload is its own |
| `AiryCom`, `Ruby4Com`, `HeliosCom`, `MemsCom`, `LidarBase` | `read_write_state_`, `reg_back_data_`, receive buffer | one builder per operation, `ParseRecvTcpData`, `xxxResult` | every builder's state is raised by the handler of its reply, and by nothing else that matters |
| `LidarCtrlDriver` | a `TcpCom` behind a `void*` | `init`, `uninit`, one method per operation | as `TcpCom` |
| `RslidarCtrlNode` | parameters only | startup, `handleReboot`, `handleSetPower` | success means the lidar is in that state; every request is answered; the node survives a failed call |
| update and log transfer (tcp_com.cpp) | file chunks, log pieces | `update`, `readEventLog`, ... | TRUE means every piece, in order; every call returns |
| `fixRegsCfg` | none | registers from a text file | TRUE means every register is with the lidar |
| `rslidar_sdk_node` main | condition variable, signal handler | SIGINT, shutdown | a signal that is heard ends the node; all sources stop before one is destroyed |
| `SourcePacketRos`, `DestinationPacketRos`, `DestinationPointCloudRos` | a spin thread; publishers | conversions | stamps and fields converted without loss |
| de-skew node | buffer of transforms | `onCloud`, the listener's thread | every cloud published once; each row moved by the pose of its time |

### Interactions

The driver thread calls `getPointCloud` and `putPointCloud`; `putPointCloud`
wakes the processing thread through `SyncQueue`; that thread calls each
destination in turn, and the buffer goes back to the free queue. The threads run
from `SourceDriver::init`, *before* any destination is registered. Shutdown is
`NodeManager`'s destructor: `stop` on each source, then the source's destructor.

A control operation runs in its caller's thread: `LidarCtrlDriver` asks
`isConnected`, connects if not, and calls `TcpCom`, whose builder packs a request
and lowers the flag its reply is to raise; `sendData` writes the request and
polls the flag every 10 ms; `xxxResult` reads `reg_back_data_`. The reading
thread parses replies, fills `reg_back_data_` and raises flags. The two threads
share flags and buffer without a lock, and nothing in a reply identifies its
request.

### What is hard

* buffers recycled across three threads, while `stop` may come at any moment;
* `to_exit_process_`, `m_netOK` and `read_write_state_` are read and written by
  two threads with no synchronisation but time;
* a reply may come after its call has given up, be refused by the lidar, or be
  of a command whose handler falls through to another one;
* the lidar may close or reboot at any point of a session, and a call that finds
  the connection lost reconnects over a thread nobody has joined;
* four hand-written command tables, builders against handlers, must agree;
* frames are cut by TCP anywhere, may be damaged, and claim their own length;
* operations of several exchanges may fail in the middle.

`PROJECT.json` lists each hazard at its line with the properties that watch it,
or the reason why none does.

## 2. The modules

| module | models | role |
|---|---|---|
| `CloudDelivery` | what a source promises its destinations | abstract |
| `CloudPipeline` | `SourceDriver`, and `NodeManager`'s use of one | detailed; implements `CloudDelivery` |
| `NodeMain` | `main`, `NodeManager` and the life of several sources, the interrupt | one process |
| `LidarCommands` | the command tables of the four protocol classes | operators |
| `FrameParser` | `ParseRecvTcpData`'s framing loop, per family of classes | one component |
| `RequestReply` | what a caller of an operation may rely on | abstract |
| `CommandExchange` | caller, reading thread and lidar while connected | detailed; implements `RequestReply` when replies are prompt |
| `DriverOperations` | `LidarCtrlDriver`'s operations over `CommandExchange` (which it EXTENDS) | composition |
| `LogTransfer` | one request answered in many pieces | one component |
| `TcpSession` | `TcpCom`'s connection life cycle behind `LidarCtrlDriver` | one component |
| `CtrlNode` | `RslidarCtrlNode` over `TcpSession` (which it EXTENDS) | composition |
| `DeskewNode` | `rslidar_deskew_node` | one process |
| `..._proofs` | | theorems, section 6 |
| `MC...` | | instances for TLC |

Each definition keeps the name of the function it stands for where it has one.
Definitions introduced by `\* Mutant:` are altered versions of a neighbouring
definition; no behaviour uses them. They exist to confirm that a property fails
when the code is wrong in that way.

**CloudPipeline.** `Chain` is `{"cloud"}` or `{"cloud", "imu"}`, the latter when
`ENABLE_IMU_DATA_PARSE` is defined. Buffers are numbered in the order
`make_shared` creates them, and `content` says which message a buffer holds, so
that an early recycling shows as a changed message. `getBuffer`, `Fill` and
`putBuffer` are the driver's side, `Proc` the processing loop (one action per
check of the exit flag, pop, destination served, recycling), `Temp` and `Info`
the two polling loops, `Stop` the steps of `stop()`, each `join` a step that
waits for that thread's function to return. `Init` is the state `init()` leaves.

**NodeMain** follows `main` through its loops over the sources: `MakeSource`,
`StartSource`, `StopSource`, `DestroySource`, one source per step. `Interrupt` is
the signal handler at any moment: under ROS 1 it calls `ros::shutdown`, which
lasts; under ROS 2 it notifies a condition variable on which `main` waits without
a predicate, so it is heard only by a `main` that is asleep, and `WakeUp` may
come without it. A source of packets has a spin thread besides (`spinning`),
which nobody joins.

**LidarCommands** is a transcription of tables: per class the requests
(operation, command, awaited flag) and the acknowledgements (command, flag
raised), in sets grouped as the source files are, and the irregularities of
single functions (`PreRaised`, `MissingReturn`, `IgnoresReply`, ...).

**FrameParser.** The stream is a sequence of cells; a cell that starts a frame
says what length it claims and whether its check (CRC, or that of the header) is
right. `Read` is `read_some` with any number of cells, and `Skip`, `Incomplete`,
`WrongCrc`, `WrongHeader` and `Handle` are the branches of the loop. AiryCom and
Ruby4Com check the whole frame, HeliosCom and MemsCom the header.

**CommandExchange.** `Begin` is the builder and the write, `Poll` and `Timeout`
are the loop of `sendData`, `Extract` is `xxxResult`; `Store` and `Dispatch` are
the two halves of parsing a frame, between which the caller may run.

**DriverOperations** gives every operation of `LidarCtrlDriver` a script of
exchanges: one for most; read-change-write for the configuration setters;
repeated writes for the laser; request, chunks and checksum for `update`; blocks
for `fixRegsCfg`. `NextExchange` begins the next one, `Finish` returns, and the
lidar (`Obey`) keeps what the requests write. A setting holds the number of the
operation that set it, and a file is the sequence of its units.

**LogTransfer** splits the copy into `reg_back_data_` and the copy out of it into
head and body, because no lock holds them together. `Available`, `KeepsHead`,
`LowerState` and `Extent` are where the classes differ. An entry of `log` is one
copy of a getter: where its header and its body are from, how far it reaches
(`extent`) and whether it was made `again` and again, which stands for any number
of equal copies in a row. HeliosCom copies the whole piece; AiryCom inserts
`[5, dataLen)` of a frame whose data end at `5 + dataLen` (airy_com.cpp:1565, 1632,
1684, 1723), so its copies are `"cut"` by five bytes; Ruby4Com takes its length from
the command and the response code (ruby4_com.cpp:1359), so its copies are of a
`"fixed"` number of bytes whatever the piece holds. `turn` is auxiliary: it follows
the piece sent last until a getter that began after its state was raised returns.

**TcpSession** keeps one object's `socket`, `service`, `run`, `netOK` and the
state of its thread, and the lidar's end of the connection. A connection attempt
is `connect`, `Resolve`, then `ConnectFails` or `ConnectOk`, then `SetNetOK`, with
the reading thread running in between. Crashes are states: `"terminate"` when a
joinable thread is discarded, `"null"` when a released io_service is dereferenced.
`builder` is what the protocol class makes of the awaited state: it lowers it,
raises it (`HeliosCom::rebootLidar`), or refuses to build. `backlog` holds requests
of connections that ended, which the lidar carries out late (`CatchUp`) or loses.

**CtrlNode** adds the handler's steps, a new object per request, the protocol
class of the configured lidar type (`family`, with the tables of `LidarCommands`),
and the lidar's work mode. Its `raised` starts anew with every object because the memory is not
initialised.

**DeskewNode** has the steps of `onCloud`: the wait for the end of the sweep, the
lookups of the reference and of every knot, and the ways out. Times are relative
to the sweep, in rows; a pose is the time it is of, so an interpolated one is of a
time between. `KnotTime` and `AppliedTime` are the arithmetic, in integers.

## 3. The environment

What the code does not contain is assumed, in favour of no particular outcome:

* a `SyncQueue` operation is atomic; the driver calls back only between `start`
  and the return of `stop`, on one thread per chain; `popWait` may return NULL
  whenever the queue is empty;
* TCP keeps order and cuts the stream anywhere; the lidar serves one connection
  at a time, in the order it accepted them. Requests of a connection that ended
  are carried out late, before anything of the next one, or are lost. Without that
  order nothing could be said of a lidar's mode after an answer;
* the lidar carries requests out in order, or ignores them (`Faults`), or, in
  frames that have a response code, refuses them. In `CtrlNode` it obeys, and the
  timing is free. `CrashNeedsDrop` tells connections it closes for a reboot that
  was asked for on them from those it closes otherwise (`dropped`), which
  includes a reboot that an earlier connection asked for and that comes late;
* connection attempts end (2 s deadline; the ping before them is a stub that
  always succeeds). `read_some` may fail any number of times (`ReadError`), and
  when the socket is shut down the stream ends in EOF;
* a function that ends without `return` refuses or crashes, in a Release build
  with `-O3`, CMakeLists.txt's default; an uninitialised flag has either value;
* `to_exit_process_` and `flag_thread_run_` are plain or unsynchronised flags,
  but each loop calls opaque functions, so a change is seen sooner or later;
* a timeout may fire at any poll. `Prompt = TRUE` restricts this: replies that
  will come at all come before their call gives up. A `paced` lidar in
  `LogTransfer` leaves time, after a piece is there, for one call of the getter,
  whatever that copies; the user asks for the next log when nothing is under way,
  and pieces have at least the nine bytes of data that reach the header;
* the buffer of transforms covers an interval of time, which may grow and be
  forgotten from its old end at any moment; in `RowsOnTime` rows are captured at
  an even rate.

## 4. Runs

| run | bounds | shows |
|---|---|---|
| `cloud` | 2 chains, 2 destinations, 2 messages per chain | `SingleOwner`, `NoBufferLost`, `DeviceInfoToAll`, `QuietAfterStop`; implements `CloudDelivery` (`DeliversInOrder`); `EveryMessageSent`, `StopReturns` |
| `cloud_twice` | 1 chain, 1 destination, 1 message | *violation*: `NoTerminate` |
| `main` | 0 to 3 lidars, 2 interrupts, ROS 1 and 2 | `AllOrNone`, `QuietAtEnd`, `EndsWhenAsked` |
| `frames` | streams of up to 3 frames, good, damaged or misleading | `HandledApart`, `NoneLost`, `NoneWaiting`, `ParseReturns` |
| `exchange` | all four classes, every operation, 2 in a row, prompt, lidar may ignore; images of 3 and 4 units in chunks of 2 | implements `RequestReply` (`ConfirmedWereDone`), `OwnPayload`, `CarriedOutSucceeds`, `TrueMeansWritten`, `SettingsKept`, `TasksReturn` |
| `exchange_late` | the operations that share flags and one whose builder may not return, 3 calls, any timing, refusals | `OneReplyOneSuccess` |
| `logs` | AiryCom and HeliosCom, 2 logs of up to 3 pieces, paced or not | `LogInOrder`, `CallEnds` |
| `logs_monitor` | one AiryCom monitor log of 2 pieces | *violation*: `LogEnds` |
| `node` | 3 requests, AiryCom, HeliosCom and MemsCom, connections lost and reads failing at any moment | `ReaderHasSocket`, `CrashNeedsMisuse`, `PowerAgrees`, `CrashNeedsDrop`, `NoThreadLeft`, `RequestAnswered` |
| `node_dropped` | 1 request | *violation*: `NeverCrashes` |
| `deskew_slow` | 1 cloud, knots every 2 rows | *violation*: `EarlierKnotsToo` |
| `deskew` | 2 clouds of up to 5 rows, knots every 2 or 3 rows, stamps usable everywhere or in part, sweeps on time, late or slow | `NoneDropped`, `SkewedForCause`, `RowsOnTime`, `CloudAnswered` |

Most passing runs also check their module's type invariant.

*Why the bounds are enough to see the interesting cases.* Two messages let one
buffer be filled while the other is published and make recycling happen. Two
destinations make a loop with a middle. Chains share nothing but the exit flag,
the destinations and `stop`, so two show their interference; that order is kept
for any number is proved. Three lidars give a loop a first, a middle and a last
source. Three frames let one stand in what another claims and a third follow. Two
operations are enough for something of the first to fall into the second, three
late calls for a reply to meet two. Images of 3 and 4 units with chunks of 2 have a
short last chunk and none. Three requests let the first leave something behind that
the second loses and the third trips over. A log of three pieces has a first, a
middle and a last; a second log finds what the first left. Five rows are no
multiple of 2 or 3, four are one of 2.

*Fairness.* Weak fairness of each processing and polling thread and of `stop`'s
own steps: the loops never block for ever, `popWait` and the sleeps are bounded, and
a destination's publish call returns. `NodeMain`: `main` runs, and a wait that was
notified ends; one that was not may last for ever. `CtrlNode`: a handler that began
goes on, waits are bounded, the reading thread runs, but no read error has to come
or to end. `FrameParser`: parsing goes on, nothing obliges the lidar to send.
`DriverOperations` and `LogTransfer` add that the lidar deals with what it is
sent, or falls silent. `DeskewNode`: the callback runs, no transform has to come.
No fairness of the driver, of the user, of clients, or of the lidar closing or
answering in a session.

*What holds weakly.* With late replies a call may be confirmed by the reply of an
earlier one: what remains is `OneReplyOneSuccess`, each reply confirms at most
one. `ConfirmedWereDone` is a promise for prompt replies. `LogInOrder` is exact
for HeliosCom. For the other classes it says which pieces the log has copies of and
in which order, not that a piece is whole: none is, and copies of two pieces mixed
stand in between. `RowsOnTime` is exact for knots and the rows between two; rows
after the last full interval are moved by a pose that is too early, and a stamped
cloud of one row - a cloud that is not organised - as a whole by the pose of its
first usable point.

*Named exceptions.* Where the code breaks its own promise in one function, the
property names that function, so that it says something of all the others. Each is
a defect, or close to one, that no run of its own reports:

* `Unrecognised`: six exchanges fail though the lidar carried them out, because
  the reply raises another state than the one awaited, or none: `SetLidarFov` of
  Ruby4Com, the three update requests of AiryCom, and `GetLidarConfig` and
  `SetLidarConfig` of MemsCom (`CarriedOutSucceeds`);
* `MissingReturn`: `getReadRegSendData` of HeliosCom and MemsCom ends without a
  return statement;
* a command the lidar refuses returns TRUE: handlers raise the state whatever the
  response code (airy_com.cpp:189), against lidar_ctrl_driver.hpp:84, "If successful,
  return true; else return false". `ConfirmedWereDone` is therefore about a lidar
  that refuses nothing. Only the update handlers of AiryCom and Ruby4Com look at the
  code; `Dispatch` lets a refusal raise their states too, which is more than the
  code does and costs nothing that is checked;
* `IgnoresReply`, `IgnoresResult`: TRUE whatever came back (`SetLidarNetInfo`,
  `getUpdateStatus`, ...);
* the blocks of 459 registers (`fix.459`): a parenthesis closed too early turns the
  condition into a comma expression that is always true (tcp_com.cpp:1985), so a
  failed block counts as written. `TrueMeansWritten` leaves them out;
* `PreRaised`: `HeliosCom::rebootLidar` raises the state it waits for
  (helios_com.cpp:1066). The node's success after a Helios reboot means that the
  request was handed to the socket; "Reboot command sent" (rslidar_ctrl_node.cpp:97) is
  what its response says. `PowerAgrees` promises for that one case no more;
* `closeLaser` may return TRUE after its last round though the register it read
  says that the laser is on, and ends after one round when it was off before.

## 5. Findings

1. `SourceDriver::stop` runs twice at shutdown (`~NodeManager`, then
   `~SourceDriver`) and joins without asking `joinable()`; the second join
   throws out of a destructor (run `cloud_twice`). In `NodeMain` it is how every
   process with a source ends.
2. An operation that finds the connection lost reconnects and destroys a
   joinable `std::thread`: the control node ends in `std::terminate` where it
   logs that it means to go on (run `node_dropped`). `CrashNeedsDrop` and
   `CrashNeedsMisuse` show that nothing else brings it down.
3. A monitor log of AiryCom or Ruby4Com of more than one piece is read for ever:
   `readMonitorLog` compares the header of the first piece on every poll, and no
   poll ever fails (run `logs_monitor`). `CallEnds` says exactly when a call does
   not return.
4. The de-skew node waits for the end of a sweep of `sweep_duration` and takes it
   that "every earlier knot is too" there (rslidar_deskew_node.cpp:163), while
   per-point stamps are to be "robust to any change of scan rate" (:32). A slower
   sweep has stamps after that end: their poses are looked up without waiting, and
   the cloud passes unchanged although its sweep, as the node computes it, is
   covered (run `deskew_slow`). `SkewedForCause` says that nothing else is to blame.

## 6. Proofs

`CloudPipeline_proofs` proves, for every `Chain` with `"cloud"` in it and every
natural `NDst` and `MaxMsgs` (the named assumptions of `CloudPipeline`):

    Invariant              Spec => []IInv
    TypeCorrectness        Spec => []TypeOK
    SingleOwnerAlways      Spec => []SingleOwner
    NoBufferLostAlways     Spec => []NoBufferLost
    DeviceInfoToAllAlways  Spec => []DeviceInfoToAll
    QuietAfterStopAlways   Spec => []QuietAfterStop

None of the four properties is inductive alone, so `IInv` conjoins:

* `TypeOK`;
* `Chains`, for each chain: `Owned`, which is ownership and accounting together
  (a buffer about to be allocated is new only because all numbers in use are at
  most `allocated`); the messages waiting or being sent number at most
  `published`, so that a buffer made because the free queue is empty is at most
  the `MaxMsgs`-th, which `TypeOK` needs; the processing thread holds a buffer
  exactly while it sends;
* `InfoInv`: device information was sent to exactly the destinations before
  `infoDst`, sending needs it decoded, decoding needs the driver started, and a
  started driver means all destinations are registered. This is why running the
  thread before they are is harmless;
* `StopInv`: the driver is stopped once `stop` is under way, the threads joined
  so far are done, and all of `JoinOrder` is joined when `stop` has returned.

The argument about buffers is made once for any queue (`TailOfQueue` to
`Recycle`), then for the operation of one chain (`ChainGet`, `ChainPut`,
`ChainPop`, `ChainRecycle`), and `ChainStep` adds that a step of one chain leaves
the other alone. `InfoStep` and `StopStep` are the other two conjuncts.
`JoinsEveryThread` and `ThreadStaysDone` carry `QuietAfterStop`: the join order
names every thread, and a thread that is done stays done.

The last part of `CloudPipeline_proofs` proves that the pipeline implements
`CloudDelivery`:

    OrdersAlways           Spec => [](IInv /\ Orders)
    ImplementsDelivery     Spec => DeliversInOrder

Delivery in order is about what buffers hold, which `IInv` does not say. `Orders`
does: the waiting buffers of a chain hold consecutive messages up to the one
published last, the buffer being sent holds the one before them, and each
destination has been given all messages taken, but for the one being sent if its
turn has not come. `Fill` keeps this because the driver's buffer is neither
waiting nor being sent (`Owned`); `ProcRecycle` because a message can only exist
when all destinations are registered (`InfoInv`). Then `ProcSend` is `Deliver`,
`putBuffer` is `Publish`, and every other step is hidden.

`CtrlNode_proofs` begins with the theorems about `TcpSession`. All hold for every
natural `MaxCalls` and `MaxRequests` (with `MaxCalls >= MaxRequests`, one call per
request):

    Invariant, TypeCorrectness       Spec => []IInv, []TypeOK
    ReaderHasSocketAlways            Spec => []ReaderHasSocket
    CrashNeedsMisuseAlways           Spec => []CrashNeedsMisuse
    NodeInvariant                    NodeSpec => []NodeIInv
    NodeTypeCorrectness              NodeSpec => []NodeTypeOK
    PowerAgreesAlways                NodeSpec => []PowerAgrees
    NoThreadLeftAlways               NodeSpec => NoThreadLeft
    CrashNeedsDropAlways             NodeSpec => []CrashNeedsDrop

The session's invariant rests on when `connect` can run: `init` is called once,
on an object without a thread (`ConnectInv`), and an operation connects only when
`isConnected` says no, which a running thread excludes: its `m_netOK` is true from
the end of `connect` until it sees EOF, and its socket stays (`ReaderInv`). So the
thread that `connect` may discard has always ended, and discarding it is the one
crash besides a call after `uninit`.

The node's invariant follows one request: the object is detached, attached to a
connection on which nothing was sent, at work, and detached again (`Protocol`).
While it is at work only its own request is on its connection, so a reply means
that it was carried out, and so do a raised state and a TRUE, unless the request
is the reboot of a Helios, whose builder raised the state (`WorkInv`, `Hasty`); that
the other builders lower the state they find raised in fresh memory is used here.
What waits in the backlog is of earlier requests (`LateInv`) and is carried out
first. So after a success the lidar has nothing left to look at, and its mode
stays (`LastInv`).
`UndroppedInv` adds that while the lidar has dropped no connection, nothing closes
one before the operation has begun, so no operation connects.

`FrameParser_proofs` holds for every set of streams and every size of a read:

    Invariant, TypeCorrectness       Spec => []IInv, []TypeOK
    HandledApartAlways               Spec => []HandledApart
    NoneLostAlways                   Spec => []NoneLost
    NoneWaitingAlways                Spec => []NoneWaiting

Its invariant adds to the two properties that every frame that was handled is a
good one that ends where the parser has erased, or before (`HandledWhole`), that
frames are handled one behind the other (`HandledInOrder`), and that a frame sent
as it should be has a length the parser accepts (`Fits`). A step erases nothing,
one cell that begins no frame worth handling, or all that the start at the head
claims, which has been received by then; each case extends the conjuncts by that.

`NodeMain_proofs` holds for any number of lidars and interrupts:

    Invariant, TypeCorrectness       Spec => []IInv, []MainTypeOK
    AllOrNoneAlways                  Spec => []AllOrNone
    QuietAtEndAlways                 Spec => []QuietAtEnd

The invariant is how far each loop has come: before `next` sources are made
(`Made`) or stopped (`Stopped`), the others are not; main goes to sleep with the
loops at their start, which is what lets the one that stops begin at the first.

`CommandExchange_proofs` holds for any classes, operations, number of calls and
faults; the last two theorems assume what is written before `|-`:

    TypeCorrectness                  Spec => []TypeOK
    OneReplyOneSuccessAlways         Spec => []OneReplyOneSuccess
    OwnPayloadAlways                 Prompt, EveryBuilderLowers |- Spec => []OwnPayload
    ConfirmedWereDoneAlways          the same, no refusals |- Spec => ConfirmedWereDone

`Wire` says that a call has at most one request or reply under way, and replies
are numbered by calls already made. For late replies `Counted` compares, per flag,
the calls that succeeded by it with the replies that raised it: a flag that is up,
or seen by `sendData` and not yet extracted, counts as one success to come. A
builder that lowers the flag can only take from the smaller side; this is what
makes it inductive, and why it needs nothing about timing. Prompt replies leave
only the request of the call in progress, or its reply, under way (`Alone`), so
that whatever a call sees is about itself (`Results`). `EveryBuilderLowers` leaves
out `HeliosCom::rebootLidar` alone, which raises its own flag (its TRUE promises
nothing); so does the run `exchange`.

`DriverOperations_proofs` holds for any operations and number of them, images,
chunks, register files and blocks of any size:

    ImplementsExchange               DriverSpec => Spec
    ConfirmedOnceInOperations        DriverSpec => []OneReplyOneSuccess
    OwnPayloadInOperations           Prompt, EveryBuilderLowers |- DriverSpec => []OwnPayload
    ConfirmedWereDoneInOperations    the same, no refusals |- DriverSpec => ConfirmedWereDone
    DriverTypeCorrectness            DriverSpec => []DriverTypeOK
    CarriedOutSucceedsAlways         Prompt, EveryBuilderLowers |- DriverSpec => []CarriedOutSucceeds
    SettingsKeptAlways               the same |- DriverSpec => SettingsKept
    TrueMeansWrittenAlways           the same, no refusals |- DriverSpec => []TrueMeansWritten

`ImplementsExchange` brings the theorems about `CommandExchange` over; that
`OneReplyOneSuccess` holds of operations of several exchanges no run checks.
`DriverInv` ties the operation in hand to the place in its script and to the
last call: a script is gone on with only after a TRUE, and a setter that writes
back has read a configuration. `CarriedOutSucceeds` compares the tables of
builders with those of handlers (`Tables`), and needs `NotReached`: the chunks
of an update of AiryCom would not be recognised either, but no update of AiryCom
gets past its request. `SettingsKept` follows from `Writing`: outside the
setter's own fields, what is about to be written is what the lidar has.
`TrueMeansWritten` follows from `Giving`: what the lidar was given by the
operation in hand is what the script so far carries, and the scripts carry the
whole image or file (`UpdateFacts`, `FixFacts`): chunks of a fixed size, the
last one shorter, end where the image ends. `FlattenSeq` and `Blocks` are
recursive functions and the theorems are by induction on the length; the
induction theorems of the library take an operator, so `Induct` states it for a
set, by the least number outside, and `Iterate` builds the function up to any
bound before anything is said of it.

`LogTransfer_proofs` holds for any classes and paces, pieces per log and logs:

    Invariant, TypeCorrectness       Spec => []IInv, []TypeOK
    LogInOrderAlways                 Spec => []LogInOrder

`LogInOrder` speaks of the moment a call returns; `Underway` says what leads to
it while a paced lidar answers: the request was not taken up (`Asked`), or at most
the piece sent last is on its way (`OnTheWay`). HeliosCom then has every piece
before that one, once and whole (`HeliosLog`). For the others the headers copied
are in order, none after the one in `reg_back_data_`, and every piece before the
one sent last has an unmixed copy (`AiryLog`). That copy is not assumed: `Reading`
follows the turn of the piece sent last. From the moment its state is raised
until the lidar sends the next one `reg_back_data_` is at rest, so the getter whose
call makes the turn begin and end copies header and body of that piece, and only
then does a paced lidar go on. The invariant covers their monitor logs too; they
get stuck, so `LogInOrder` leaves them out.

`DeskewNode_proofs` holds for any clouds, distance of knots and number of clouds:

    Invariant, TypeCorrectness       Spec => []IInv, []DeskewTypeOK
    NoneDroppedAlways                Spec => []NoneDropped
    SkewedForCauseAlways             Spec => []SkewedForCause
    RowsOnTimeAlways                 Spec => []RowsOnTime

The state adds little: `IInv` is the type invariant and the two properties. The
work is in the arithmetic of the knots: they reach the end of the rows, the times
of neighbouring ones enclose those of the rows between, and a knot that cannot be
looked up has the buffer miss an end of the sweep, or has a stamp of its own
outside of it.

*What proving found.* In `ReadModifyWrite` the cases of HeliosCom and of the
setters overlapped, which TLC resolves by their order and TLA+ leaves open; the
case of HeliosCom is now tested first, as the code does. `Clouds` of `DeskewNode`
has to have a cloud. `Alone` is false without `EveryBuilderLowers`, because of
`rebootLidar`.

*Only model-checked:* liveness and everything under fairness (`ENABLED` is beyond
the prover): `EveryMessageSent`, `StopReturns`, `EndsWhenAsked`, `ParseReturns`,
`TasksReturn`, `CallEnds`, `RequestAnswered`, `CloudAnswered`. Every invariant and
every action property of the passing runs is proved.

## 7. Not modelled

* `rs_driver` itself (absent), the ROS middleware, YAML, logging, payload bytes
  and checksums as arithmetic, memory and descriptors leaked (the destructor of
  `LidarCtrlDriver` deletes a `void*`, and a request whose `init` failed leaves its
  socket behind), and the reference to a local variable that `async_write`'s
  handler keeps, which is below the level of the models.
* `SourceDriver`: packets, sent on the driver's thread without a queue;
  exceptions and the configuration.
* `SetLidarType` on a live session: every caller in the repository calls `init`
  once per object.
* `LidarCtrlDriver`: `setIpPort` for types that flow off its end; `readReg`'s
  recursion over registers and its value when the read reports success without
  data; late replies in operations of several exchanges (`exchange` is prompt). A
  register file is taken to hold registers of one kind.
* The update of `HeliosCom`, which returns TRUE whatever the lidar does, so that
  there is nothing to promise; the update of type SBL (0x09), which no protocol
  class knows; `m_updateStatus`, which any acknowledgement of a patch or a
  configuration sets to finished.
* Logs: how often a getter of AiryCom or Ruby4Com appends the same copy, and what
  Ruby4Com appends for a monitor or daemon log, whose length, taken from the wrong
  bytes, may reach beyond `reg_back_data_`. Pieces too short to have a header.
* `DestinationPointCloudRos` and the conversion of packets copy fields without
  state. Stamps are rounded in floating point: seconds and nanoseconds
  separately, so that the latter can reach 10^9 (source_pointcloud_ros.hpp:415).
* De-skewing: rotations, and rows whose capture times are not even.

Worth having next: what `DriverOperations` promises when replies are late, beyond
`OneReplyOneSuccess`.
