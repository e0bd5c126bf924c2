-------------------------- MODULE DriverOperations --------------------------
(***************************************************************************)
(* LidarCtrlDriver on top of the exchanges of TcpCom.  Most operations are *)
(* one exchange.  The others are a script of them:                         *)
(*                                                                         *)
(*   setIpPort, setWaveMode, setTimeSyncMode and setLidarNetInfo read the  *)
(*   configuration, change a part of it and write it back, with more of it *)
(*   than they change;                                                     *)
(*   ctrlEyeSafe, openLaser and closeLaser repeat their requests;          *)
(*   update sends a request, the file in chunks and a checksum;            *)
(*   fixRegsCfg sends the registers of a text file in blocks.              *)
(*                                                                         *)
(* A setting holds the number of the operation that set it.  A file is the *)
(* sequence of its units, numbered from 1.                                 *)
(***************************************************************************)
EXTENDS CommandExchange, SequencesExt

CONSTANTS
  ImageLengths,   \* lengths of firmware images
  ChunkSize,      \* units in a chunk (1024 bytes)
  RegisterFiles,  \* files of machine registers: what they declare and hold
  BlockSize,      \* registers in a block (100)
  OpenWrites,     \* writes of openLaser (5)
  CloseRounds,    \* rounds of closeLaser (50)
  MaxTasks        \* bound: operations the user asks for

ASSUME ImagesAssumption == ImageLengths \subseteq Nat \ {0}
ASSUME FilesAssumption == RegisterFiles \subseteq [declared : Nat, actual : Nat]
ASSUME SizesAssumption == ChunkSize \in Nat \ {0} /\ BlockSize \in Nat \ {0}
ASSUME RepeatsAssumption == OpenWrites \in Nat \ {0} /\ CloseRounds \in Nat \ {0}
ASSUME MaxTasksAssumption == MaxTasks \in Nat

VARIABLES
  asked,      \* asked[k]: the k-th operation the user asked for
  returned,   \* returned[k]: what it returned
  at,         \* exchanges begun for the last one
  payload,    \* payload[n]: what the request of call n carries
  settings,   \* the lidar's configuration
  reported    \* reported[n]: the configuration it had when it answered call n

driverVars == <<asked, returned, at, payload>>
lidarVars == <<settings, reported>>
allVars == <<vars, driverVars, lidarVars>>

-----------------------------------------------------------------------------
(* Operations and their scripts *)

\* The part of the configuration setIpPort sets, the rest of the network
\* settings, the lidar's own address, the wave and synchronisation modes, and
\* the register of the laser.
NetSetting == {"ip", "dest", "mac"}
ConfigSetting == NetSetting \cup {"wave", "sync"}
Setting == ConfigSetting \cup {"laser"}
Configuration == [Setting -> 0..MaxTasks]

\* An operation; size and declared describe its file.
Plain(name) == [name |-> name, size |-> 0, declared |-> 0]

Singles(f) == {Plain(o) : o \in Ops[f] \cap UsedOps}

\* Configurations are read and written back for these types of lidar.
SetterNames == {"setIpPort", "setWaveMode", "setTimeSyncMode", "setLidarNetInfo"}

Setters(f) == {Plain(name) : name \in
  CASE f = "helios" -> SetterNames \ {"setLidarNetInfo"}
    [] f \in {"airy", "ruby4"} -> SetterNames
    [] OTHER -> {}}

\* Request, data and checksum of each type of update.
UpdateSteps == [
  app    |-> <<"update.app.request", "update.app.data", "update.app.checksum">>,
  top    |-> <<"update.top.request", "update.top.data", "update.top.checksum">>,
  bot    |-> <<"update.bot.request", "update.bot.data", "update.bot.checksum">>,
  patch  |-> <<"update.patch.request", "update.patch.data", "update.patch.checksum">>,
  config |-> <<"update.system.request", "update.config.data", "update.system.checksum">>,
  system |-> <<"update.system.request", "update.system.data", "update.system.checksum">>]

UpdateNames == DOMAIN UpdateSteps

\* TcpCom::update for RS_AIRY and RS_RUBY4.
Updates(f) == [
  name : CASE f = "airy" -> {"app", "top", "bot"}
           [] f = "ruby4" -> {"patch", "config", "system"}
           [] OTHER -> {},
  size : ImageLengths, declared : {0}]

FixNames == {"fix.459", "fix.top", "fix.bot"}

\* fixRegsCfg is for RS_AIRY; a file is taken to have one kind of registers.
Fixes(f) ==
  IF f # "airy" THEN {} ELSE
  {[name |-> name, size |-> file.actual, declared |-> file.declared] :
     name \in FixNames, file \in RegisterFiles}

RepeatNames == {"ctrlEyeSafe", "openLaser", "closeLaser"}

Repeats(f) ==
  {Plain(name) : name \in IF "CtrlEyeSafe" \in Exchanges[f] THEN RepeatNames ELSE {}}

Tasks == [f \in Family |-> Singles(f) \cup Setters(f) \cup Repeats(f) \cup Updates(f) \cup Fixes(f)]

\* A step: the exchange, the units it carries, and whether the operation gives
\* up when it fails.
Step(exchange, units, must) == [op |-> exchange, units |-> units, must |-> must]

ReadModifyWrite(f, t) == <<
  Step("GetLidarConfig", <<>>, TRUE),
  Step(IF f = "helios" THEN "SetLidarConfig" ELSE
       CASE t.name = "setWaveMode" -> "SetLidarWaveMode"
         [] t.name = "setTimeSyncMode" -> "SetLidarSyncMode"
         [] OTHER -> "SetLidarNetInfo", <<>>, TRUE) >>

\* Only the last exchange of a repetition counts.  closeLaser writes twice and
\* reads back, and ends early when it reads that the laser is off.
RepeatScript(t) ==
  LET writes(n) == [i \in 1..n |-> Step("writeRegData.bot", <<>>, FALSE)]
      rounds == [i \in 1..CloseRounds |->
                   Append(writes(2), Step("readRegData.bot", <<>>, i = CloseRounds))]
  IN  CASE t.name = "openLaser" ->
             writes(OpenWrites - 1) \o <<Step("writeRegData.bot", <<>>, TRUE)>>
        [] t.name = "closeLaser" -> FlattenSeq(rounds)
        [] OTHER -> <<>>

\* Mutant: what does not fill a chunk is forgotten.
FullChunks(length) == length \div ChunkSize

\* Chunks of ChunkSize, and a shorter one if anything is left.
ChunkCount(length) ==
  length \div ChunkSize + IF length % ChunkSize # 0 THEN 1 ELSE 0

Chunk(k, length) ==
  [i \in 1..(IF k * ChunkSize <= length THEN ChunkSize ELSE length % ChunkSize) |->
     (k - 1) * ChunkSize + i]

UpdateScript(t) ==
  LET steps == UpdateSteps[t.name]
  IN  <<Step(steps[1], <<>>, TRUE)>>
        \o [k \in 1..ChunkCount(t.size) |-> Step(steps[2], Chunk(k, t.size), TRUE)]
        \o <<Step(steps[3], <<>>, TRUE)>>

\* A block is sent when it is full and when it is the last the file declares.
Full(block, sent, declared) ==
  Len(block) >= BlockSize \/ BlockSize * sent + Len(block) >= declared

\* Line by line: the blocks sent after i registers, and the one being filled.
\* What is being filled when the file ends is not sent.
Blocks(t) ==
  LET after[i \in 0..t.size] ==
        IF i = 0 THEN [sent |-> <<>>, filling |-> <<>>] ELSE
        LET block == Append(after[i - 1].filling, i)
        IN  IF Full(block, Len(after[i - 1].sent), t.declared)
            THEN [sent |-> Append(after[i - 1].sent, block), filling |-> <<>>]
            ELSE [sent |-> after[i - 1].sent, filling |-> block]
  IN  after[t.size].sent

\* A file that declares no registers sends an empty block first.  A misplaced
\* parenthesis makes 15*1000 the condition after a block of the 459: the result
\* of sendData is dropped.
FixScript(t) ==
  LET blocks == Blocks(t)
  IN  (IF t.declared = 0 THEN <<Step(t.name, <<>>, TRUE)>> ELSE <<>>)
        \o [b \in DOMAIN blocks |-> Step(t.name, blocks[b], t.name # "fix.459")]

Script(f, t) ==
  CASE t.name \in SetterNames -> ReadModifyWrite(f, t)
    [] t.name \in RepeatNames ->
         <<Step("CtrlEyeSafe", <<>>, FALSE), Step("CtrlEyeSafe", <<>>, t.name = "ctrlEyeSafe")>>
           \o RepeatScript(t)
    [] t.name \in UpdateNames -> UpdateScript(t)
    [] t.name \in FixNames    -> FixScript(t)
    [] OTHER                  -> <<Step(t.name, <<>>, TRUE)>>

-----------------------------------------------------------------------------
(* What a request writes *)

Scope(exchange, name) ==
  CASE exchange = "SetLidarConfig"   -> ConfigSetting
    [] exchange = "SetLidarNetInfo"  -> NetSetting
    [] exchange = "SetLidarWaveMode" -> {"wave"}
    [] exchange = "SetLidarSyncMode" -> {"sync"}
    [] exchange = "writeRegData.bot" /\ name \in RepeatNames -> {"laser"}
    [] OTHER -> {}

\* The settings the user gives values for.
Own(name) ==
  CASE name = "setIpPort" -> {"ip"}
    [] name = "setLidarNetInfo" -> {"ip", "dest"}
    [] name = "setWaveMode" -> {"wave"}
    [] name = "setTimeSyncMode" -> {"sync"}
    [] name \in {"openLaser", "closeLaser"} -> {"laser"}
    [] OTHER -> Scope(name, name)

\* Mutant: what was not asked for is left at zero.
LeavesRestEmpty(exchange, name, read) ==
  [s \in Scope(exchange, name) |-> IF s \in Own(name) THEN Len(asked) ELSE 0]

\* The rest is as it was read.
Fields(exchange, name, read) ==
  [s \in Scope(exchange, name) |-> IF s \in Own(name) THEN Len(asked) ELSE read[s]]

-----------------------------------------------------------------------------
task == Last(asked)

\* An operation has been asked for and has not returned.
Working == Len(returned) < Len(asked)

script == Script(family, task)

Succeeded == result[callNo].value = "true"

DriverInit ==
  /\ Init
  /\ asked = <<>>
  /\ returned = <<>>
  /\ at = 0
  /\ payload = <<>>
  /\ settings = [s \in Setting |-> 0]
  /\ reported = [n \in Call |-> settings]

\* The user asks for an operation; the session is up (TcpSession).
Ask ==
  /\ ~Working
  /\ pc = "idle"
  /\ Len(asked) < MaxTasks
  /\ \E t \in Tasks[family] :
       /\ callNo + Len(Script(family, t)) <= MaxCalls
       /\ asked' = Append(asked, t)
  /\ at' = 0
  /\ UNCHANGED <<vars, returned, payload, lidarVars>>

\* The configuration that GetLidarConfig has just read.
Read == IF at = 0 THEN settings ELSE reported[result[callNo].data]

\* The operation that set the laser to what closeLaser has just read; a read that
\* fails leaves the last value, which was not 0.
LaserBy == reported[result[callNo].data].laser

ReadLaser ==
  task.name = "closeLaser" /\ at > 0 /\ script[at].op = "readRegData.bot" /\ Succeeded

\* It reads that the laser is off: because it was closed, or because it was so
\* before the first operation, which may be.
SeenOff == ReadLaser /\ LaserBy # 0 /\ asked[LaserBy].name = "closeLaser"
MayBeOff == ReadLaser /\ LaserBy = 0

\* The operation is over: its last exchange was made, or one that had to
\* succeed failed.
Over == at = Len(script) \/ (at > 0 /\ script[at].must /\ ~Succeeded) \/ SeenOff

NextExchange ==
  /\ Working
  /\ pc = "idle"
  /\ ~Over
  /\ LET step == script[at + 1]
     IN  /\ Begin(step.op) \/ BeginBroken(step.op)
         /\ payload' = Append(payload,
              [task |-> Len(asked), fields |-> Fields(step.op, task.name, Read), units |-> step.units])
  /\ at' = at + 1
  /\ UNCHANGED <<asked, returned, lidarVars>>

\* fixRegsCfg returns TRUE when it gets to the end of the file.
Outcome == IF at = 0 \/ ~script[at].must THEN "true" ELSE result[callNo].value

Finish ==
  /\ Working
  /\ pc = "idle"
  /\ Over \/ MayBeOff
  /\ returned' = Append(returned, Outcome)
  /\ UNCHANGED <<vars, asked, at, payload, lidarVars>>

\* The lidar does what the request says and answers with its configuration.
Obey ==
  /\ CarryOut
  /\ LET n == Head(toLidar)
         written == payload[n].fields
     IN  /\ settings' = [s \in Setting |-> IF s \in DOMAIN written THEN written[s] ELSE settings[s]]
         /\ reported' = [reported EXCEPT ![n] = settings]
  /\ UNCHANGED driverVars

\* A step of TcpCom, or of a lidar that does not obey.
Exchange ==
  /\ Poll \/ Extract \/ Timeout \/ Reader \/ Refuse \/ Ignore
  /\ UNCHANGED <<driverVars, lidarVars>>

\* Nothing more is asked for, or the process is gone.
Done ==
  /\ pc = "crashed" \/ ~Working
  /\ UNCHANGED allVars

DriverNext == Ask \/ NextExchange \/ Finish \/ Obey \/ Exchange \/ Done

DriverSpec == DriverInit /\ [][DriverNext]_allVars

\* The caller's thread, once an operation is asked for, the reading thread and
\* the lidar run; the user need not ask.
DriverFairSpec ==
  /\ DriverSpec
  /\ WF_allVars(NextExchange \/ Finish \/ ((Poll \/ Extract \/ Timeout) /\ UNCHANGED <<driverVars, lidarVars>>))
  /\ WF_allVars(Reader /\ UNCHANGED <<driverVars, lidarVars>>)
  /\ WF_allVars(Obey \/ ((Refuse \/ Ignore) /\ UNCHANGED <<driverVars, lidarVars>>))

-----------------------------------------------------------------------------
DriverTypeOK ==
  /\ TypeOK
  /\ \A k \in DOMAIN asked : asked[k] \in Tasks[family]
  /\ Len(asked) <= MaxTasks
  /\ returned \in Seq({"true", "false"})
  /\ Len(returned) <= Len(asked) /\ Len(asked) <= Len(returned) + 1
  /\ Working => at \in 0..Len(script)
  /\ Len(payload) = callNo
  /\ \A n \in 1..callNo : payload[n].task \in 1..Len(asked)
  /\ settings \in Configuration
  /\ reported \in [Call -> Configuration]

\* When replies are prompt, an operation changes what it was asked to change
\* and leaves the rest of the lidar's configuration alone, though it writes it
\* all back.
SettingsKept ==
  [][\A s \in Setting :
       settings'[s] # settings[s] => settings'[s] = Len(asked) /\ s \in Own(task.name)]_allVars

\* What the lidar was given by operation k: the units of the requests it
\* carried out, in their order.
Delivered(k) ==
  FlattenSeq([n \in 1..callNo |->
    IF n \in done /\ payload[n].task = k THEN payload[n].units ELSE <<>>])

Whole(size) == [i \in 1..size |-> i]

\* When replies are prompt, TRUE means that the lidar has it all: the settings
\* asked for, the laser on, the whole image in its order, every register of the
\* file.  Left out are settings written by SetLidarNetInfo and the 459
\* registers, whose acknowledgement is not looked at, files that hold fewer
\* registers than they declare, and closeLaser, whose TRUE only says that the
\* register was read.
TrueMeansWritten ==
  \A k \in DOMAIN returned :
    LET t == asked[k]
    IN  returned[k] = "true" =>
          /\ \/ t.name \in SetterNames /\ (family = "helios" \/ t.name \in {"setWaveMode", "setTimeSyncMode"})
             \/ t.name = "openLaser"
             => \A s \in Own(t.name) : settings[s] >= k
          /\ t.name \in UpdateNames => Delivered(k) = Whole(t.size)
          /\ t.name \in FixNames \ {"fix.459"} /\ t.declared <= t.size =>
               Delivered(k) = Whole(t.size)

\* Every operation returns, whatever the lidar answers or leaves unanswered,
\* unless a builder without a return statement brings the process down.
TasksReturn == Working ~> ~Working \/ pc = "crashed"
=============================================================================
