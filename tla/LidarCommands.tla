--------------------------- MODULE LidarCommands ---------------------------
(***************************************************************************)
(* What each lidar protocol class of rs_ctrl_driver sends and recognises.  *)
(*                                                                         *)
(* A request is <<operation of TcpCom, command on the wire, state>>: the   *)
(* builder packs the command, lowers read_write_state_[state] and tells    *)
(* TcpCom::sendData to wait for it.  An acknowledgement is                 *)
(* <<command, state>>: a reply to that command raises that state.          *)
(* Operations a class has no request for are refused without sending.      *)
(* Frame layout, checksums and payload bytes are abstracted away.          *)
(***************************************************************************)
EXTENDS FiniteSets

Family == {"airy", "ruby4", "helios", "mems"}

-----------------------------------------------------------------------------
(* AiryCom: frames FF FF 01, class and command, response code, CRC *)

\* Registers: the address tells the top board from the bottom board.
AiryWriteRequests == {
  <<"writeRegData.top", "TOP.WRITE_REG", "WRITE_TOP_REG">>,
  <<"writeRegData.bot", "BOT.WRITE_REG", "WRITE_REG">> }

AiryReadRequests == {
  <<"writeCalibrateReflectData", "TOP.GET_INTENSITY", "READ_INTENSITY">>,
  <<"readRegData.top", "TOP.READ_REG", "READ_TOP_REG">>,
  <<"readRegData.bot", "BOT.READ_REG", "READ_REG">> }

AirySettingRequests == {
  <<"SetLidarSn", "PARAM.SET_SN", "SET_SN">>,
  <<"SetLidarNetInfo", "PARAM.SET_NET_CFG", "SET_NET">>,
  <<"SetLidarSyncMode", "PARAM.SET_TIME_SYNC_MODE", "SET_SYNC_MODE">>,
  <<"SetLidarWaveMode", "PARAM.SET_WAVE_MODE", "SET_WAVE_MODE">>,
  <<"SetMotorPhaseLockCfg", "PARAM.SET_PHASE_LOCKED", "SET_PHASE">>,
  <<"SetMotorStopAngle", "MOTOR.DATA_SEND", "SET_MOTOR_STOP_ANGLE">>,
  <<"SetLidarWorkMode", "PARAM.SET_WORK_MODE", "SET_WORK_MODE">>,
  <<"CtrlEyeSafe", "TOP.EYES_SAFE", "EYE_SAFE_MODE">> }

AiryAngleRequests == {
  <<"SetChannelAngle", "OTHER.01", "SET_CHANNEL_ANGLE">>,
  <<"GetChannelAngle", "OTHER.02", "GET_CHANNEL_ANGLE">> }

AiryInfoRequests == {
  <<"GetPatchVersion", "INFO.GET_CONFIG_VER", "GET_CONFIG_VER">>,
  <<"GetConfigVersion", "INFO.GET_CONFIG_VER", "GET_CONFIG_VER">>,
  <<"GetLidarConfig", "INFO.GET_PARAM_INFO", "GET_ALL_CONFIG">> }

\* The steps of an update are told apart by the first byte of their payload.
AiryUpdateRequests == {
  <<"update.app.request", "UPDATE.05.C1", "UPDATE_REQUEST">>,
  <<"update.app.data", "UPDATE.05.C2", "UPDATE_SEND_DATA">>,
  <<"update.app.checksum", "UPDATE.05.C3", "UPDATE_CHECKSUM">>,
  <<"update.top.request", "UPDATE.08.C1", "UPDATE_REQUEST">>,
  <<"update.top.data", "UPDATE.08.C2", "UPDATE_SEND_DATA">>,
  <<"update.top.checksum", "UPDATE.08.C3", "UPDATE_CHECKSUM">>,
  <<"update.bot.request", "UPDATE.07.C1", "UPDATE_REQUEST">>,
  <<"update.bot.data", "UPDATE.07.C2", "UPDATE_SEND_DATA">>,
  <<"update.bot.checksum", "UPDATE.07.C3", "UPDATE_CHECKSUM">>,
  <<"getUpdateStatus", "UPDATE.STATUS", "UPDATE_CHECKSUM">> }

\* Blocks of machine registers.
AiryFixRequests == {
  <<"fix.459", "OTHER.13", "FIX_459_REG">>,
  <<"fix.top", "OTHER.15", "FIX_TOP_REG">>,
  <<"fix.bot", "OTHER.16", "FIX_BOT_REG">> }

AiryModeRequests == {
  <<"setMode", "PARAM.SET_WORK_MODE", "SET_MODE">>,
  <<"getMode", "INFO.03", "GET_MODE">>,
  <<"getImuParams", "INFO.06", "GET_IMU">>,
  <<"setImuParams", "PARAM.SET_IMU", "SET_IMU">>,
  <<"rebootLidar", "OTHER.04", "REBOOT_LIDAR">> }

AiryEventLogRequests == {
  <<"readEventLog", "OTHER.08", "READ_EVENT_LOG">>,
  <<"deleteEventLog", "OTHER.0A", "DELETE_EVENT_LOG">>,
  <<"readMonitorLog", "OTHER.09", "READ_MONITOR_LOG">>,
  <<"restartMonitorLog", "OTHER.0B", "RESTART_MONITOR_LOG">> }

AiryDaemonLogRequests == {
  <<"readDaemonLog", "OTHER.0C", "READ_DAEMON_LOG">>,
  <<"deleteDaemonLog", "OTHER.0D", "DELETE_DAEMON_LOG">>,
  <<"readConfigFile", "OTHER.06", "READ_CONFIG_FILE">> }

AirySupplementRequests == {
  <<"setMotorDir", "PARAM.SET_MOTOR_DIR", "SET_MOTOR_DIR">>,
  <<"getMonitorValue", "OTHER.03", "GET_MONITOR">>,
  <<"getSupplementParams", "INFO.05", "GET_SUPPLY_PARAMS">>,
  <<"setSomeSupplementParams", "PARAM.SET_SUPPLY_PARAMS", "SET_SUPPLY_PARAMS">>,
  <<"setReflectEnhance", "PARAM.SET_REFLECT_ENHANCE", "REFLECT_ENHANCE">>,
  <<"setGpsBaud", "PARAM.SET_GPS_BAUD", "SET_GPS_BAUD">>,
  <<"setTrailFilter", "PARAM.SET_TRAIL_FILTER", "TRAIL_FILTER">> }

AiryDetectionRequests == {
  <<"setRainBlockDetectDistance", "PARAM.SET_RAIN_BLOCK", "RAIN_BLOCK_DETECT_DISTANCE">>,
  <<"setRainDetectSensitivity", "PARAM.SET_RAIN_DETECT", "RAIN_DETECT_SENSITIVITY">>,
  <<"setBlockDetectSensitivity", "PARAM.SET_BLOCK_DETECT", "BLOCK_DETECT_SENSITIVITY">> }

AiryRequests ==
  UNION { AiryWriteRequests, AiryReadRequests, AirySettingRequests, AiryAngleRequests,
          AiryInfoRequests, AiryUpdateRequests, AiryFixRequests, AiryModeRequests,
          AiryEventLogRequests, AiryDaemonLogRequests, AirySupplementRequests, AiryDetectionRequests }

\* handleParamConfigCmd: a work mode reply raises two states; FOV, motor speed,
\* point cloud mode and the whole configuration raise none.
AiryParamAcks == {
  <<"PARAM.SET_SN", "SET_SN">>,
  <<"PARAM.SET_NET_CFG", "SET_NET">>,
  <<"PARAM.SET_TIME_SYNC_MODE", "SET_SYNC_MODE">>,
  <<"PARAM.SET_WAVE_MODE", "SET_WAVE_MODE">>,
  <<"PARAM.SET_PHASE_LOCKED", "SET_PHASE">>,
  <<"PARAM.SET_SUPPLY_PARAMS", "SET_SUPPLY_PARAMS">>,
  <<"PARAM.SET_REFLECT_ENHANCE", "REFLECT_ENHANCE">>,
  <<"PARAM.SET_GPS_BAUD", "SET_GPS_BAUD">>,
  <<"PARAM.SET_MOTOR_DIR", "SET_MOTOR_DIR">>,
  <<"PARAM.SET_IMU", "SET_IMU">>,
  <<"PARAM.SET_TRAIL_FILTER", "TRAIL_FILTER">>,
  <<"PARAM.SET_RAIN_BLOCK", "RAIN_BLOCK_DETECT_DISTANCE">>,
  <<"PARAM.SET_RAIN_DETECT", "RAIN_DETECT_SENSITIVITY">>,
  <<"PARAM.SET_BLOCK_DETECT", "BLOCK_DETECT_SENSITIVITY">>,
  <<"PARAM.SET_WORK_MODE", "SET_MODE">>,
  <<"PARAM.SET_WORK_MODE", "SET_WORK_MODE">> }

AiryInfoAcks == {
  <<"INFO.GET_PARAM_INFO", "GET_ALL_CONFIG">>,
  <<"INFO.03", "GET_MODE">>,
  <<"INFO.GET_CONFIG_VER", "GET_CONFIG_VER">>,
  <<"INFO.05", "GET_SUPPLY_PARAMS">>,
  <<"INFO.06", "GET_IMU">> }

\* The replies to the steps of an update: patch, configuration and top only.
UpdateAcks == {
  <<"UPDATE.PATCH.C1", "UPDATE_REQUEST">>,
  <<"UPDATE.PATCH.C2", "UPDATE_SEND_DATA">>,
  <<"UPDATE.PATCH.C3", "UPDATE_CHECKSUM">>,
  <<"UPDATE.CONFIG.C1", "UPDATE_REQUEST">>,
  <<"UPDATE.CONFIG.C2", "UPDATE_SEND_DATA">>,
  <<"UPDATE.CONFIG.C3", "UPDATE_CHECKSUM">>,
  <<"UPDATE.TOP.C1", "UPDATE_REQUEST">>,
  <<"UPDATE.TOP.C2", "UPDATE_SEND_DATA">>,
  <<"UPDATE.TOP.C3", "UPDATE_CHECKSUM">> }

AiryUpdateAcks == UpdateAcks

\* A reply to the intensity command falls through to the eye-safe case.
TopAcks == {
  <<"TOP.READ_REG", "READ_TOP_REG">>,
  <<"TOP.WRITE_REG", "WRITE_TOP_REG">>,
  <<"TOP.GET_INTENSITY", "READ_INTENSITY">>,
  <<"TOP.GET_INTENSITY", "EYE_SAFE_MODE">>,
  <<"TOP.EYES_SAFE", "EYE_SAFE_MODE">> }

AiryMotorTopAcks == TopAcks \cup { <<"MOTOR.DATA_SEND", "SET_MOTOR_STOP_ANGLE">> }

AiryBotAcks == {
  <<"BOT.READ_REG", "READ_REG">>,
  <<"BOT.WRITE_REG", "WRITE_REG">> }

OtherLogAcks == {
  <<"OTHER.04", "REBOOT_LIDAR">>,
  <<"OTHER.06", "READ_CONFIG_FILE">>,
  <<"OTHER.08", "READ_EVENT_LOG">>,
  <<"OTHER.09", "READ_MONITOR_LOG">>,
  <<"OTHER.0A", "DELETE_EVENT_LOG">>,
  <<"OTHER.0B", "RESTART_MONITOR_LOG">>,
  <<"OTHER.0C", "READ_DAEMON_LOG">>,
  <<"OTHER.0D", "DELETE_DAEMON_LOG">> }

AiryOtherAcks == OtherLogAcks \cup {
  <<"OTHER.01", "SET_CHANNEL_ANGLE">>,
  <<"OTHER.02", "GET_CHANNEL_ANGLE">>,
  <<"OTHER.03", "GET_MONITOR">>,
  <<"OTHER.13", "FIX_459_REG">>,
  <<"OTHER.15", "FIX_TOP_REG">>,
  <<"OTHER.16", "FIX_BOT_REG">> }

AiryAcks ==
  UNION {AiryParamAcks, AiryInfoAcks, AiryUpdateAcks, AiryMotorTopAcks, AiryBotAcks, AiryOtherAcks}

-----------------------------------------------------------------------------
(* Ruby4Com: the same frames, an older command set *)

Ruby4WriteRequests == AiryWriteRequests

Ruby4ReadRequests == AiryReadRequests

Ruby4SettingRequests == {
  <<"SetLidarSn", "PARAM.SET_SN", "SET_SN">>,
  <<"SetLidarNetInfo", "PARAM.SET_NET_CFG", "SET_NET">>,
  <<"SetLidarSyncMode", "PARAM.SET_TIME_SYNC_MODE", "SET_SYNC_MODE">>,
  <<"SetLidarWaveMode", "PARAM.SET_WAVE_MODE", "SET_WAVE_MODE">>,
  <<"SetLidarFov", "PARAM.SET_MOTOR_FOV", "SET_FOV">>,
  <<"SetMotorPhaseLockCfg", "PARAM.SET_PHASE_LOCKED", "SET_PHASE">>,
  <<"SetMotorSpeed", "PARAM.SET_MOTOR_SPEED", "MOTOR_SPEED">>,
  <<"SetLidarWorkMode", "PARAM.SET_WORK_MODE", "SET_WORK_MODE">>,
  <<"CtrlEyeSafe", "TOP.EYES_SAFE", "EYE_SAFE_MODE">> }

Ruby4InfoRequests == {
  <<"GetPatchVersion", "INFO.GET_CONFIG_VER", "GET_CONFIG_VER">>,
  <<"GetConfigVersion", "INFO.GET_CONFIG_VER", "GET_CONFIG_VER">>,
  <<"GetLidarConfig", "INFO.GET_PARAM_INFO", "GET_ALL_CONFIG">> }

\* A configuration is requested and checked as a system update is.
Ruby4UpdateRequests == {
  <<"update.patch.request", "UPDATE.PATCH.C1", "UPDATE_REQUEST">>,
  <<"update.patch.data", "UPDATE.PATCH.C2", "UPDATE_SEND_DATA">>,
  <<"update.patch.checksum", "UPDATE.PATCH.C3", "UPDATE_CHECKSUM">>,
  <<"update.config.data", "UPDATE.CONFIG.C2", "UPDATE_SEND_DATA">>,
  <<"update.system.request", "UPDATE.TOP.C1", "UPDATE_REQUEST">>,
  <<"update.system.data", "UPDATE.TOP.C2", "UPDATE_SEND_DATA">>,
  <<"update.system.checksum", "UPDATE.TOP.C3", "UPDATE_CHECKSUM">>,
  <<"getUpdateStatus", "UPDATE.STATUS", "UPDATE_CHECKSUM">> }

Ruby4ModeRequests == {
  <<"setMode", "PARAM.SET_WORK_MODE", "SET_MODE">>,
  <<"getMode", "INFO.03", "GET_MODE">>,
  <<"rebootLidar", "OTHER.04", "REBOOT_LIDAR">> }

Ruby4EventLogRequests == AiryEventLogRequests

Ruby4DaemonLogRequests == AiryDaemonLogRequests

Ruby4Requests ==
  UNION { Ruby4WriteRequests, Ruby4ReadRequests, Ruby4SettingRequests, Ruby4InfoRequests,
          Ruby4UpdateRequests, Ruby4ModeRequests, Ruby4EventLogRequests, Ruby4DaemonLogRequests }

\* The field-of-view reply raises the state of the phase lock.
Ruby4ParamAcks == {
  <<"PARAM.SET_SN", "SET_SN">>,
  <<"PARAM.SET_NET_CFG", "SET_NET">>,
  <<"PARAM.SET_TIME_SYNC_MODE", "SET_SYNC_MODE">>,
  <<"PARAM.SET_WAVE_MODE", "SET_WAVE_MODE">>,
  <<"PARAM.SET_MOTOR_FOV", "SET_PHASE">>,
  <<"PARAM.SET_PHASE_LOCKED", "SET_PHASE">>,
  <<"PARAM.SET_MOTOR_SPEED", "MOTOR_SPEED">>,
  <<"PARAM.SET_WORK_MODE", "SET_MODE">>,
  <<"PARAM.SET_WORK_MODE", "SET_WORK_MODE">> }

\* No case of handleGetInfoCmd breaks: each falls through to the next.
Ruby4InfoAcks == {
  <<"INFO.GET_PARAM_INFO", "GET_ALL_CONFIG">>,
  <<"INFO.GET_PARAM_INFO", "GET_MODE">>,
  <<"INFO.GET_PARAM_INFO", "GET_CONFIG_VER">>,
  <<"INFO.03", "GET_MODE">>,
  <<"INFO.03", "GET_CONFIG_VER">>,
  <<"INFO.GET_CONFIG_VER", "GET_CONFIG_VER">> }

Ruby4UpdateAcks == UpdateAcks

\* Unlike AiryCom's, the motor handler raises nothing.
Ruby4MotorTopAcks == TopAcks

Ruby4BotAcks == AiryBotAcks

Ruby4OtherAcks == OtherLogAcks

Ruby4Acks ==
  UNION {Ruby4ParamAcks, Ruby4InfoAcks, Ruby4UpdateAcks, Ruby4MotorTopAcks, Ruby4BotAcks, Ruby4OtherAcks}

-----------------------------------------------------------------------------
(* HeliosCom: a fixed header and no response codes *)

HeliosRegisterRequests == {
  <<"writeRegData.bot", "WRITE_REGISTER", "WRITE_REG">>,
  <<"readRegData.bot", "READ_REGISTER", "READ_REG">> }

HeliosConfigRequests == {
  <<"SetLidarConfig", "WRITE_CONFIG", "SET_ALL_CONFIG">>,
  <<"GetLidarConfig", "READ_CONFIG", "GET_ALL_CONFIG">>,
  <<"GetConfigVersion", "BASE_CFG_VERSION", "GET_CONFIG_VER">>,
  <<"CtrlEyeSafe", "EYES_SAFE", "EYE_SAFE_MODE">> }

HeliosAngleRequests == {
  <<"writeCalibrateReflectData", "TOP_GET_INTENSITY", "READ_INTENSITY">>,
  <<"GetZeroAngle", "ZERO_ANGLE_READ", "GET_ZERO_ANGLE">> }

HeliosModeRequests == {
  <<"setMode", "SET_MODE", "SET_MODE">>,
  <<"getMode", "GET_MODE", "GET_MODE">>,
  <<"setMotorDir", "SET_MOTOR_DIR", "SET_MOTOR_DIR">>,
  <<"getMotorDir", "GET_MOTOR_DIR", "GET_MOTOR_DIR">>,
  <<"rebootLidar", "REBOOT", "REBOOT_LIDAR">> }

HeliosLogRequests == {
  <<"readConfigFile", "READ_BASE_CFG_JASON", "READ_CONFIG_FILE">>,
  <<"readEventLog", "READ_EVENT_LOG", "READ_EVENT_LOG">>,
  <<"deleteEventLog", "DELETE_EVENT_LOG", "DELETE_EVENT_LOG">>,
  <<"readMonitorLog", "READ_MONITOR_LOG", "READ_MONITOR_LOG">>,
  <<"restartMonitorLog", "RESTART_MONITOR_LOG", "RESTART_MONITOR_LOG">> }

HeliosRequests ==
  HeliosRegisterRequests \cup HeliosConfigRequests \cup HeliosAngleRequests
    \cup HeliosModeRequests \cup HeliosLogRequests

\* ParseRecvTcpData, the acknowledgements whose payload goes to reg_back_data_.
HeliosDataAcks == {
  <<"READ_REGISTER", "READ_REG">>,
  <<"READ_CONFIG", "GET_ALL_CONFIG">>,
  <<"BASE_CFG_VERSION", "GET_CONFIG_VER">>,
  <<"EYES_SAFE", "EYE_SAFE_MODE">>,
  <<"TOP_GET_INTENSITY", "READ_INTENSITY">>,
  <<"ZERO_ANGLE_READ", "GET_ZERO_ANGLE">>,
  <<"GET_MODE", "GET_MODE">>,
  <<"GET_MOTOR_DIR", "GET_MOTOR_DIR">>,
  <<"READ_BASE_CFG_JASON", "READ_CONFIG_FILE">>,
  <<"READ_EVENT_LOG", "READ_EVENT_LOG">>,
  <<"READ_MONITOR_LOG", "READ_MONITOR_LOG">> }

\* ... and those that only raise a state.
HeliosPlainAcks == {
  <<"WRITE_REGISTER", "WRITE_REG">>,
  <<"WRITE_CONFIG", "SET_ALL_CONFIG">>,
  <<"REBOOT", "REBOOT_LIDAR">>,
  <<"SET_MODE", "SET_MODE">>,
  <<"SET_MOTOR_DIR", "SET_MOTOR_DIR">>,
  <<"DELETE_EVENT_LOG", "DELETE_EVENT_LOG">>,
  <<"RESTART_MONITOR_LOG", "RESTART_MONITOR_LOG">> }

HeliosAcks == HeliosDataAcks \cup HeliosPlainAcks

-----------------------------------------------------------------------------
(* MemsCom: a fixed header and no response codes *)

MemsRegisterRequests == {
  <<"writeRegData.bot", "WRITE_REGISTER", "WRITE_REG">>,
  <<"writeRegData.run", "WRITE_REGISTER_2", "WRITE_REG_2">>,
  <<"readRegData.bot", "READ_REGISTER", "READ_REG">> }

\* The parameter commands wait for states their replies do not raise.
MemsConfigRequests == {
  <<"SetLidarConfig", "WRITE_PARAMETER", "SET_ALL_CONFIG">>,
  <<"GetLidarConfig", "READ_PARAMETER", "GET_ALL_CONFIG">> }

MemsRequests == MemsRegisterRequests \cup MemsConfigRequests

\* Commands whose reply fills reg_back_data_: a parameter reply fills
\* net_work_info_ instead.
MemsDataAcks == {
  <<"READ_REGISTER", "READ_REG">>,
  <<"WRITE_FPGA_MEM", "GET_ALL_CONFIG">> }

\* Acknowledgements of commands that no operation of TcpCom sends are left out.
MemsPlainAcks == {
  <<"WRITE_REGISTER", "WRITE_REG">>,
  <<"WRITE_REGISTER_2", "WRITE_REG_2">>,
  <<"READ_PARAMETER", "READ_NETWORK_INFO">>,
  <<"WRITE_PARAMETER", "WRITE_NETWORK_INFO">> }

MemsAcks == MemsDataAcks \cup MemsPlainAcks

-----------------------------------------------------------------------------
(* What TcpCom asks of the class it uses. *)

Requests ==
  [airy |-> AiryRequests, ruby4 |-> Ruby4Requests, helios |-> HeliosRequests, mems |-> MemsRequests]

Acks == [airy |-> AiryAcks, ruby4 |-> Ruby4Acks, helios |-> HeliosAcks, mems |-> MemsAcks]

\* Logs, which come in several replies.
LogReads == {"readEventLog", "readMonitorLog", "readDaemonLog", "readConfigFile"}

\* Exchanges of one request and one reply.
Exchanges == [f \in Family |-> {r[1] : r \in Requests[f]} \ LogReads]

\* Exchanges that are only made as steps of an update or of fixRegsCfg.
Steps == [f \in Family |-> {r[1] : r \in {q \in Requests[f] :
  q[3] \in {"UPDATE_REQUEST", "UPDATE_SEND_DATA", "FIX_459_REG", "FIX_TOP_REG", "FIX_BOT_REG"}
    \/ (q[3] = "UPDATE_CHECKSUM" /\ q[1] # "getUpdateStatus")}}]

\* Operations of TcpCom that are one exchange.
Ops == [f \in Family |-> Exchanges[f] \ Steps[f]]

CommandOf(f, op) == (CHOOSE r \in Requests[f] : r[1] = op)[2]
StateOf(f, op)   == (CHOOSE r \in Requests[f] : r[1] = op)[3]

\* Mutant: a handler stops at the first state it raises.
RaisesOne(f, cmd) ==
  LET all == {a[2] : a \in {b \in Acks[f] : b[1] = cmd}}
  IN  IF all = {} THEN {} ELSE {CHOOSE s \in all : TRUE}

\* The states a reply to cmd raises.
Raises(f, cmd) == {a[2] : a \in {b \in Acks[f] : b[1] = cmd}}

\* AiryCom and Ruby4Com copy every frame to reg_back_data_ before they look at it.
FillsRegBack(f, cmd) ==
  \/ f \in {"airy", "ruby4"}
  \/ f = "helios" /\ cmd \in {a[1] : a \in HeliosDataAcks}
  \/ f = "mems" /\ cmd \in {a[1] : a \in MemsDataAcks}

\* HeliosCom::rebootLidar raises the state it waits for instead of lowering it.
PreRaised(f, op) == f = "helios" /\ op = "rebootLidar"

\* Builders that end without a return statement.
MissingReturn(f, op) == f \in {"helios", "mems"} /\ op = "readRegData.bot"

\* Operations that read reg_back_data_ once the state is up.
Getters == {
  "readRegData.top", "readRegData.bot", "writeCalibrateReflectData", "GetPatchVersion",
  "GetConfigVersion", "GetLidarConfig", "getMotorDir", "getMode", "GetZeroAngle",
  "GetChannelAngle", "getMonitorValue", "getImuParams", "getSupplementParams" }

\* xxxResult() of the protocol classes that look at the response code.
ChecksCode(f, op) ==
  f \in {"airy", "ruby4"} /\ op \in Getters \ {"getMode", "GetChannelAngle"}

\* Wrappers of TcpCom that return true whatever xxxResult() returned.
IgnoresResult == {
  "readRegData.top", "readRegData.bot", "writeCalibrateReflectData",
  "getMonitorValue", "getImuParams" }

\* Wrappers that return true whatever sendData() returned.
IgnoresReply == {"SetLidarNetInfo", "getUpdateStatus"}
=============================================================================
