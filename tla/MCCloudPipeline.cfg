\* Two chains, two destinations: every interleaving of both chains with stop.
CONSTANTS
  Chain = {"cloud", "imu"}
  NDst = 2
  MaxMsgs = 2
SPECIFICATION FairSpec
INVARIANTS TypeOK SingleOwner NoBufferLost DeviceInfoToAll QuietAfterStop
PROPERTIES DeliversInOrder EveryMessageSent StopReturns
