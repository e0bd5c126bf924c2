\* Every operation of every class, two in a row, replies prompt, requests carried
\* out or ignored.  Images of whole chunks and with a shorter last one.
CONSTANTS
  Families = {"airy", "ruby4", "helios", "mems"}
  UsedOps <- AllOps
  Faults = {"ignore"}
  Prompt = TRUE
  MaxCalls = 8
  ImageLengths = {3, 4}
  ChunkSize = 2
  RegisterFiles <- Files
  BlockSize = 2
  OpenWrites = 2
  CloseRounds = 2
  MaxTasks = 2
SPECIFICATION DriverFairSpec
INVARIANTS DriverTypeOK OwnPayload CarriedOutSucceeds TrueMeansWritten
PROPERTIES ConfirmedWereDone SettingsKept TasksReturn
