\* NodeManager stops a source, then the source's destructor stops it again.
CONSTANTS
  Chain = {"cloud"}
  NDst = 1
  MaxMsgs = 1
SPECIFICATION Spec
INVARIANTS NoTerminate
