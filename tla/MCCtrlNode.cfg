\* The startup request and two more, connections lost at any moment, a class for
\* each kind of builder.
CONSTANTS
  Families = {"airy", "helios", "mems"}
  MaxCalls = 3
  MaxRequests = 3
SPECIFICATION FairNodeSpec
INVARIANTS NodeTypeOK ReaderHasSocket CrashNeedsMisuse PowerAgrees CrashNeedsDrop
PROPERTIES NoThreadLeft RequestAnswered
