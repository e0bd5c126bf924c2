\* A monitor log of two pieces.
CONSTANTS
  Families = {"airy"}
  Kinds = {"monitor"}
  Paces = {TRUE}
  MaxPieces = 2
  MaxCalls = 1
SPECIFICATION FairSpec
PROPERTIES LogEnds
