\* Two logs in a row, of up to three pieces, from a paced lidar or one that
\* sends as fast as it likes.
CONSTANTS
  Families = {"airy", "helios"}
  Kinds = {"event", "monitor"}
  Paces = {TRUE, FALSE}
  MaxPieces = 3
  MaxCalls = 2
SPECIFICATION FairSpec
INVARIANTS TypeOK LogInOrder
PROPERTIES CallEnds
