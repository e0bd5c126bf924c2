\* Every stream of up to three frames, cut anywhere.
CONSTANTS
  Streams <- Sent
  MaxChunk = 7
  MaxFrame = 7
SPECIFICATION FairSpec
INVARIANTS TypeOK HandledApart NoneLost NoneWaiting
PROPERTIES ParseReturns
