\* Replies as late as they please, requests refused or ignored; only the
\* operations whose replies get in each other's way.
CONSTANTS
  Families = {"airy", "ruby4", "helios", "mems"}
  UsedOps <- SharingOps
  Faults = {"refuse", "ignore"}
  Prompt = FALSE
  MaxCalls = 3
SPECIFICATION Spec
INVARIANTS OneReplyOneSuccess
