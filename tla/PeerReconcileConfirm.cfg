\* A node that may rotate its key and needs a confirmation.
SPECIFICATION Spec
CONSTANTS
  n1 = n1  k1 = k1  k2 = k2  a1 = a1  a2 = a2
  Null = Null
  NodeIDs = {n1}
  Keys = {k1, k2}
  Addrs = {a1}
  Nodes <- NodesByKey
  ForeignSpecs <- NoOthers
  PathUpdates <- NoPaths
  ConfirmPeers = TRUE
  UseDefault = FALSE
  Callers = {"map", "confirm", "latency"}
  MaxDev = 1
INVARIANTS BindTracksApplied CleanAfterClose
SYMMETRY Interchangeable
CHECK_DEADLOCK FALSE
