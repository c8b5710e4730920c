SPECIFICATION Spec
CONSTANTS
  n1 = n1  k1 = k1  k2 = k2  a1 = a1  a2 = a2
  Null = Null
  NodeIDs = {n1}
  Keys = {k1}
  Addrs = {a1}
  Nodes <- NodesStatic
  ForeignSpecs <- NoOthers
  PathUpdates <- NoPaths
  ConfirmPeers = TRUE
  UseDefault = TRUE
  Callers = {"map", "worker", "confirm", "latency", "attach"}
  MaxDev = 1
INVARIANTS
  ReleasedAfterDone
CHECK_DEADLOCK FALSE
