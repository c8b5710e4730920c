\* Two successive attachments under fair scheduling.
SPECIFICATION FairSpec
CONSTANTS
  n1 = n1  k1 = k1  k2 = k2  a1 = a1  a2 = a2
  Null = Null
  NodeIDs = {n1}
  Keys = {k1}
  Addrs = {a1}
  Nodes <- NodesOne
  ForeignSpecs <- NoOthers
  PathUpdates <- NoPaths
  ConfirmPeers = FALSE
  UseDefault = FALSE
  Callers = {"map", "attach"}
  MaxDev = 2
INVARIANTS Converged
PROPERTIES Completes
CHECK_DEADLOCK FALSE
