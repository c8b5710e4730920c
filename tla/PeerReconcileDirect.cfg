SPECIFICATION Spec
CONSTANTS
  n1 = n1  k1 = k1  k2 = k2  a1 = a1  a2 = a2
  Null = Null
  NodeIDs = {n1}
  Keys = {k1}
  Addrs = {a1, a2}
  Nodes <- NodesDirect
  ForeignSpecs <- OtherDefault
  PathUpdates <- PathsDirect
  ConfirmPeers = FALSE
  UseDefault = TRUE
  Callers = {"map", "worker"}
  MaxDev = 1
INVARIANTS Converged RecoveryIsForCurrentPath
PROPERTIES OtherSpecsUntouched
CHECK_DEADLOCK FALSE
