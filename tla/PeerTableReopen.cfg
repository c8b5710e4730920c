\* One peer, two addresses, two openings of the bind.
CONSTANTS
  Keys = {"k1"}
  Discos = {"d1", "d2"}
  Addrs = {"a1", "a2"}
  Configs <- Restarting
  MaxLearned = 1
  MaxGen = 2
  MaxTx = 1
  MaxProbes = 1
  Null = Null
SPECIFICATION Spec
INVARIANTS AddrExact ThrottledWasAsked
CHECK_DEADLOCK FALSE
