\* Two peers contend for a DISCO key and for addresses; the bind is not reopened.
CONSTANTS
  Keys = {"k1", "k2"}
  Discos = {"d1", "d2"}
  Addrs = {"a1", "a2"}
  Configs <- Exchanging
  MaxLearned = 1
  MaxGen = 1
  MaxTx = 0
  MaxProbes = 0
  Null = Null
SPECIFICATION Spec
INVARIANTS AddrExact DiscoExact
CHECK_DEADLOCK FALSE
