\* DERP: one slot.  Noise: writes of two records, nonces that run out, and a
\* connection that fills.
CONSTANTS
  Regions = {"r1"}
  Senders = {"send"}
  Ensurers = {}
  Updaters = {"map"}
  Workers = {"w1"}
  Closer = "closer"
  Slots = {"s1"}
  Clients = {"c1"}
  MaxGen = 1
  MaxMaps = 2
  Null = Null
  Writers = {"w1", "w2"}
  Readers = {"r1"}
  Sizes = {3}
  MaxPlaintext = 2
  InvalidNonce = 3
  Capacity = 2
  Fragment = Fragment
  NoFrame = NoFrame
SPECIFICATION ConnectionsSpec
INVARIANTS RecordsOrdered
PROPERTIES NothingWaits IsByteStream CloseReturns
\* The connections may rest.
CHECK_DEADLOCK FALSE
