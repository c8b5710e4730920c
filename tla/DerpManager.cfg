\* One region, which comes and goes, two connections, two openings of the bind; a
\* sender, maintain and the map loop.
CONSTANTS
  Regions = {"r1"}
  Senders = {"send"}
  Ensurers = {"maintain"}
  Updaters = {"map"}
  s1 = s1
  c1 = c1
  c2 = c2
  w1 = w1
  w2 = w2
  Workers = {w1, w2}
  Closer = "closer"
  Slots = {s1}
  Clients = {c1, c2}
  MaxGen = 2
  MaxMaps = 2
  Null = Null
SPECIFICATION Spec
INVARIANTS ConnectionsOwned AttemptsCoalesced MapsAgree
SYMMETRY Interchangeable
