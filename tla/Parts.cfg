\* home: three regions, of which a round probes two.  22 and 12 ms are just 10 ms
\* apart; 22 ms is a nanosecond too slow to be a third faster than 32.999999 ms,
\* 20 ms is not; 20 and 12 ms are less than 10 ms apart.
\* map: two changes at control, two sessions, keys that expire on the way.
\* dns: aliases that branch, join and form cycles.
CONSTANTS
  N = 3
  Latencies = {12000000, 20000000, 22000000, 32999999}
  MaxIncremental = 2
  MaxFull = 2
  URLs = {"u1", "u2", "u3"}
  PingCapacity = 2
  NoURL = NoURL
  Notifiers = {"udp", "maintain"}
  MaxEndpoints = 2
  MaxHomes = 1
  Peers = {"p1", "p2"}
  Callers = {"c1", "c2"}
  NodeKeys = {"n1", "n2"}
  MaxKeys = 3
  NoNode = NoNode
  NodeIDs = {1, 2}
  NodeNames = {"a", "b"}
  Expiries = {0, 2}
  Rules = {"r"}
  MaxChanges = 2
  MaxSessions = 2
  MaxTime = 2
  Absent = Absent
  Bits4 = 2
  Bits6 = 3
  MappedBlock = 1
  MaxPort = 1
  SourceLists <- MCSourceLists
  Destinations <- MCDestinations
  Protocols = {{}, {6}}
  NotConverted = NotConverted
  Candidates <- MCCandidates
  Aliases = {"alias"}
  V4Addresses = {"192.0.2.1"}
  V6Addresses = {"2001:db8::1"}
  MaxRecords = 3
  MaxUpdates = 1
SPECIFICATION PartsSpec
INVARIANTS
  HomeWellChosen TargetsSound PendingExact ControlInformed CacheDurable
  MapFollowsControl PolicyExact AnswerExact
PROPERTIES HomeSticky ChangesRevised Progress
CHECK_DEADLOCK FALSE
