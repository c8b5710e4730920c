\* Start, the map loop and Close; a subscriber that asked for no buffer and has room
\* for one event, which may be slow, stop receiving, or cancel.
CONSTANTS
  Producers = {"map"}
  Starter = "start"
  Closer = "close"
  Subs = {"s1"}
  Buffer <- Asked
  MaxEvents = 2
  MaxRev = 4
  None = None
SPECIFICATION FairSpec
INVARIANTS WakesWithNewest StoppedIsSeen
PROPERTIES EventsArrive
CHECK_DEADLOCK FALSE
