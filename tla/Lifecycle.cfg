SPECIFICATION FairSpec
CONSTANTS
  Null = Null
  URLs = {u1, u2}
  MaxGen = 2
  MaxID = 3
INVARIANTS DoneIsQuiet InteractionMatchesControl ReportIsCurrent
PROPERTIES StopsForGood AuthenticationProgress
CHECK_DEADLOCK FALSE
