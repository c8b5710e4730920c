\* Two regions, one of them without a STUN node, two rounds, and a bind that is
\* closed and opened again, with or without UDP.
CONSTANTS
  Regions = {1, 2}
  STUNRegions = {1}
  MaxRounds = 2
  MaxGen = 2
SPECIFICATION FairSpec
INVARIANTS RemainingExact MeasurementsCurrent
PROPERTIES RoundsInOrder
CHECK_DEADLOCK FALSE
