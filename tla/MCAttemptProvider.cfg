CONSTANTS
  MaxTurns = 2
  MaxGen = 2
  MaxTitles = 1
  Tokens = 1
  Capacity = 2
  MaxFaults = 1
  MaxEvents = 2
CHECK_DEADLOCK FALSE
SPECIFICATION Spec
INVARIANTS
  OwnWords
  UsageKept
  WeightsReleased
PROPERTIES
  TurnServed
  FencedStreamEnds
