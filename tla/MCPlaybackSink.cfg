SPECIFICATION FairSpec
CONSTANTS
  LastGen = 3
  Capacity = 1
  MaxChunks = 1
  MaxTracked = 3
  Drainers = {d1, d2}
CHECK_DEADLOCK FALSE
INVARIANTS
  DrainMeansPlayed
  NoLostWakeup
  PurgeComplete
PROPERTIES
  DrainReturns
