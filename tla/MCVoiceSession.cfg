CONSTANTS
  MaxGen = 2
  MaxTurns = 1
  MaxSentences = 1
  Snapshots <- MCSnapshots
  BuiltIn <- MCBuiltIn
  EncoderReady = TRUE
CHECK_DEADLOCK FALSE
SPECIFICATION FairSpec
INVARIANTS
  RowsSettled
  FencesSettled
PROPERTIES
  FenceSpec
  StaleTurnsFrozen
  TurnsEnd
  BusyEnds
