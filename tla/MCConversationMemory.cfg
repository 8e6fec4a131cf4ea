SPECIFICATION Spec
CONSTANTS
  MaxTurns = 3
  MaxThreads = 2
  MaxGen = 1
  MaxProposals = 1
  MaxIncidents = 1
  Contents = {"tea"}
  Window = 1
  Chunk = 1
  SessionLimit = 1
  MaxAffinity = 1
  StartAffinity = 1
CHECK_DEADLOCK FALSE
INVARIANTS
  AffinityExact
  CommitEarned
  SummaryExact
  LinksExact
PROPERTIES
  TitleOnce
