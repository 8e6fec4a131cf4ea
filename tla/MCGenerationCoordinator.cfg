SPECIFICATION FairSpec
CONSTANTS
  MaxGen = 3
  HistoryLimit = 2
  Reasons = {"barge_in", "device_changed"}
CHECK_DEADLOCK FALSE
INVARIANTS
  FenceOrder
  Settled
  ProposalsFenced
PROPERTIES
  TeardownsEnd
  FenceSpec
