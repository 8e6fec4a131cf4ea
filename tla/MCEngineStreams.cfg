SPECIFICATION MCSpec
CONSTANTS
  Devices = {"phones", "speaker"}
  BuiltIn = {"speaker"}
  Decisions = {"undetermined"}
  MaxEvents = 3
CHECK_DEADLOCK FALSE
INVARIANTS
  FlushExplained
PROPERTIES
  Settles
  CommandReturns
