SPECIFICATION MCSpec
CONSTANTS
  Devices = {"first", "second"}
  BuiltIn = {}
  Decisions = {"authorized"}
  MaxEvents = 5
CHECK_DEADLOCK FALSE
INVARIANT InputFollowsDefaults
