SPECIFICATION Spec
CONSTANTS
  Threads = {"a", "b"}
  Capacity = 1
  MaxChanges = 2
  MaxBuilds = 1
CHECK_DEADLOCK FALSE
INVARIANTS
  PageConverges
  CallKeepsThread
  EnginesAccounted
