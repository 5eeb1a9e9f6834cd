CONSTANTS
  Timeout = 2
  MaxTime = 9
  MaxLatency = 4
SPECIFICATION Spec
INVARIANTS
  FusedAreClose
PROPERTIES
  FusedInOrder
CHECK_DEADLOCK FALSE
