CONSTANTS
  Conn = {c1, c2}
  MaxQueue = 1
SPECIFICATION Spec
INVARIANTS MemorySafe StopClosesAll
PROPERTIES StoppedServerIsFreed
CHECK_DEADLOCK FALSE
