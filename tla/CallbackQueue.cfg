CONSTANTS
  Foreign = {main}
  Loop = io
  MaxPush = 4
SPECIFICATION Spec
INVARIANTS TypeOK NoStrandedCallback WakeupAndOrder
PROPERTIES ImplementsExecutor
CHECK_DEADLOCK FALSE
