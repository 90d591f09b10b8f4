CONSTANTS
  Shapes <- WsShapes
  MaxReq = 1
  MaxWs = 2
  Pipelined = {}
  Eager = TRUE
  Disruptions = {}
  Bodies = {1}
  OnHeaders = {}
  AppErrors = FALSE
  NullCall = FALSE
SPECIFICATION Spec
INVARIANTS WsStreamIntact
CHECK_DEADLOCK FALSE
