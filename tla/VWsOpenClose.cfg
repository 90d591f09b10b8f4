CONSTANTS
  Shapes <- WsShapes
  MaxReq = 1
  MaxWs = 0
  Pipelined = {}
  Eager = FALSE
  Disruptions = {"eof"}
  Bodies = {1}
  OnHeaders = {}
  AppErrors = FALSE
  NullCall = FALSE
SPECIFICATION Spec
PROPERTIES WsOpenedIsClosed
CHECK_DEADLOCK FALSE
