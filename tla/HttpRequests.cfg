CONSTANTS
  Shapes <- HttpShapes
  MaxReq = 2
  MaxWs = 2
  Pipelined <- PipelinedShapes
  Eager = FALSE
  Disruptions = {"eof", "stop", "writeError"}
  Bodies = {0, 2}
  OnHeaders = {"no"}
  AppErrors = TRUE
  NullCall = TRUE
SPECIFICATION Spec
INVARIANTS ParserResumedOnce BufferedWhileWaiting EnvIsOfRequest CallSeesWholeBody WireIsWellFormed WsCallbacksInOrder
PROPERTIES ClosesAfterResponse EveryRequestAnswered ClosingCompletes
CHECK_DEADLOCK FALSE
