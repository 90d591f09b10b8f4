CONSTANTS
  Frames <- ClientFrames
  OldFrames <- ClientOldFrames
  MaxFrames = 3
  MaxSends = 1
  MaxPings = 1
  Breaks = TRUE
SPECIFICATION Spec
INVARIANTS TypeOK MessagesExact NothingAfterClose SendsFromLiveBuffers
PROPERTIES CloseEnds
CHECK_DEADLOCK FALSE
