CONSTANTS
  Srv = {s1, s2, s3}
  Kinds = {"tcp", "pipe"}
  Addr = {a1, a2, a3}
  NULL = NULL
  GARBAGE = GARBAGE
  ThreadMayFail = TRUE
SPECIFICATION Spec
INVARIANTS ReadyWhenUsed ListsAgree FreesOwnSocket
PROPERTIES StoppedTcpServerIsUnbound CallsReturn
CHECK_DEADLOCK FALSE
