--------------------------- MODULE MCHttpConnection ---------------------------
(* Request shapes for the model-checking runs of HttpConnection. *)
EXTENDS HttpConnection

get == [body |-> 0, length |-> FALSE, keep |-> TRUE, expect |-> FALSE,
        upgrade |-> "no", static |-> FALSE]
getClose == [get EXCEPT !.keep = FALSE]
getStatic == [get EXCEPT !.static = TRUE]
post == [get EXCEPT !.body = 2, !.length = TRUE]
postEmpty == [get EXCEPT !.length = TRUE]
postExpect == [post EXCEPT !.body = 1, !.expect = TRUE]
webSocket == [get EXCEPT !.upgrade = "ws"]
otherUpgrade == [get EXCEPT !.upgrade = "other"]

HttpShapes == {get, getClose, getStatic, post, postEmpty, postExpect, webSocket, otherUpgrade}
PipelinedShapes == {get}
WsShapes == {webSocket, otherUpgrade}
===============================================================================
