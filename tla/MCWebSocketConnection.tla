------------------------ MODULE MCWebSocketConnection ------------------------
(* Frames for the model-checking runs of WebSocketConnection: a fragment with *)
(* an extended length and a mask that wraps around, fragments with and        *)
(* without a mask, empty frames.                                              *)
EXTENDS WebSocketConnection

first == [fin |-> FALSE, opcode |-> "Binary", masked |-> TRUE, ext |-> 2, len |-> 5]
middle == [fin |-> FALSE, opcode |-> "Continuation", masked |-> FALSE, ext |-> 0, len |-> 1]
last == [middle EXCEPT !.fin = TRUE, !.masked = TRUE]
text == [fin |-> TRUE, opcode |-> "Text", masked |-> FALSE, ext |-> 0, len |-> 0]
ping == [text EXCEPT !.opcode = "Ping"]
close == [text EXCEPT !.opcode = "Close"]

ClientFrames == {first, middle, last, text, ping, close}

\* Of the old protocol: a text, a binary, an empty binary that begins like a
\* close, a close.
old == [fin |-> TRUE, opcode |-> "Text", masked |-> FALSE, ext |-> 0, len |-> 1, first |-> 0]
oldBinary == [old EXCEPT !.opcode = "Binary", !.len = 2, !.first = 128]
oldEmpty == [oldBinary EXCEPT !.ext = 1, !.len = 0, !.first = 255]
oldClose == [oldEmpty EXCEPT !.opcode = "Close", !.ext = 0]

ClientOldFrames == {old, oldBinary, oldEmpty, oldClose}
===============================================================================
