-------------------------- MODULE WebSocketConnection --------------------------
(***************************************************************************)
(* A WebSocket after its handshake: WSHyBiParser or, for the older draft   *)
(* Hixie-76, WSHixie76Parser, which cut the byte stream into frames,       *)
(* WebSocketConnection, which puts messages together and runs the closing  *)
(* handshake, the ping timer, and the R object that sends and closes       *)
(* through the background queue.                                           *)
(*                                                                         *)
(* A byte is named by its place: byte o (from 0) of the client's f-th      *)
(* frame, with the index of the masking-key byte it is XORed with.  What   *)
(* a frame header says is a property of the frame its bytes come from.     *)
(* A call of read() is split into one step per turn of its loop; nothing   *)
(* else runs on the background thread meanwhile.                           *)
(***************************************************************************)
EXTENDS Naturals, Sequences, FiniteSets

CONSTANTS
  Frames,     \* the frames a client may send: see Frame
  OldFrames,  \* those of a client of the draft Hixie-76: see OldFrame
  MaxFrames,  \* bound: frames sent by the client
  MaxSends,   \* bound: messages sent by R
  MaxPings,   \* bound: expirations of the ping timer
  Breaks      \* the connection may break, or the server be stopped

MAX_HEADER_BYTES == 14
CLEAR == 4     \* the mask index of a byte that is not masked
GARBLED == 5   \* of one that was unmasked wrongly

Opcode == {"Continuation", "Text", "Binary", "Close", "Ping", "Pong", "Reserved"}

Frame == [fin : BOOLEAN, opcode : Opcode, masked : BOOLEAN,
          ext : {0, 2, 8},  \* bytes of extended payload length
          len : Nat]        \* payload bytes

\* A frame of Hixie-76: text between two markers, a binary with its length in
\* digits of seven bits (ext leading zeros), or the two bytes of a close.
OldFrame == [fin : {TRUE}, opcode : {"Text", "Binary", "Close"}, masked : {FALSE},
             ext : Nat, len : 0..127, first : {0, 128, 255}]

ASSUME ConstantsAssumption ==
  /\ Frames \subseteq Frame /\ OldFrames \subseteq OldFrame
  /\ \A f \in OldFrames : /\ (f.opcode = "Text") = (f.first = 0)
                          /\ f.opcode = "Close" => f.first = 255 /\ f.len = 0 /\ f.ext = 0
                          /\ f.opcode = "Binary" /\ f.first = 255 => f.len + f.ext > 0
  /\ MaxFrames \in Nat /\ MaxSends \in Nat /\ MaxPings \in Nat /\ Breaks \in BOOLEAN

VARIABLES
  frames,  \* the frames the client has sent
  net,     \* bytes of them that were not read yet
  parser,  \* the WSHyBiParser, or the WSHixie76Parser if it is old, with the
           \* call of read() in progress
  conn,    \* the WebSocketConnection
  socket,  \* the HttpRequest under it: open, closing, closed
  out,     \* frames handed to the stream, in order
  got,     \* messages passed to R by onWSMessage, in order
  bgq,     \* the background thread's queue
  ws       \* the R object: its handle, messages sent, buffers alive, told of
           \* the end; pings: expirations of the timer

vars == <<frames, net, parser, conn, socket, out, got, bgq, ws>>

-------------------------------------------------------------------------------
(* Frames and their bytes *)

\* WSHyBiFrameHeader::headerLength
HeaderLength(f) == 2 + f.ext + (IF f.masked THEN 4 ELSE 0)

Old(f) == "first" \in DOMAIN f
PayloadStart(f) == IF ~Old(f) THEN HeaderLength(f)
                   ELSE IF f.opcode = "Text" THEN 1 ELSE 2 + f.ext
Size(f) == PayloadStart(f) + f.len + (IF Old(f) /\ f.opcode = "Text" THEN 1 ELSE 0)

\* The bytes of frame f, the n-th of the stream, as the client sends them.
Bytes(f, n) ==
  LET h == PayloadStart(f) IN
  [i \in 1..Size(f) |->
     [f |-> n, o |-> i - 1,
      m |-> IF f.masked /\ i > h THEN (i - 1 - h) % 4 ELSE CLEAR]]

\* What the bytes of a header say, WSHyBiFrameHeader::info: the first two bytes
\* hold the opcode, the mask bit and the length, or how many bytes it takes.
Info(bytes) == frames[bytes[2].f]

HeaderComplete(bytes) == Len(bytes) >= 2 /\ Len(bytes) >= HeaderLength(Info(bytes))

\* The value of a byte of an old frame: its type, a digit of its length (the
\* highest bit says that another one follows), 255 behind a text.  The value
\* of a byte of payload is not 255 and does not matter otherwise.
Value(b) ==
  LET f == frames[b.f] IN
  CASE b.o = 0 -> f.first
    [] f.opcode = "Text" /\ b.o = Size(f) - 1 -> 255
    [] f.opcode # "Text" /\ b.o \in 1..f.ext -> 128
    [] f.opcode # "Text" /\ b.o = f.ext + 1 -> f.len
    [] OTHER -> 65

From(s, i) == SubSeq(s, i, Len(s))
Least(a, b) == IF a < b THEN a ELSE b

-------------------------------------------------------------------------------
NoHeader == [f |-> 0, fin |-> TRUE, opcode |-> "Text", masked |-> FALSE]

\* accept() has chosen the parser and started the timer; R has been told.
Init ==
  /\ frames = <<>> /\ net = <<>>
  /\ \E old \in BOOLEAN :
       parser = [old |-> old, state |-> IF old THEN "H76_START" ELSE "InHeader", header |-> <<>>, bytesLeft |-> 0,
                 reading |-> FALSE, recur |-> FALSE, data |-> <<>>]
  /\ conn = [state |-> "WS_OPEN", header |-> NoHeader, payload |-> <<>>,
             incompleteHeader |-> NoHeader, incompletePayload |-> <<>>]
  /\ socket = "open"
  /\ out = <<>> /\ got = <<>> /\ bgq = <<>>
  /\ ws = [handle |-> TRUE, sent |-> 0, live |-> {}, closed |-> "no", pings |-> 0]

-------------------------------------------------------------------------------
(* The client keeps to the protocol: a message is fragmented by frames that  *)
(* are not final and a final continuation, with nothing but control frames   *)
(* between them.  Frames that follow its Close are to be ignored.            *)

Control(f) == f.opcode \in {"Close", "Ping", "Pong", "Reserved"}

InMessage == \E i \in DOMAIN frames :
  /\ ~frames[i].fin
  /\ \A j \in (i + 1)..Len(frames) : Control(frames[j]) \/ ~frames[j].fin

ClientFrame(f) ==
  /\ Len(frames) < MaxFrames /\ socket = "open"
  /\ Control(f) \/ (f.opcode = "Continuation" <=> InMessage)
  /\ frames' = Append(frames, f)
  /\ net' = net \o Bytes(f, Len(frames) + 1)
  /\ UNCHANGED <<parser, conn, socket, out, got, bgq, ws>>

-------------------------------------------------------------------------------
(* Sending and closing *)

\* WebSocketConnection::sendWSMessage on the object c, and sendWSFrame: nothing
\* on a closed WebSocket; uv_write refuses once the socket was closed.  In
\* Hixie-76 every frame, whatever its opcode, is sent as a text.
SendWSMessage(c, op, n) ==
  IF c.state = "WS_CLOSED" \/ socket # "open" THEN out
  ELSE Append(out, [op |-> op, as |-> IF parser.old THEN "Text" ELSE op, n |-> n])

\* A close that leaves the socket to the client.
WaitForClient == UNCHANGED <<socket, ws>>

\* closeWSSocket, HttpRequest::close: R will be told; the second call does
\* nothing.
CloseWSSocket ==
  /\ socket' = IF socket = "open" THEN "closing" ELSE socket
  /\ ws' = IF socket = "open" THEN [ws EXCEPT !.closed = "scheduled"] ELSE ws

-------------------------------------------------------------------------------
(* Reading *)

\* HttpRequest::_on_request_read and WebSocketConnection::read
Read ==
  /\ ~parser.reading /\ socket = "open" /\ net # <<>> /\ conn.state # "WS_CLOSED"
  /\ \E n \in 1..Len(net) :
       /\ parser' = [parser EXCEPT !.reading = TRUE, !.data = SubSeq(net, 1, n)]
       /\ net' = From(net, n + 1)
  /\ UNCHANGED <<frames, conn, socket, out, got, bgq, ws>>

\* onHeaderComplete
OnHeaderComplete(c, f, info) ==
  LET header == [f |-> f, fin |-> info.fin, opcode |-> info.opcode,
                 masked |-> info.masked] IN
  IF c.state = "WS_CLOSED" THEN c
  ELSE [c EXCEPT !.header = header,
                 !.incompleteHeader = IF ~info.fin /\ info.opcode # "Continuation"
                                        THEN header ELSE @]

\* The payload offset does not take into account what was read before.
ParseHeaderResplit ==
  /\ parser.reading /\ parser.state = "InHeader" /\ parser.data # <<>>
  /\ LET bytes == parser.header \o SubSeq(parser.data, 1,
                    Least(Len(parser.data), MAX_HEADER_BYTES - Len(parser.header))) IN
     \/ /\ HeaderComplete(bytes)
        /\ conn' = OnHeaderComplete(conn, bytes[2].f, Info(bytes))
        /\ parser' = [parser EXCEPT !.state = "InPayload", !.header = <<>>,
                        !.bytesLeft = Info(bytes).len, !.recur = (Info(bytes).len = 0),
                        !.data = From(@, HeaderLength(Info(bytes)) + 1)]
     \/ /\ ~HeaderComplete(bytes)
        /\ parser' = [parser EXCEPT !.header = bytes, !.data = <<>>]
        /\ UNCHANGED conn
  /\ UNCHANGED <<frames, net, socket, out, got, bgq, ws>>

\* WSHyBiParser::read, case InHeader: collect up to 14 bytes, of which some may
\* be payload; without a complete header, all of the data was header.
ParseHeader ==
  /\ parser.reading /\ parser.state = "InHeader" /\ parser.data # <<>>
  /\ LET had == Len(parser.header)
         bytes == parser.header \o SubSeq(parser.data, 1,
                                          Least(Len(parser.data), MAX_HEADER_BYTES - had))
         info == Info(bytes) IN
     \/ /\ HeaderComplete(bytes)
        /\ conn' = OnHeaderComplete(conn, bytes[2].f, info)
        /\ parser' = [parser EXCEPT !.state = "InPayload", !.header = <<>>,
                        !.bytesLeft = info.len, !.recur = (info.len = 0),
                        !.data = From(@, HeaderLength(info) - had + 1)]
     \/ /\ ~HeaderComplete(bytes)
        /\ parser' = [parser EXCEPT !.header = bytes, !.data = <<>>]
        /\ UNCHANGED conn
  /\ UNCHANGED <<frames, net, socket, out, got, bgq, ws>>

\* XOR of byte b with byte j of the masking key of frame f.
Unmask(b, f, j) == [b EXCEPT !.m = IF b.m = j /\ b.f = f THEN CLEAR ELSE GARBLED]

\* onPayload: the masking key is used from the start of the frame's payload,
\* not from the start of this piece.
OnPayload(c, d) ==
  LET had == Len(c.payload)
      plain == [i \in DOMAIN d |-> Unmask(d[i], c.header.f, (had + i - 1) % 4)] IN
  IF c.state = "WS_CLOSED" THEN c
  ELSE [c EXCEPT !.payload = @ \o (IF c.header.masked THEN plain ELSE d)]

\* onFrameComplete.  A Close is answered on the object that is already marked
\* as closed, so that sendWSMessage sends nothing.
OnFrameComplete(c) ==
  LET live(op) == c.state # "WS_CLOSED" /\ c.header.fin /\ c.header.opcode \in op
      done == [c EXCEPT !.payload = <<>>]
      closed == [done EXCEPT !.state = "WS_CLOSED"]
      whole == c.incompletePayload \o c.payload IN
  \/ /\ c.state = "WS_CLOSED"
     /\ conn' = c /\ UNCHANGED <<socket, out, got, ws>>
  \/ /\ c.state # "WS_CLOSED" /\ ~c.header.fin
     /\ conn' = [done EXCEPT !.incompletePayload = whole]
     /\ UNCHANGED <<socket, out, got, ws>>
  \/ /\ live({"Continuation"})
     /\ got' = Append(got, [binary |-> c.incompleteHeader.opcode = "Binary", data |-> whole])
     /\ conn' = [done EXCEPT !.incompletePayload = <<>>]
     /\ UNCHANGED <<socket, out, ws>>
  \/ /\ live({"Text", "Binary"})
     /\ got' = Append(got, [binary |-> c.header.opcode = "Binary", data |-> c.payload])
     /\ conn' = done /\ UNCHANGED <<socket, out, ws>>
  \/ /\ live({"Close"})
     /\ conn' = closed
     /\ out' = IF c.state = "WS_OPEN" THEN SendWSMessage(closed, "Close", 0) ELSE out
     /\ CloseWSSocket
     /\ UNCHANGED got
  \/ /\ live({"Ping"})
     /\ out' = SendWSMessage(c, "Pong", 0)
     /\ conn' = done /\ UNCHANGED <<socket, got, ws>>
  \/ /\ live({"Pong", "Reserved"})
     /\ conn' = done /\ UNCHANGED <<socket, out, got, ws>>

\* The payload is taken to go to the end of the data.
ParsePayloadToEnd ==
  /\ parser.reading /\ parser.state = "InPayload" /\ parser.data # <<>>
  /\ conn' = OnPayload(conn, parser.data)
  /\ parser' = [parser EXCEPT !.data = <<>>, !.bytesLeft = @ - Len(parser.data)]
  /\ UNCHANGED <<frames, net, socket, out, got, bgq, ws>>

\* WSHyBiParser::read, case InPayload
ParsePayload ==
  /\ parser.reading /\ parser.state = "InPayload"
  /\ parser.data # <<>> \/ parser.recur
  /\ LET n == Least(Len(parser.data), parser.bytesLeft)
         c == OnPayload(conn, SubSeq(parser.data, 1, n))
         p == [parser EXCEPT !.recur = FALSE, !.bytesLeft = @ - n,
                             !.data = From(@, n + 1)] IN
     \/ /\ n = parser.bytesLeft
        /\ parser' = [p EXCEPT !.state = "InHeader"]
        /\ OnFrameComplete(c)
     \/ /\ n < parser.bytesLeft
        /\ parser' = p
        /\ conn' = c
        /\ UNCHANGED <<socket, out, got, ws>>
  /\ UNCHANGED <<frames, net, bgq>>

\* WSHixie76Parser::read, one turn of its loop.
OldState(state, n) ==
  parser' = [parser EXCEPT !.state = state, !.data = From(@, n + 1),
                           !.bytesLeft = IF parser.state = "H76_START" THEN 0 ELSE @]

OldHeader(opcode) ==
  OnHeaderComplete(conn, Head(parser.data).f, [fin |-> TRUE, opcode |-> opcode, masked |-> FALSE])

Unprocessed == UNCHANGED <<socket, out, got, ws>>

OldStart(v) ==
  /\ parser.state = "H76_START"
  /\ \/ v = 255 /\ OldState("H76_IN_BINARY_OR_CLOSE_FRAME_LENGTH", 1) /\ UNCHANGED conn
     \/ v < 128 /\ OldState("H76_IN_TEXT_FRAME", 1) /\ conn' = OldHeader("Text")
     \/ v \in 128..254 /\ OldState("H76_IN_BINARY_FRAME_LENGTH", 1) /\ UNCHANGED conn
  /\ Unprocessed

OldText ==
  /\ parser.state = "H76_IN_TEXT_FRAME"
  /\ LET marks == {i \in DOMAIN parser.data : Value(parser.data[i]) = 255}
         n == IF marks = {} THEN Len(parser.data)
              ELSE (CHOOSE i \in marks : \A j \in marks : i <= j) - 1
         c == OnPayload(conn, SubSeq(parser.data, 1, n)) IN
     \/ marks # {} /\ OldState("H76_START", n + 1) /\ OnFrameComplete(c)
     \/ marks = {} /\ OldState("H76_IN_TEXT_FRAME", n) /\ conn' = c /\ Unprocessed

\* A close, or the first digit of a length: the byte is looked at again.
OldClose(v) ==
  /\ parser.state = "H76_IN_BINARY_OR_CLOSE_FRAME_LENGTH"
  /\ \/ v = 0 /\ OldState(parser.state, 1) /\ OnFrameComplete(OldHeader("Close"))
     \/ v # 0 /\ OldState("H76_IN_BINARY_FRAME_LENGTH", 0) /\ UNCHANGED conn /\ Unprocessed

OldLength(v) ==
  /\ parser.state = "H76_IN_BINARY_FRAME_LENGTH"
  /\ LET left == parser.bytesLeft * 128 + (v % 128)
         p == [parser EXCEPT !.bytesLeft = left, !.data = Tail(@)] IN
     \/ v >= 128 /\ parser' = p /\ UNCHANGED conn /\ Unprocessed
     \/ /\ v < 128 /\ left > 0
        /\ parser' = [p EXCEPT !.state = "H76_IN_BINARY_FRAME"]
        /\ conn' = OldHeader("Binary") /\ Unprocessed
     \/ /\ v < 128 /\ left = 0
        /\ parser' = [p EXCEPT !.state = "H76_START"]
        /\ OnFrameComplete(OldHeader("Binary"))

OldBinary ==
  /\ parser.state = "H76_IN_BINARY_FRAME"
  /\ LET n == Least(Len(parser.data), parser.bytesLeft)
         c == OnPayload(conn, SubSeq(parser.data, 1, n))
         p == [parser EXCEPT !.bytesLeft = @ - n, !.data = From(@, n + 1)] IN
     \/ n < parser.bytesLeft /\ parser' = p /\ conn' = c /\ Unprocessed
     \/ /\ n = parser.bytesLeft
        /\ parser' = [p EXCEPT !.state = "H76_START"]
        /\ OnFrameComplete(c)

ParseOld ==
  /\ parser.reading /\ parser.old /\ parser.data # <<>>
  /\ \/ OldStart(Value(Head(parser.data))) \/ OldText
     \/ OldClose(Value(Head(parser.data))) \/ OldLength(Value(Head(parser.data))) \/ OldBinary
  /\ UNCHANGED <<frames, net, bgq>>

ReadReturns ==
  /\ parser.reading /\ parser.data = <<>> /\ ~parser.recur
  /\ parser' = [parser EXCEPT !.reading = FALSE]
  /\ UNCHANGED <<frames, net, conn, socket, out, got, bgq, ws>>

-------------------------------------------------------------------------------
(* Other events of the background thread *)

\* pingTimerCallback; sendPing does nothing on a closed WebSocket.
PingTimer ==
  /\ ~parser.reading /\ ws.pings < MaxPings /\ conn.state # "WS_CLOSED"
  /\ out' = SendWSMessage(conn, "Ping", 0)
  /\ ws' = [ws EXCEPT !.pings = @ + 1]
  /\ UNCHANGED <<frames, net, parser, conn, socket, got, bgq>>

\* The client goes away, or the server is stopped: HttpRequest::close.
SocketBreaks ==
  /\ Breaks /\ ~parser.reading /\ socket = "open"
  /\ CloseWSSocket
  /\ UNCHANGED <<frames, net, parser, conn, out, got, bgq>>

\* HttpRequest::_on_closed: markClosed
OnClosed ==
  /\ ~parser.reading /\ socket = "closing"
  /\ socket' = "closed"
  /\ conn' = [conn EXCEPT !.state = "WS_CLOSED"]
  /\ UNCHANGED <<frames, net, parser, out, got, bgq, ws>>

Flush(op) == ~parser.reading /\ bgq # <<>> /\ Head(bgq).op = op /\ bgq' = Tail(bgq)

\* The callbacks that sendWSMessage of httpuv.cpp pushes.
TaskSend ==
  /\ Flush("send")
  /\ out' = SendWSMessage(conn, "Text", Head(bgq).n)
  /\ UNCHANGED <<frames, net, parser, conn, socket, got, ws>>

TaskFree ==
  /\ Flush("free")
  /\ ws' = [ws EXCEPT !.live = @ \ {Head(bgq).n}]
  /\ UNCHANGED <<frames, net, parser, conn, socket, out, got>>

\* WebSocketConnection::closeWS.  (WS_CLOSE_RECEIVED lasts only within
\* onFrameComplete and is never met here.)
TaskCloseWS ==
  /\ Flush("closeWS")
  /\ \/ /\ conn.state \in {"WS_CLOSE_SENT", "WS_CLOSED"}
        /\ UNCHANGED <<conn, out>>
     \/ /\ conn.state = "WS_OPEN"
        /\ conn' = [conn EXCEPT !.state = "WS_CLOSE_SENT"]
        /\ out' = SendWSMessage(conn', "Close", 0)
  /\ UNCHANGED <<frames, net, parser, socket, got, ws>>

-------------------------------------------------------------------------------
(* The WebSocket object of R *)

\* The buffer is given back before it is used.
SendFreesFirst ==
  /\ ws.handle /\ ws.sent < MaxSends
  /\ LET n == ws.sent + 1 IN
     /\ ws' = [ws EXCEPT !.sent = n, !.live = @ \cup {n}]
     /\ bgq' = bgq \o <<[op |-> "free", n |-> n], [op |-> "send", n |-> n]>>
  /\ UNCHANGED <<frames, net, parser, conn, socket, out, got>>

\* ws$send, and sendWSMessage of httpuv.cpp
Send ==
  /\ ws.handle /\ ws.sent < MaxSends
  /\ LET n == ws.sent + 1 IN
     /\ ws' = [ws EXCEPT !.sent = n, !.live = @ \cup {n}]
     /\ bgq' = bgq \o <<[op |-> "send", n |-> n], [op |-> "free", n |-> n]>>
  /\ UNCHANGED <<frames, net, parser, conn, socket, out, got>>

\* The handle survives the close.
CloseKeepsHandle ==
  /\ ws.handle
  /\ bgq = <<>>
  /\ bgq' = Append(bgq, [op |-> "closeWS"])
  /\ UNCHANGED <<frames, net, parser, conn, socket, out, got, ws>>

\* ws$close, and closeWS of httpuv.cpp
Close ==
  /\ ws.handle
  /\ bgq' = Append(bgq, [op |-> "closeWS"])
  /\ ws' = [ws EXCEPT !.handle = FALSE]
  /\ UNCHANGED <<frames, net, parser, conn, socket, out, got>>

\* AppWrapper$onWSClose
OnWSClose ==
  /\ ws.closed = "scheduled"
  /\ ws' = [ws EXCEPT !.closed = "told", !.handle = FALSE]
  /\ UNCHANGED <<frames, net, parser, conn, socket, out, got, bgq>>

-------------------------------------------------------------------------------
Parse == ParseHeader \/ ParsePayload \/ ParseOld \/ ReadReturns
BgTask == TaskSend \/ TaskFree \/ TaskCloseWS

Next == \/ \E f \in IF parser.old THEN OldFrames ELSE Frames : ClientFrame(f)
        \/ Read \/ Parse \/ PingTimer \/ SocketBreaks \/ OnClosed
        \/ BgTask
        \/ Send \/ Close \/ OnWSClose

\* The loop serves the socket and the queue, R's event loop runs its tasks.
Fairness == /\ WF_vars(Read) /\ WF_vars(Parse) /\ WF_vars(OnClosed)
            /\ WF_vars(BgTask) /\ WF_vars(OnWSClose)

Spec == Init /\ [][Next]_vars /\ Fairness

-------------------------------------------------------------------------------
\* Bytes of the frames sent so far, headers of them, tasks of the queue.
ByteSeq == Seq([f : 1..Len(frames), o : Nat, m : 0..GARBLED])
Header == [f : 0..Len(frames), fin : BOOLEAN, opcode : Opcode, masked : BOOLEAN]
Task == [op : {"send", "free"}, n : 1..MaxSends] \cup [op : {"closeWS"}]

Parser ==
  [old : BOOLEAN, header : ByteSeq, bytesLeft : Nat, reading : BOOLEAN, recur : BOOLEAN,
   data : ByteSeq,
   state : {"H76_START", "H76_IN_TEXT_FRAME", "H76_IN_BINARY_OR_CLOSE_FRAME_LENGTH",
            "H76_IN_BINARY_FRAME_LENGTH", "H76_IN_BINARY_FRAME", "InHeader", "InPayload"}]

Connection ==
  [state : {"WS_OPEN", "WS_CLOSE_SENT", "WS_CLOSED"}, header : Header, payload : ByteSeq,
   incompleteHeader : Header, incompletePayload : ByteSeq]

\* Every variable has its type; the parser is in a state of its protocol and
\* keeps at most the 13 bytes of a header that is not complete.
TypeOK ==
  /\ frames \in Seq(IF parser.old THEN OldFrames ELSE Frames) /\ net \in ByteSeq
  /\ parser \in Parser /\ Len(parser.header) < MAX_HEADER_BYTES
  /\ parser.old <=> parser.state \notin {"InHeader", "InPayload"}
  /\ conn \in Connection
  /\ socket \in {"open", "closing", "closed"}
  /\ out \in Seq([op : Opcode, as : Opcode, n : 0..MaxSends])
  /\ got \in Seq([binary : BOOLEAN, data : ByteSeq])
  /\ bgq \in Seq(Task)
  /\ ws \in [handle : BOOLEAN, sent : 0..MaxSends, live : SUBSET (1..MaxSends),
             closed : {"no", "scheduled", "told"}, pings : 0..MaxPings]

\* The payload of the n-th frame as the client meant it.
Payload(n) == [i \in 1..frames[n].len |->
                 [f |-> n, o |-> PayloadStart(frames[n]) + i - 1, m |-> CLEAR]]

\* Reference: the messages that the first k frames complete, put together from
\* whole frames; open is the content of a message begun and not finished.
\* Nothing counts after a Close.
Assembled[k \in 0..MaxFrames] ==
  IF k = 0 THEN [msgs |-> <<>>, open |-> <<>>, binary |-> FALSE]
  ELSE LET before == Assembled[k - 1]
           f == frames[k]
           content == before.open \o Payload(k)
           binary == IF f.opcode = "Continuation" THEN before.binary ELSE f.opcode = "Binary" IN
       IF Control(f) \/ (\E i \in 1..k : frames[i].opcode = "Close") THEN before
       ELSE IF ~f.fin THEN [before EXCEPT !.open = content, !.binary = binary]
       ELSE [msgs |-> Append(before.msgs, [binary |-> binary, data |-> content]),
             open |-> <<>>, binary |-> FALSE]

\* Bytes of the first k frames, and the frames all of whose bytes were read.
TotalSize[k \in 0..MaxFrames] == IF k = 0 THEN 0 ELSE TotalSize[k - 1] + Size(frames[k])

FramesRead ==
  CHOOSE k \in 0..Len(frames) :
    LET read == TotalSize[Len(frames)] - Len(net) IN
    /\ TotalSize[k] <= read
    /\ k < Len(frames) => TotalSize[k + 1] > read

\* However the stream is cut into reads, when a read returns R has been given
\* exactly the messages whose last byte was read: fragments joined, payloads
\* unmasked, control frames kept apart, none late and none early
\* (WSHyBiParser::read, WSHixie76Parser::read, onPayload, onFrameComplete).
MessagesExact ==
  ~parser.reading => got = Assembled[FramesRead].msgs

\* After its own Close frame the server sends no message and no second Close,
\* whatever R and the client do: R drops its handle when it closes, and sends
\* that were under way are ahead of the close in the queue.
NothingAfterClose ==
  \A i, j \in DOMAIN out : i < j /\ out[i].op = "Close" => out[j].op \in {"Ping", "Pong"}

\* A message that R sends is copied out of a buffer that is still alive, and
\* messages leave in the order of the calls of ws$send (httpuv.cpp:218-221).
SendsFromLiveBuffers ==
  /\ \A i \in DOMAIN bgq : bgq[i].op = "send" => bgq[i].n \in ws.live
  /\ \A i, j \in DOMAIN out : i < j /\ out[i].op = "Text" /\ out[j].op = "Text"
                                => out[i].n < out[j].n

\* A Close frame from the client ends in a closed socket, and R is told.
CloseEnds ==
  (\E i \in DOMAIN frames : frames[i].opcode = "Close")
    ~> (socket = "closed" /\ ws.closed = "told")
===============================================================================
