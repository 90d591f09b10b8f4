---------------------------- MODULE HttpConnection ----------------------------
(***************************************************************************)
(* One client connection of httpuv: the HttpRequest object (one per        *)
(* connection, whatever the number of requests), the HTTP parser that      *)
(* waits for R while R looks at the headers, the HttpResponse objects, the *)
(* two queues between the threads and the libuv stream under them.         *)
(*                                                                         *)
(* Threads.  The background thread owns the connection and runs one        *)
(* handler at a time; a call of http_parser_execute is split into one step *)
(* per parser callback, because R's main thread runs meanwhile.  The main  *)
(* thread takes its tasks from `later', a FIFO; the background thread      *)
(* takes its tasks from `bgq', whose promise is TaskExecutor.              *)
(*                                                                         *)
(* Data.  The byte stream is a sequence of tokens: "H", a request up to    *)
(* the CR of the blank line; "L", the LF that ends the headers, which the  *)
(* parser leaves unread while it waits; "B", a piece of body; "W", bytes   *)
(* of the WebSocket protocol.  A response is its head and a number of body *)
(* chunks, each of them one uv_write.  An upgrade request has no body.     *)
(***************************************************************************)
EXTENDS Naturals, Sequences, FiniteSets

CONSTANTS
  Shapes,      \* request shapes clients send: see Shape
  MaxReq,      \* bound: requests on the connection
  MaxWs,       \* bound: WebSocket tokens sent by the client
  Pipelined,   \* shapes of requests sent before the last one is answered, too
  Eager,       \* the client sends WebSocket data before it saw the 101
  Disruptions, \* subset of {"eof", "stop", "writeError"}
  Bodies,      \* numbers of body chunks the application's responses have
  OnHeaders,   \* the application answers requests of these kinds (a set of
               \* values of Shape's upgrade) from onHeaders, if it likes
  AppErrors,   \* R code called for body data or WebSocket events may fail
  NullCall     \* the application's call() may return NULL

Shape == [body : Nat,                      \* pieces of body that follow
          length : BOOLEAN,                \* Content-Length/Transfer-Encoding
          keep : BOOLEAN,                  \* http_should_keep_alive
          expect : BOOLEAN,                \* Expect: 100-continue
          upgrade : {"no", "ws", "other"}, \* Upgrade header, and what accept says
          static : BOOLEAN]                \* staticFileResponse answers it

ASSUME ConstantsAssumption ==
  /\ \A s \in Shapes : /\ s \in Shape
                       /\ s.body > 0 => s.length
                       /\ s.upgrade # "no" => s.body = 0 /\ ~s.static
  /\ MaxReq \in Nat /\ MaxWs \in Nat
  /\ Bodies \subseteq Nat
  /\ Disruptions \subseteq {"eof", "stop", "writeError"}
  /\ OnHeaders \subseteq {"no", "ws", "other"}
  /\ Pipelined \subseteq Shapes
  /\ {Eager, AppErrors, NullCall} \subseteq BOOLEAN

VARIABLES
  client,  \* shape: the requests sent; net: bytes under way; ws: WebSocket
           \* tokens sent; eof: gone away; broken: takes no more bytes;
           \* piped: has sent a request before the last one was answered
  wire,    \* what reached the client, a sequence of <<response, part>>; part 0
           \* is the head, part i the i-th chunk of the body
  req,     \* the HttpRequest object
  parser,  \* its http_parser, with the call of http_parser_execute in progress
  later,   \* main thread's queue (invoke_later)
  bgq,     \* background thread's queue (CallbackQueue)
  resp,    \* the HttpResponse objects, in the order of their creation
  outq,    \* uv_write requests of the stream whose callback has not run
  app      \* the R side: _env, unresolved promises, and what R was told

vars == <<client, wire, req, parser, later, bgq, resp, outq, app>>

ReqNo == 1..MaxReq
Token(t, k) == [t |-> t, k |-> k]
TokensOf(s, k) == <<Token("H", k), Token("L", k)>> \o [i \in 1..s.body |-> Token("B", k)]

Init ==
  /\ client = [shape |-> <<>>, net |-> <<>>, ws |-> 0, eof |-> FALSE,
               broken |-> FALSE, piped |-> FALSE]
  /\ wire = <<>>
  /\ req = [ignoreNewData |-> FALSE, isClosing |-> FALSE, isUpgrade |-> FALSE,
            responseScheduled |-> FALSE, handlingRequest |-> FALSE,
            protocol |-> "HTTP", requestBuffer |-> <<>>,
            wsc |-> TRUE,        \* _pWebSocketConnection is set
            reading |-> TRUE,    \* uv_read_start is in force
            onClosed |-> FALSE]  \* _on_closed has run
  /\ parser = [st |-> "start", status |-> 0, cur |-> 0, need |-> 0,
               errno |-> FALSE,  \* an error, or http_parser_pause
               exec |-> "no",    \* http_parser_execute: no, run, return
               data |-> <<>>]    \* what it has not consumed
  /\ later = <<>> /\ bgq = <<>> /\ resp = <<>> /\ outq = <<>>
  /\ app = [env |-> 0, promised |-> {},
            got |-> [k \in ReqNo |-> 0],         \* pieces given to onBodyData
            failed |-> [k \in ReqNo |-> FALSE],  \* onBodyData raised an error
            called |-> [k \in ReqNo |-> 0],      \* calls of the app's call()
            declined |-> {},                     \* those that returned NULL
            ws |-> <<>>]                         \* WebSocket callbacks

-------------------------------------------------------------------------------
(* The client *)

Parts(r) == {<<r, i>> : i \in 0..resp[r].body}
OnWire == {wire[i] : i \in DOMAIN wire}

\* The client has received the whole final response to request k.
Answered(k) == \E r \in DOMAIN resp :
  /\ resp[r].req = k /\ resp[r].kind = "final"
  /\ Parts(r) \subseteq OnWire

Switched == \E r \in DOMAIN resp : resp[r].kind = "switch" /\ <<r, 0>> \in OnWire

ClientSend(s) ==
  /\ Len(client.shape) < MaxReq /\ ~client.eof
  /\ \A k \in DOMAIN client.shape : /\ client.shape[k].upgrade = "no"
                                    /\ s \in Pipelined \/ Answered(k)
  /\ client' = [client EXCEPT !.shape = Append(@, s),
                              !.piped = @ \/ \E k \in DOMAIN client.shape : ~Answered(k),
                              !.net = @ \o TokensOf(s, Len(client.shape) + 1)]
  /\ UNCHANGED <<wire, req, parser, later, bgq, resp, outq, app>>

ClientSendWs ==
  /\ client.ws < MaxWs /\ ~client.eof
  /\ \E k \in DOMAIN client.shape : client.shape[k].upgrade = "ws"
  /\ Eager \/ Switched
  /\ client' = [client EXCEPT !.ws = @ + 1,
                              !.net = Append(@, Token("W", client.ws + 1))]
  /\ UNCHANGED <<wire, req, parser, later, bgq, resp, outq, app>>

ClientLeaves ==
  /\ "eof" \in Disruptions /\ ~client.eof
  /\ client' = [client EXCEPT !.eof = TRUE]
  /\ UNCHANGED <<wire, req, parser, later, bgq, resp, outq, app>>

-------------------------------------------------------------------------------
(* Effects shared by the handlers *)

Cur == client.shape[parser.cur]

NewResponse(k, kind, body) ==
  [req |-> k, kind |-> kind, body |-> body, closeAfter |-> FALSE, st |-> "made"]

\* HttpRequest::close on the object c: a second call does nothing; uv_close
\* stops the reading at once.
Closed(c) == [c EXCEPT !.isClosing = TRUE, !.reading = FALSE]

\* A second close that reports again.
CloseTasksAgain(c) ==
  IF c.wsc /\ c.protocol = "WebSockets" THEN <<[op |-> "wsClose"]>> ELSE <<>>

\* What that close schedules on the main thread: onWSClose of a WebSocket.
CloseTasks(c) ==
  IF ~c.isClosing /\ c.wsc /\ c.protocol = "WebSockets"
    THEN <<[op |-> "wsClose"]>> ELSE <<>>

\* The uv_write of part i of response r: EBADF once uv_close was called.
Write(r, i) == [r |-> r, part |-> i, st |-> "queued"]

UvWrite(c, r, i) == IF c.isClosing THEN outq ELSE Append(outq, Write(r, i))

\* HttpResponse::writeResponse of response r on object c: queue the head and,
\* if that worked, requestCompleted().  Otherwise the response is dropped.
RequestCompleted(c) == IF c.isClosing THEN c ELSE [c EXCEPT !.handlingRequest = FALSE]
HeadState(c) == IF c.isClosing THEN "gone" ELSE "head"

\* "Connection: close" was asked for: stop reading and ignore what comes.
StopReading(c) == [c EXCEPT !.reading = FALSE, !.ignoreNewData = TRUE]

\* The background thread is between two handlers.
BgIdle == parser.exec = "no"

\* http_parser_execute is called with the tokens d.
Execute(p, d) == [p EXCEPT !.exec = "run", !.data = d]

\* WebSocketConnection::read on tokens d: each of them is a message, which
\* HttpRequest::onWSMessage passes on while _pWebSocketConnection is set.
WsMessages(d) ==
  IF req.wsc THEN [i \in DOMAIN d |-> [op |-> "wsMessage", n |-> d[i].k]] ELSE <<>>

-------------------------------------------------------------------------------
(* Reading *)

\* _on_request_read, nread > 0: any number of the bytes that have arrived.
OnRead ==
  /\ BgIdle /\ req.reading /\ client.net # <<>>
  /\ \E n \in 1..Len(client.net) :
       LET chunk == SubSeq(client.net, 1, n) IN
       /\ client' = [client EXCEPT !.net = SubSeq(@, n + 1, Len(@))]
       /\ \/ /\ req.protocol = "HTTP"
             /\ parser' = IF req.ignoreNewData THEN parser ELSE Execute(parser, chunk)
             /\ UNCHANGED later
          \/ /\ req.protocol = "WebSockets"
             /\ later' = later \o (IF req.ignoreNewData THEN <<>> ELSE WsMessages(chunk))
             /\ UNCHANGED parser
  /\ UNCHANGED <<wire, req, bgq, resp, outq, app>>

\* _on_request_read, nread < 0.  A reset may overtake bytes not yet read.
OnReadError ==
  /\ BgIdle /\ req.reading /\ client.eof
  /\ req' = Closed(req)
  /\ later' = later \o CloseTasks(req)
  /\ UNCHANGED <<client, wire, parser, bgq, resp, outq, app>>

\* Socket::close, when the server is stopped, closes each connection.
ServerStops ==
  /\ BgIdle /\ "stop" \in Disruptions /\ ~req.isClosing
  /\ req' = Closed(req)
  /\ later' = later \o CloseTasks(req)
  /\ UNCHANGED <<client, wire, parser, bgq, resp, outq, app>>

-------------------------------------------------------------------------------
(* http_parser_execute, one step per callback *)

Executing(states, t) ==
  /\ parser.exec = "run" /\ parser.data # <<>> /\ ~parser.errno
  /\ parser.st \in states /\ Head(parser.data).t \in t

\* NEW_MESSAGE in strict mode.
NewMessage == IF Cur.keep THEN "start" ELSE "dead"

\* A request that keeps the environment of the one before.
ParseMessageBeginOldEnv ==
  /\ Executing({"start"}, {"H"})
  /\ req' = [req EXCEPT !.handlingRequest = TRUE, !.responseScheduled = FALSE]
  /\ parser' = [parser EXCEPT !.st = "headers", !.cur = Head(parser.data).k, !.data = Tail(@)]
  /\ UNCHANGED <<client, wire, later, bgq, resp, outq, app>>

\* on_message_begin: _newRequest.  A request that begins while another one is
\* handled closes the connection, and is handled all the same.
ParseMessageBegin ==
  /\ Executing({"start"}, {"H"})
  /\ LET k == Head(parser.data).k
         c == IF req.handlingRequest THEN Closed(req) ELSE req IN
     /\ req' = [c EXCEPT !.handlingRequest = TRUE, !.responseScheduled = FALSE]
     /\ later' = Append(later, [op |-> "initEnv", k |-> k])
     /\ parser' = [parser EXCEPT !.st = "headers", !.cur = k, !.data = Tail(@)]
  /\ UNCHANGED <<client, wire, bgq, resp, outq, app>>

\* _on_headers_complete, on the LF, which stays unread.  A static file is
\* answered through the background queue, anything else goes to R.
ParseHeadersComplete ==
  /\ Executing({"headers"}, {"L"})
  /\ parser' = [parser EXCEPT !.st = "wait", !.exec = "return"]
  /\ req' = [req EXCEPT !.isUpgrade = @ \/ Cur.upgrade # "no"]
  /\ \/ /\ Cur.static
        /\ \E b \in Bodies : resp' = Append(resp, NewResponse(parser.cur, "final", b))
        /\ bgq' = Append(bgq, [op |-> "headersDone", k |-> parser.cur, r |-> Len(resp) + 1])
        /\ UNCHANGED later
     \/ /\ ~Cur.static
        /\ later' = Append(later, [op |-> "onHeaders", k |-> parser.cur])
        /\ UNCHANGED <<bgq, resp>>
  /\ UNCHANGED <<client, wire, outq, app>>

\* Data that arrives while R looks at the headers is left alone.
ParseWaiting ==
  /\ Executing({"wait"}, {"H", "L", "B", "W"})
  /\ parser' = [parser EXCEPT !.exec = "return"]
  /\ UNCHANGED <<client, wire, req, later, bgq, resp, outq, app>>

\* _on_message_complete: nothing for an upgrade, otherwise getResponse.
MessageComplete(k) ==
  later' = IF req.isUpgrade THEN later ELSE Append(later, [op |-> "getResponse", k |-> k])

\* The LF, after http_parser_headers_completed(status).  Status 3: the message
\* is over.  An upgrade: the rest is another protocol.  Otherwise the message
\* is complete, or its body follows.
ParseHeadersDone ==
  /\ Executing({"ready"}, {"L"})
  /\ LET p == [parser EXCEPT !.data = Tail(@)] IN
     \/ /\ parser.status = 3
        /\ parser' = [p EXCEPT !.st = NewMessage, !.exec = "return"]
        /\ UNCHANGED later
     \/ /\ parser.status = 0 /\ Cur.upgrade # "no"
        /\ parser' = [p EXCEPT !.st = NewMessage, !.exec = "return"]
        /\ MessageComplete(parser.cur)
     \/ /\ parser.status = 0 /\ Cur.upgrade = "no" /\ Cur.body = 0
        /\ parser' = [p EXCEPT !.st = NewMessage]
        /\ MessageComplete(parser.cur)
     \/ /\ parser.status = 0 /\ Cur.upgrade = "no" /\ Cur.body > 0
        /\ parser' = [p EXCEPT !.st = "body", !.need = Cur.body]
        /\ UNCHANGED later
  /\ UNCHANGED <<client, wire, req, bgq, resp, outq, app>>

\* A body whose end is not reported.
ParseBodyForgetsEnd ==
  /\ Executing({"body"}, {"B"})
  /\ parser' = [parser EXCEPT !.data = Tail(@), !.need = @ - 1,
                              !.st = IF parser.need = 1 THEN NewMessage ELSE @]
  /\ later' = Append(later, [op |-> "onBodyData", k |-> parser.cur])
  /\ UNCHANGED <<client, wire, req, bgq, resp, outq, app>>

\* _on_body, and _on_message_complete after the last piece.
ParseBody ==
  /\ Executing({"body"}, {"B"})
  /\ LET p == [parser EXCEPT !.data = Tail(@), !.need = @ - 1]
         onBody == Append(later, [op |-> "onBodyData", k |-> parser.cur]) IN
     \/ /\ parser.need > 1
        /\ parser' = p
        /\ later' = onBody
     \/ /\ parser.need = 1
        /\ parser' = [p EXCEPT !.st = NewMessage]
        /\ later' = Append(onBody, [op |-> "getResponse", k |-> parser.cur])
  /\ UNCHANGED <<client, wire, req, bgq, resp, outq, app>>

\* A message after the last one of the connection, or a parser in an error
\* state: nothing is consumed.
ParseRefuses ==
  /\ parser.exec = "run" /\ parser.data # <<>>
  /\ parser.errno \/ parser.st = "dead"
  /\ parser' = [parser EXCEPT !.errno = TRUE, !.exec = "return"]
  /\ UNCHANGED <<client, wire, req, later, bgq, resp, outq, app>>

ExecuteReturns == parser.exec = "return" \/ (parser.exec = "run" /\ parser.data = <<>>)
AfterExecute == [parser EXCEPT !.exec = "no", !.data = <<>>]

\* Later data replaces what was kept.
KeepOnlyLast ==
  /\ ExecuteReturns /\ parser.st = "wait"
  /\ req' = [req EXCEPT !.requestBuffer = parser.data]
  /\ parser' = AfterExecute
  /\ UNCHANGED <<client, wire, later, bgq, resp, outq, app>>

\* _parse_http_data, after the call, while the parser waits for R.
KeepForLater ==
  /\ ExecuteReturns /\ parser.st = "wait"
  /\ req' = [req EXCEPT !.requestBuffer = @ \o parser.data]
  /\ parser' = AfterExecute
  /\ UNCHANGED <<client, wire, later, bgq, resp, outq, app>>

\* _parse_http_data, after the call, for an upgrade: accept the WebSocket,
\* answer 101 and tell R, or close.  Without a WebSocketConnection, nothing.
UpgradeConnection ==
  /\ ExecuteReturns /\ parser.st # "wait" /\ req.isUpgrade
  /\ parser' = AfterExecute
  /\ \/ /\ ~req.wsc
        /\ UNCHANGED <<req, later, resp, outq>>
     \/ /\ req.wsc /\ Cur.upgrade = "ws"
        /\ LET r == Len(resp) + 1 IN
           /\ resp' = Append(resp, [NewResponse(parser.cur, "switch", 0)
                                      EXCEPT !.st = HeadState(req)])
           /\ outq' = UvWrite(req, r, 0)
        /\ req' = [RequestCompleted(req) EXCEPT !.protocol = "WebSockets",
                                                !.requestBuffer = @ \o parser.data]
        /\ later' = Append(later, [op |-> "wsOpen"])
     \/ /\ req.wsc /\ Cur.upgrade # "ws"
        /\ req' = Closed(req)
        /\ UNCHANGED <<later, resp, outq>>
  /\ UNCHANGED <<client, wire, bgq, app>>

\* _parse_http_data, after the call, otherwise: bytes the parser did not take
\* are an error, unless new data is ignored by now.
ParseDone ==
  /\ ExecuteReturns /\ parser.st # "wait" /\ ~req.isUpgrade
  /\ parser' = AfterExecute
  /\ \/ /\ parser.data = <<>> \/ req.ignoreNewData
        /\ UNCHANGED req
     \/ /\ parser.data # <<>> /\ ~req.ignoreNewData
        /\ req' = Closed(req)
  /\ UNCHANGED <<client, wire, later, bgq, resp, outq, app>>

-------------------------------------------------------------------------------
(* Tasks of the background queue *)

Flush(op) == BgIdle /\ bgq # <<>> /\ Head(bgq).op = op /\ bgq' = Tail(bgq)

\* closeAfterWritten, if wanted, and writeResponse.
WriteResponse(c, r, close) ==
  /\ resp' = [resp EXCEPT ![r].closeAfter = close, ![r].st = HeadState(c)]
  /\ outq' = UvWrite(c, r, 0)

\* _on_headers_complete_complete: write the response R or the static files
\* gave, or a 100 Continue; then let the parser go on with what was kept.
HeadersCompleteComplete ==
  /\ Flush("headersDone")
  /\ LET r == Head(bgq).r
         close == Cur.length \/ ~Cur.keep
         resume(st) == Execute([parser EXCEPT !.st = "ready", !.status = st],
                               req.requestBuffer) IN
     \/ /\ r # 0
        /\ WriteResponse(req, r, close)
        /\ req' = [(IF close THEN StopReading(RequestCompleted(req))
                             ELSE RequestCompleted(req)) EXCEPT !.requestBuffer = <<>>]
        /\ parser' = resume(3)
     \/ /\ r = 0 /\ Cur.expect
        /\ resp' = Append(resp, [NewResponse(parser.cur, "continue", 0)
                                   EXCEPT !.st = HeadState(req)])
        /\ outq' = UvWrite(req, Len(resp) + 1, 0)
        /\ req' = [RequestCompleted(req) EXCEPT !.requestBuffer = <<>>]
        /\ parser' = resume(0)
     \/ /\ r = 0 /\ ~Cur.expect
        /\ req' = [req EXCEPT !.requestBuffer = <<>>]
        /\ parser' = resume(0)
        /\ UNCHANGED <<resp, outq>>
  /\ UNCHANGED <<client, wire, later, app>>

\* _on_body_error: pause the parser for good and answer with the error.
BodyError ==
  /\ Flush("bodyError")
  /\ parser' = [parser EXCEPT !.errno = TRUE]
  /\ req' = StopReading(RequestCompleted(req))
  /\ WriteResponse(req, Head(bgq).r, TRUE)
  /\ UNCHANGED <<client, wire, later, app>>

\* _on_message_complete_complete: no response after a body error, none on a
\* connection that is closing.
MessageCompleteComplete ==
  /\ Flush("messageDone")
  /\ LET r == Head(bgq).r
         close == ~Cur.keep IN
     \/ r = 0 /\ UNCHANGED <<req, resp, outq>>
     \/ /\ r # 0 /\ req.isClosing
        /\ resp' = [resp EXCEPT ![r].st = "gone"]
        /\ UNCHANGED <<req, outq>>
     \/ /\ r # 0 /\ ~req.isClosing
        /\ WriteResponse(req, r, close)
        /\ req' = IF close THEN StopReading(RequestCompleted(req))
                           ELSE RequestCompleted(req)
  /\ UNCHANGED <<client, wire, parser, later, app>>

\* HttpRequest::close, scheduled by R code that failed.
ScheduledClose ==
  /\ Flush("close")
  /\ req' = Closed(req)
  /\ later' = later \o CloseTasks(req)
  /\ UNCHANGED <<client, wire, parser, resp, outq, app>>

\* The WebSocketConnection::read that _call_r_on_ws_open scheduled.  It was
\* given a pointer into a buffer that was freed when the scheduling function
\* returned: the bytes it finds there are the old ones or anything else.
ScheduledWsRead ==
  /\ Flush("wsRead")
  /\ \E d \in {Head(bgq).d, [i \in DOMAIN Head(bgq).d |-> Token("W", 0)]} :
       later' = later \o WsMessages(d)
  /\ UNCHANGED <<client, wire, req, parser, resp, outq, app>>

-------------------------------------------------------------------------------
(* libuv: the stream's write queue, and the end of the connection *)

\* The bytes of the first waiting request leave for the client, or fail.
Oldest == CHOOSE i \in DOMAIN outq :
  outq[i].st = "queued" /\ \A j \in 1..(i - 1) : outq[j].st # "queued"

WriteOut ==
  /\ ~req.isClosing /\ ~client.broken
  /\ \E i \in DOMAIN outq : outq[i].st = "queued"
  /\ outq' = [outq EXCEPT ![Oldest].st = "sent"]
  /\ wire' = Append(wire, <<outq[Oldest].r, outq[Oldest].part>>)
  /\ UNCHANGED <<client, req, parser, later, bgq, resp, app>>

\* An error such as EPIPE or ECONNRESET; the socket does not recover from it.
WriteFails ==
  /\ ~req.isClosing /\ "writeError" \in Disruptions
  /\ \E i \in DOMAIN outq : outq[i].st = "queued"
  /\ outq' = [outq EXCEPT ![Oldest].st = "failed"]
  /\ client' = [client EXCEPT !.broken = TRUE]
  /\ UNCHANGED <<wire, req, parser, later, bgq, resp, app>>

\* uv_close forgets the requests that were not written.
WriteDoneNoCancel == BgIdle /\ outq # <<>> /\ outq[1].st # "queued"

\* The callback of the first request may run: it was sent or it failed, or
\* uv_close has cancelled it.
WriteDone == BgIdle /\ outq # <<>> /\ (req.isClosing \/ outq[1].st # "queued")

\* The last reference to response r is gone: ~HttpResponse, which closes the
\* connection if that was asked for.
Release(r, close) ==
  /\ resp' = [resp EXCEPT ![r].st = "gone", ![r].closeAfter = close]
  /\ req' = IF close THEN Closed(req) ELSE req
  /\ later' = IF close THEN later \o CloseTasks(req) ELSE later
  /\ outq' = Tail(outq)

\* A chunk is fetched and not written.
NextChunkSkips(r, i) ==
  /\ resp' = [resp EXCEPT ![r].st = "body"]
  /\ outq' = Tail(UvWrite(req, r, i + 1))
  /\ UNCHANGED <<req, later>>

\* ExtendedWrite::next for chunk i of response r, i <= body: its uv_write, whose
\* result is not looked at.
NextChunk(r, i) ==
  /\ resp' = [resp EXCEPT ![r].st = "body"]
  /\ outq' = Tail(UvWrite(req, r, i))
  /\ UNCHANGED <<req, later>>

\* The response is released with its body unsent.
OnResponseWrittenReleases ==
  /\ WriteDone /\ outq[1].part = 0
  /\ Release(outq[1].r, resp[outq[1].r].closeAfter)
  /\ UNCHANGED <<client, wire, parser, bgq, app>>

\* on_response_written
OnResponseWritten ==
  /\ WriteDone /\ outq[1].part = 0
  /\ LET r == outq[1].r IN
     \/ outq[1].st # "sent" /\ Release(r, TRUE)
     \/ outq[1].st = "sent" /\ resp[r].body = 0 /\ Release(r, resp[r].closeAfter)
     \/ outq[1].st = "sent" /\ resp[r].body > 0 /\ NextChunk(r, 1)
  /\ UNCHANGED <<client, wire, parser, bgq, app>>

\* WriteOp::end: go on when nothing else is waiting to be written.
OnChunkWritten ==
  /\ WriteDone /\ outq[1].part > 0
  /\ LET r == outq[1].r
         i == outq[1].part
         drained == \A j \in 2..Len(outq) : outq[j].st = "sent" IN
     \/ drained /\ i < resp[r].body /\ NextChunk(r, i + 1)
     \/ drained /\ i = resp[r].body /\ Release(r, resp[r].closeAfter)
     \/ ~drained /\ outq' = Tail(outq) /\ UNCHANGED <<req, later, resp>>
  /\ UNCHANGED <<client, wire, parser, bgq, app>>

\* _on_closed, after the callbacks of all writes.
OnClosed ==
  /\ BgIdle /\ req.isClosing /\ ~req.onClosed /\ outq = <<>>
  /\ req' = [req EXCEPT !.onClosed = TRUE, !.wsc = FALSE]
  /\ UNCHANGED <<client, wire, parser, later, bgq, resp, outq, app>>

-------------------------------------------------------------------------------
(* Tasks of the main thread *)

RunLater(op) == later # <<>> /\ Head(later).op = op /\ later' = Tail(later)

\* _initializeEnv
InitializeEnv ==
  /\ RunLater("initEnv")
  /\ app' = [app EXCEPT !.env = Head(later).k]
  /\ UNCHANGED <<client, wire, req, parser, bgq, resp, outq>>

\* The application's answer is turned into an HttpResponse and handed to the
\* background thread; responseScheduled() first.
Respond(k, op, kind, b) ==
  /\ resp' = Append(resp, NewResponse(k, kind, b))
  /\ req' = [req EXCEPT !.responseScheduled = TRUE]
  /\ bgq' = Append(bgq, [op |-> op, k |-> k, r |-> Len(resp) + 1])

\* The callback is called, and called again (onHeaders has no return after
\* the call for an application without an onHeaders function).
CallOnHeadersTwice ==
  /\ RunLater("onHeaders")
  /\ LET done == [op |-> "headersDone", k |-> Head(later).k, r |-> 0] IN
     bgq' = bgq \o <<done, done>>
  /\ UNCHANGED <<client, wire, req, parser, resp, outq, app>>

\* RWebApplication::onHeaders and _schedule_on_headers_complete_complete.
CallOnHeaders ==
  /\ RunLater("onHeaders")
  /\ LET k == Head(later).k IN
     \/ /\ bgq' = Append(bgq, [op |-> "headersDone", k |-> k, r |-> 0])
        /\ UNCHANGED <<req, resp>>
     \/ /\ client.shape[k].upgrade \in OnHeaders
        /\ \E b \in Bodies : Respond(k, "headersDone", "final", b)
  /\ UNCHANGED <<client, wire, parser, outq, app>>

\* RWebApplication::onBodyData and _schedule_on_body_error.
CallOnBodyData ==
  /\ RunLater("onBodyData")
  /\ LET k == Head(later).k IN
     \/ /\ req.responseScheduled
        /\ UNCHANGED <<req, bgq, resp, app>>
     \/ /\ ~req.responseScheduled
        /\ app' = [app EXCEPT !.got[k] = @ + 1]
        /\ UNCHANGED <<req, bgq, resp>>
     \/ /\ ~req.responseScheduled /\ AppErrors
        /\ app' = [app EXCEPT !.failed[k] = TRUE]
        /\ Respond(k, "bodyError", "final", 1)
  /\ UNCHANGED <<client, wire, parser, outq>>

\* getResponse without the check of isResponseScheduled.
CallGetResponseAnyway ==
  /\ RunLater("getResponse")
  /\ \E b \in Bodies : Respond(Head(later).k, "messageDone", "final", b)
  /\ app' = [app EXCEPT !.called[Head(later).k] = @ + 1]
  /\ UNCHANGED <<client, wire, parser, outq>>

\* RWebApplication::getResponse and _schedule_on_message_complete_complete: no
\* call of R if a response was scheduled; otherwise R answers at once, or
\* later, or with NULL.
CallGetResponse ==
  /\ RunLater("getResponse")
  /\ LET k == Head(later).k
         noResponse == /\ req' = [req EXCEPT !.responseScheduled = TRUE]
                       /\ bgq' = Append(bgq, [op |-> "messageDone", k |-> k, r |-> 0])
                       /\ UNCHANGED resp
         call == [app EXCEPT !.called[k] = @ + 1] IN
     \/ req.responseScheduled /\ noResponse /\ UNCHANGED app
     \/ /\ ~req.responseScheduled
        /\ \E b \in Bodies : Respond(k, "messageDone", "final", b)
        /\ app' = call
     \/ /\ ~req.responseScheduled
        /\ app' = [call EXCEPT !.promised = @ \cup {k}]
        /\ UNCHANGED <<req, bgq, resp>>
     \/ /\ ~req.responseScheduled /\ NullCall
        /\ noResponse
        /\ app' = [call EXCEPT !.declined = @ \cup {k}]
  /\ UNCHANGED <<client, wire, parser, outq>>

\* A promise that call() returned is resolved: invokeCppCallback.
PromiseResolves ==
  /\ \E k \in app.promised, b \in Bodies :
       /\ Respond(k, "messageDone", "final", b)
       /\ app' = [app EXCEPT !.promised = @ \ {k}]
  /\ UNCHANGED <<client, wire, parser, later, outq>>

\* _call_r_on_ws_open, first part: R's onWSOpen, unless _pWebSocketConnection is
\* gone.  The main thread stays in this task until PassRequestBuffer.
CallWsOpen ==
  /\ later # <<>> /\ Head(later).op = "wsOpen"
  /\ later' = <<[op |-> "wsOpened"]>> \o Tail(later)
  /\ \/ ~req.wsc /\ UNCHANGED <<bgq, app>>
     \/ /\ req.wsc
        /\ app' = [app EXCEPT !.ws = Append(@, [ev |-> "open", n |-> 0])]
        /\ UNCHANGED bgq \/ (AppErrors /\ bgq' = Append(bgq, [op |-> "close"]))
  /\ UNCHANGED <<client, wire, req, parser, resp, outq>>

\* Second part: the bytes that came with the handshake, if
\* _pWebSocketConnection is still there after the call of R.
PassRequestBuffer ==
  /\ RunLater("wsOpened")
  /\ \/ ~req.wsc /\ UNCHANGED <<req, bgq>>
     \/ /\ req.wsc
        /\ bgq' = Append(bgq, [op |-> "wsRead", d |-> req.requestBuffer])
        /\ req' = [req EXCEPT !.requestBuffer = <<>>]
  /\ UNCHANGED <<client, wire, parser, resp, outq, app>>

\* RWebApplication::onWSMessage
CallWsMessage ==
  /\ RunLater("wsMessage")
  /\ app' = [app EXCEPT !.ws = Append(@, [ev |-> "message", n |-> Head(later).n])]
  /\ \/ UNCHANGED bgq
     \/ AppErrors /\ bgq' = Append(bgq, [op |-> "close"])
  /\ UNCHANGED <<client, wire, req, parser, resp, outq>>

\* RWebApplication::onWSClose
CallWsClose ==
  /\ RunLater("wsClose")
  /\ app' = [app EXCEPT !.ws = Append(@, [ev |-> "close", n |-> 0])]
  /\ UNCHANGED <<client, wire, req, parser, bgq, resp, outq>>

-------------------------------------------------------------------------------
ClientStep == (\E s \in Shapes : ClientSend(s)) \/ ClientSendWs \/ ClientLeaves

Parse == \/ ParseMessageBegin \/ ParseHeadersComplete \/ ParseWaiting
         \/ ParseHeadersDone \/ ParseBody \/ ParseRefuses
         \/ KeepForLater \/ UpgradeConnection \/ ParseDone

FlushTask == \/ HeadersCompleteComplete \/ BodyError \/ MessageCompleteComplete
             \/ ScheduledClose \/ ScheduledWsRead

WriteCallback == OnResponseWritten \/ OnChunkWritten

MainTask == \/ InitializeEnv \/ CallOnHeaders \/ CallOnBodyData \/ CallGetResponse
            \/ CallWsOpen \/ PassRequestBuffer \/ CallWsMessage \/ CallWsClose

Next == \/ ClientStep
        \/ OnRead \/ OnReadError \/ ServerStops
        \/ Parse \/ FlushTask
        \/ WriteOut \/ WriteFails \/ WriteCallback \/ OnClosed
        \/ MainTask \/ PromiseResolves

\* The background thread's loop serves every source of events, R's event loop
\* runs its tasks, the client takes what was written, promises are resolved.
\* Nothing makes a client send, leave, or a server stop.
Fairness == /\ WF_vars(OnRead \/ OnReadError) /\ WF_vars(Parse) /\ WF_vars(FlushTask)
            /\ WF_vars(WriteOut \/ WriteFails) /\ WF_vars(WriteCallback) /\ WF_vars(OnClosed)
            /\ WF_vars(MainTask) /\ WF_vars(PromiseResolves)

Spec == Init /\ [][Next]_vars /\ Fairness

-------------------------------------------------------------------------------
\* Tokens of the requests sent so far, and of a WebSocket; the tasks of the
\* queues; the objects.
Tokens == [t : {"H", "L", "B"}, k : 1..Len(client.shape)] \cup [t : {"W"}, k : Nat]

LaterTask == [op : {"initEnv", "onHeaders", "onBodyData", "getResponse"}, k : ReqNo]
               \cup [op : {"wsMessage"}, n : Nat] \cup [op : {"wsOpen", "wsOpened", "wsClose"}]

BgTask == [op : {"headersDone", "bodyError", "messageDone"}, k : ReqNo, r : Nat]
            \cup [op : {"close"}]
            \cup [op : {"wsRead"}, d : Seq([t : {"H", "L", "B", "W"}, k : Nat])]

Client == [shape : Seq(Shapes), net : Seq(Tokens), ws : 0..MaxWs, eof : BOOLEAN,
           broken : BOOLEAN, piped : BOOLEAN]

Request == [ignoreNewData : BOOLEAN, isClosing : BOOLEAN, isUpgrade : BOOLEAN,
            responseScheduled : BOOLEAN, handlingRequest : BOOLEAN,
            protocol : {"HTTP", "WebSockets"}, requestBuffer : Seq(Tokens),
            wsc : BOOLEAN, reading : BOOLEAN, onClosed : BOOLEAN]

Parser == [st : {"start", "headers", "wait", "ready", "body", "dead"}, status : {0, 3},
           cur : 0..Len(client.shape), need : Nat, errno : BOOLEAN,
           exec : {"no", "run", "return"}, data : Seq(Tokens)]

Response == [req : ReqNo, kind : {"final", "continue", "switch"}, body : Nat,
             closeAfter : BOOLEAN, st : {"made", "head", "body", "gone"}]

Application == [env : 0..MaxReq, promised : SUBSET ReqNo, got : [ReqNo -> Nat],
                failed : [ReqNo -> BOOLEAN], called : [ReqNo -> Nat], declined : SUBSET ReqNo,
                ws : Seq([ev : {"open", "message", "close"}, n : Nat])]

\* Every variable has its type; between the first request and the end the
\* parser stands at a request that was sent.
TypeOK ==
  /\ client \in Client /\ Len(client.shape) <= MaxReq
  /\ req \in Request /\ parser \in Parser /\ (parser.st # "start" => parser.cur # 0)
  /\ later \in Seq(LaterTask) /\ bgq \in Seq(BgTask)
  /\ resp \in Seq(Response) /\ app \in Application
  /\ outq \in Seq([r : Nat, part : Nat, st : {"queued", "sent", "failed"}])
  /\ wire \in Seq(Nat \X Nat)

Pending(queue, op) == {i \in DOMAIN queue : queue[i].op = op}

\* The parser waits for R exactly while one onHeaders call, or its outcome, is
\* under way, and that is the one for the request the parser stands at.  So R
\* reads _headers while nobody changes them, a wait always ends, and
\* http_parser_headers_completed is called once per wait
\* (_on_headers_complete, _on_headers_complete_complete).
ParserResumedOnce ==
  LET mine == {later[i].k : i \in Pending(later, "onHeaders")}
      theirs == {bgq[i].k : i \in Pending(bgq, "headersDone")} IN
  /\ Cardinality(Pending(later, "onHeaders")) + Cardinality(Pending(bgq, "headersDone"))
       = (IF parser.st = "wait" THEN 1 ELSE 0)
  /\ mine \cup theirs \subseteq {parser.cur}

\* While the parser waits, requestBuffer and the bytes of a call in progress
\* hold all that was read and not parsed, starting with the unread LF; at no
\* other time does an HTTP connection keep bytes aside (_requestBuffer).
BufferedWhileWaiting ==
  req.protocol = "HTTP" =>
    /\ parser.st # "wait" => req.requestBuffer = <<>>
    /\ parser.st = "wait" =>
         LET kept == req.requestBuffer \o parser.data IN
         kept # <<>> /\ kept[1] = Token("L", parser.cur)

\* R is never called for one request with the environment of another one:
\* _env is replaced for each request on a connection while callbacks of the
\* last request may still be queued (_initializeEnv).
EnvIsOfRequest ==
  later # <<>> /\ Head(later).op \in {"onHeaders", "onBodyData", "getResponse"}
    => app.env = Head(later).k

\* The application's call() runs at most once per request, and not before R
\* was given the whole body, all of it without an error (responseScheduled), on
\* a connection without pipelined requests, of which each resets the flag.
CallSeesWholeBody ==
  ~client.piped => \A k \in DOMAIN client.shape : app.called[k] > 0 =>
    app.called[k] = 1 /\ ~app.failed[k] /\ app.got[k] = client.shape[k].body

\* What the client receives is a sequence of whole responses: a head follows
\* only a complete response and a chunk only the part before it, the responses
\* are to the requests in their order, and each request has one final
\* response at most (writeResponse, ExtendedWrite).  Not so for a request that
\* is sent early and arrives between the head and the end of a response.
WireIsWellFormed ==
  client.piped \/
  /\ \A i \in DOMAIN wire :
       /\ wire[i][2] > 0 => i > 1 /\ wire[i - 1] = <<wire[i][1], wire[i][2] - 1>>
       /\ wire[i][2] = 0 /\ i > 1 => wire[i - 1][2] = resp[wire[i - 1][1]].body
  /\ \A i, j \in DOMAIN wire : i < j => resp[wire[i][1]].req <= resp[wire[j][1]].req
  /\ \A q, r \in DOMAIN resp :
       /\ <<q, 0>> \in OnWire /\ <<r, 0>> \in OnWire
       /\ resp[q].req = resp[r].req /\ resp[q].kind = "final" /\ resp[r].kind = "final"
       => q = r

\* The server closes a connection of its own accord (not for a client that left,
\* a stop, or R code that failed) only after all of the
\* responses it began: the destructor of a response closes, and it must not run
\* before the last chunk is out (~HttpResponse, closeAfterWritten).
ClosesByItself ==
  /\ ~req.isClosing /\ req'.isClosing /\ ~client.eof /\ ~client.broken
  /\ ~ServerStops /\ ~ScheduledClose

ClosesAfterResponse ==
  [][ClosesByItself /\ ~client.piped => \A r \in DOMAIN resp : resp[r].st # "made" => Parts(r) \subseteq OnWire]_vars

\* Every request is answered in full, or the connection is closed or becomes a
\* WebSocket, whatever R and the parser's waiting do, as long as the socket takes
\* what is written, call() did not return NULL, and the client waits for its
\* answers.
EveryRequestAnswered ==
  \A k \in ReqNo : (Len(client.shape) >= k)
     ~> (Answered(k) \/ req.isClosing \/ req.protocol = "WebSockets" \/ client.broken
           \/ k \in app.declined \/ client.piped)

\* A connection that is being closed is eventually closed, with all its write
\* callbacks run, although handlers that do not look at _is_closing go on.
ClosingCompletes == req.isClosing ~> (req.onClosed /\ outq = <<>> /\ later = <<>> /\ bgq = <<>>)

\* R sees at most one onWSOpen, before any message, and nothing after onWSClose.
WsCallbacksInOrder ==
  \A i, j \in DOMAIN app.ws : i < j => app.ws[i].ev # "close" /\ app.ws[j].ev # "open"

\* The messages R sees are those the client sent, in their order, none twice,
\* none skipped, none changed on the way through _requestBuffer.
WsStreamIntact ==
  LET msgs == SelectSeq(app.ws, LAMBDA e : e.ev = "message") IN
  \A i \in DOMAIN msgs : msgs[i].n = i

\* A WebSocket of which R was told that it is open is reported closed when the
\* connection goes (WebSocket$onClose).
WsOpenedIsClosed ==
  (req.isClosing /\ \E i \in DOMAIN app.ws : app.ws[i].ev = "open")
    ~> (\E i \in DOMAIN app.ws : app.ws[i].ev = "close")

\* A request that was answered from onHeaders is not processed any further: it
\* is not turned into a WebSocket after its response.
HeadersResponseStops ==
  ~ \E q, r \in DOMAIN resp : /\ resp[q].req = resp[r].req
                              /\ resp[q].kind = "final" /\ resp[r].kind = "switch"
===============================================================================
