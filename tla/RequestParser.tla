---------------------------- MODULE RequestParser ----------------------------
(***************************************************************************)
(* The request side of http_parser_execute, byte by byte, with the data    *)
(* callbacks of HttpRequest and the buffer in which HttpRequest keeps what *)
(* arrives while R's onHeaders runs.  A request is cut into reads at any   *)
(* place: the parser keeps its state between reads, and hands a URL, a     *)
(* header field, a value or a body to its callbacks in as many pieces.     *)
(*                                                                         *)
(* A byte is a token: a letter, a digit, a separator.  Header names and    *)
(* values are abbreviated to a few letters that keep the common beginnings *)
(* of the real ones ("con", "cont", "conn"); the method and the version    *)
(* ("HTTP/1.1"), of which the parser keeps no pieces, are one token each.  *)
(* A read is a sequence of steps, one per byte, that nothing interrupts;   *)
(* where it ends is decided as it goes.                                    *)
(***************************************************************************)
EXTENDS Integers, Sequences, SequencesExt, TLC

CONSTANTS
    Requests,     \* the requests the client chooses from, see MCRequestParser
    FollowUps,    \* ... and for those after the first, fewer of them
    MaxRequests,  \* requests on the connection, one after the other
    Statuses,     \* results of onHeaders: 0 (go on), 3 (a response was sent)
    ULLONG_MAX    \* the largest length; stands for "no length" too

ASSUME LengthAssumption == ULLONG_MAX \in Nat /\ ULLONG_MAX > 16

VARIABLES
    q,        \* http_parser and the parsing state of HttpRequest
    client,   \* its request, the bytes of it and how many of them were sent
    req       \* HttpRequest: _requestBuffer, _protocol, what came of the request

vars == <<q, client, req>>

CR == "CR"
LF == "LF"
SP == " "
Methods == {"GET", "POST"}
Versions == {"1.0", "1.1"}
Letters == {"a", "c", "e", "h", "k", "l", "n", "o", "p", "s", "t", "u", "w", "x", "y"}
DigitValue == "0" :> 0 @@ "1" :> 1 @@ "2" :> 2 @@ "3" :> 3 @@ "5" :> 5 @@ "6" :> 6
HexValue == DigitValue @@ "a" :> 10 @@ "c" :> 12 @@ "e" :> 14

(* Abbreviations: connection, content-length, transfer-encoding, upgrade;  *)
(* the values chunked, close, keep-alive, upgrade.                         *)
Connection == <<"c", "o", "n", "n">>
ContentLength == <<"c", "o", "n", "t">>
TransferEncoding == <<"t", "e">>
Upgrade == <<"u", "p">>
Chunked == <<"c", "h">>
Close == <<"c", "l">>
KeepAlive == <<"k", "a">>

(* Names the parser looks for, and what it makes of them. *)
FieldState ==
    Connection :> "connection" @@ ContentLength :> "content_length" @@
    TransferEncoding :> "transfer_encoding" @@ Upgrade :> "upgrade"
ConnectionFlag == KeepAlive :> "keep_alive" @@ Close :> "close" @@ Upgrade :> "connection_upgrade"

Mismatch == <<"-">>

(* What of the known words `words` has been seen after one more letter:    *)
(* parser->index into the word at hand, or the state that gives it up.     *)
Matched(words, seen, ch) ==
    IF seen # Mismatch /\ \E w \in words : IsPrefix(Append(seen, ch), w)
    THEN Append(seen, ch) ELSE Mismatch

-----------------------------------------------------------------------------
(* The data callbacks of HttpRequest. *)

_newRequest(p) ==
    [p EXCEPT !.headers = << >>, !.last = "START", !.events = {"begin"}, !.body = <<>>]

_on_url(p) == [p EXCEPT !.url = p.piece]

_on_header_field(p) ==
    [p EXCEPT !.last = "FIELD", !.field = IF p.last = "FIELD" THEN @ \o p.piece ELSE p.piece]

(* As a mutation: every piece is taken for the value. *)
_on_header_valueReplaces(p) ==
    [p EXCEPT !.last = "VALUE", !.headers = (p.field :> p.piece) @@ @]

(* A second header of the same name is joined with a comma, unless one of  *)
(* the two is empty; a further piece of the same value is appended.        *)
_on_header_value(p) ==
    LET old == IF p.field \in DOMAIN p.headers THEN p.headers[p.field] ELSE <<>>
        value == IF p.last = "VALUE" THEN old \o p.piece
                 ELSE IF old # <<>> /\ p.piece # <<>> THEN old \o <<",">> \o p.piece
                 ELSE IF old # <<>> THEN old
                 ELSE p.piece
    IN [p EXCEPT !.last = "VALUE", !.headers = (p.field :> value) @@ @]

_on_body(p) == [p EXCEPT !.body = @ \o p.piece]

(* CALLBACK_DATA for the mark that is set: the piece goes to its callback. *)
CallbackData(p) ==
    LET done == CASE p.mark = "url" -> _on_url(p)
                  [] p.mark = "field" -> _on_header_field(p)
                  [] p.mark = "value" -> _on_header_value(p)
                  [] p.mark = "body" -> _on_body(p)
                  [] OTHER -> p
    IN [done EXCEPT !.mark = "none", !.piece = <<>>]

(* MARK(for), with the byte at hand as the first of the piece. *)
Mark(p, for, ch) == [p EXCEPT !.mark = for, !.piece = IF p.mark = for THEN Append(@, ch) ELSE <<ch>>]

Error(p) == [p EXCEPT !.err = TRUE, !.stop = "before"]
Goto(p, state) == [p EXCEPT !.state = state]
Expect(p, ch, wanted, next) == IF ch = wanted THEN next ELSE Error(p)

(* RETURN with the current byte consumed. *)
Return(p) == [p EXCEPT !.stop = "after"]

-----------------------------------------------------------------------------
(* http_should_keep_alive, NEW_MESSAGE, and the end of a message. *)

ShouldKeepAlive(p) ==
    IF p.version = "1.1" THEN "close" \notin p.flags ELSE "keep_alive" \in p.flags

(* As a mutation: the flag of HTTP/1.0 asked for in every version. *)
NewMessageOld(p) == IF "keep_alive" \in p.flags THEN "start_req" ELSE "dead"

NewMessage(p) == IF ShouldKeepAlive(p) THEN "start_req" ELSE "dead"

MessageComplete(p) == [p EXCEPT !.state = NewMessage(p), !.events = @ \union {"complete"}]

MessageDone(p) == IF p.upgrade THEN Return(MessageComplete(p)) ELSE MessageComplete(p)

-----------------------------------------------------------------------------
(* The request line. *)

StartReq(p, ch) ==
    IF ch \in {CR, LF} THEN p
    ELSE IF ch \in Methods
         THEN _newRequest([p EXCEPT !.flags = {}, !.status = -1, !.length = ULLONG_MAX,
                                    !.state = "req_method"])
    ELSE Error(p)

SpacesBeforeUrl(p, ch) ==
    IF ch = SP THEN p
    ELSE IF ch = "/" THEN Mark(Goto(p, "req_url"), "url", ch)
    ELSE Error(p)

Url(p, ch) ==
    IF ch = SP THEN CallbackData(Goto(p, "http_start"))
    ELSE IF ch \in {CR, LF}
         THEN CallbackData([p EXCEPT !.version = "0.9",
                                     !.state = IF ch = CR THEN "line_almost_done" ELSE "field_start"])
    ELSE Mark(p, "url", ch)

HttpVersion(p, ch) ==
    IF p.state = "http_start"
    THEN IF ch = SP THEN p
         ELSE IF ch \in Versions THEN [p EXCEPT !.version = ch, !.state = "http_minor"]
         ELSE Error(p)
    ELSE IF ch = CR THEN Goto(p, "line_almost_done")
         ELSE Expect(p, ch, LF, Goto(p, "field_start"))

-----------------------------------------------------------------------------
(* Headers. Each step below may go on with the same byte (REEXECUTE) in    *)
(* the one above it.                                                       *)

(* The end of the headers: a chunked body is over, or the callback is told *)
(* and the parser waits, with the LF unread.                               *)
HeadersAlmostDone(p, ch) ==
    IF ch # LF THEN Error(p)
    ELSE IF "trailing" \in p.flags THEN MessageDone(p)
    ELSE IF {"chunked", "content_length"} \subseteq p.flags THEN Error(p)
    ELSE [p EXCEPT !.upgrade = {"upgrade", "connection_upgrade"} \subseteq p.flags,
                   !.isUpgrade = @ \/ "upgrade" \in p.flags,
                   !.state = "wait", !.stop = "before",
                   !.events = @ \union {"headers"}]

FieldStart(p, ch) ==
    IF ch = CR THEN Goto(p, "headers_almost_done")
    ELSE IF ch = LF THEN HeadersAlmostDone(p, ch)
    ELSE IF ch \in Letters
         THEN Mark([p EXCEPT !.state = "field", !.seen = Matched(DOMAIN FieldState, <<>>, ch)],
                   "field", ch)
    ELSE Error(p)

Field(p, ch) ==
    IF ch \in Letters
    THEN Mark([p EXCEPT !.seen = Matched(DOMAIN FieldState, @, ch)], "field", ch)
    ELSE Expect(p, ch, ":",
           CallbackData([p EXCEPT !.state = "discard_ws",
                                  !.hs = IF p.seen \in DOMAIN FieldState
                                         THEN FieldState[p.seen] ELSE "general"]))

(* The first byte of a value, also of a continued one after a fold. *)
ValueStart(p0, ch) ==
    LET p == Mark(Goto(p0, "value"), "value", ch)
    IN CASE p.hs = "upgrade" ->
              [p EXCEPT !.flags = @ \union {"upgrade"}, !.hs = "general"]
         [] p.hs = "transfer_encoding" ->
              [p EXCEPT !.hs = "te_value", !.seen = Matched({Chunked}, <<>>, ch)]
         [] p.hs = "connection" ->
              [p EXCEPT !.hs = "connection_value", !.seen = Matched(DOMAIN ConnectionFlag, <<>>, ch)]
         [] p.hs = "connection_value" /\ p.seen = <<>> -> p
         [] p.hs = "content_length" ->
              IF ch \notin DOMAIN DigitValue \/ "content_length" \in p.flags THEN Error(p)
              ELSE [p EXCEPT !.flags = @ \union {"content_length"}, !.length = DigitValue[ch]]
         [] OTHER -> [p EXCEPT !.hs = "general"]

(* As a mutation: the length wraps around. *)
DigitUnchecked(p, value, base) ==
    [p EXCEPT !.length = (@ * base + value) % (ULLONG_MAX + 1)]

(* Digits of a length, with the guard against overflow. *)
Digit(p, value, base) ==
    IF (ULLONG_MAX - base) \div base < p.length THEN Error(p)
    ELSE [p EXCEPT !.length = @ * base + value]

(* The word at the end of a list of connection options. *)
WithOption(p) ==
    IF p.hs = "connection_value" /\ p.seen \in DOMAIN ConnectionFlag
    THEN [p EXCEPT !.flags = @ \union {ConnectionFlag[p.seen]}]
    ELSE IF p.hs = "te_value" /\ p.seen = Chunked
    THEN [p EXCEPT !.flags = @ \union {"chunked"}]
    ELSE p

ValueByte(p0, ch) ==
    LET p == Mark(p0, "value", ch)
    IN CASE p.hs = "content_length" ->
              IF ch = SP THEN p
              ELSE IF ch \in DOMAIN DigitValue THEN Digit(p, DigitValue[ch], 10)
              ELSE Error(p)
         [] p.hs = "te_value" ->
              IF ch = SP /\ p.seen = Chunked THEN p
              ELSE [p EXCEPT !.seen = Matched({Chunked}, @, ch)]
         [] p.hs = "connection_value" ->
              IF ch = "," THEN [WithOption(p) EXCEPT !.seen = <<>>]
              ELSE IF ch = SP /\ (p.seen = <<>> \/ p.seen \in DOMAIN ConnectionFlag) THEN p
              ELSE [p EXCEPT !.seen = Matched(DOMAIN ConnectionFlag, @, ch)]
         [] OTHER -> p

Value(p, ch) ==
    IF ch = CR THEN CallbackData(Goto(p, "header_almost_done"))
    ELSE IF ch = LF THEN CallbackData(Goto(p, "value_lws"))
    ELSE ValueByte(p, ch)

(* After the line: a blank continues the value, anything else starts the   *)
(* next line.                                                              *)
ValueLws(p, ch) ==
    IF ch = SP THEN ValueStart(p, ch) ELSE FieldStart(WithOption(p), ch)

DiscardWs(p, ch) ==
    CASE ch = SP -> p
      [] ch = CR -> Goto(p, "discard_ws_almost_done")
      [] ch = LF -> Goto(p, "discard_lws")
      [] OTHER -> ValueStart(p, ch)

(* An empty value is handed on, too. *)
DiscardLws(p, ch) ==
    IF ch = SP THEN Goto(p, "discard_ws")
    ELSE FieldStart(CallbackData([p EXCEPT !.mark = "value", !.piece = <<>>]), ch)

(* The LF again, after onHeaders. *)
HeadersDone(p, ch) ==
    LET hasBody == "chunked" \in p.flags \/ p.length \notin {0, ULLONG_MAX}
    IN CASE ch # LF -> Error(p)
         [] p.upgrade /\ ~hasBody -> Return(MessageComplete(p))
         [] "chunked" \in p.flags -> Goto(p, "chunk_size_start")
         [] hasBody -> Goto(p, "body_identity")
         [] OTHER -> MessageComplete(p)

OnHeadersCompleted(p, ch) ==
    CASE p.status = 0 -> HeadersDone(p, ch)
      [] p.status = 3 -> Return(Goto(p, NewMessage(p)))
      [] OTHER -> Error(p)

-----------------------------------------------------------------------------
(* The body. *)

(* One byte of s_body_identity; the last one ends the message. *)
BodyIdentity(p0, ch) ==
    LET p == [Mark(p0, "body", ch) EXCEPT !.length = @ - 1]
    IN IF p.length = 0 THEN MessageDone(CallbackData(p)) ELSE p

ChunkSizeStart(p, ch) ==
    IF ch \in DOMAIN HexValue THEN [p EXCEPT !.length = HexValue[ch], !.state = "chunk_size"]
    ELSE Error(p)

ChunkSize(p, ch) ==
    CASE ch = CR -> Goto(p, "chunk_size_almost_done")
      [] ch \in DOMAIN HexValue -> Digit(p, HexValue[ch], 16)
      [] ch \in {";", SP} -> Goto(p, "chunk_parameters")
      [] OTHER -> Error(p)

(* The chunk of size 0 is followed by trailing headers. *)
ChunkSizeAlmostDone(p, ch) ==
    Expect(p, ch, LF,
      IF p.length = 0 THEN [p EXCEPT !.flags = @ \union {"trailing"}, !.state = "field_start"]
      ELSE Goto(p, "chunk_data"))

ChunkData(p0, ch) ==
    LET p == [Mark(p0, "body", ch) EXCEPT !.length = @ - 1]
    IN IF p.length = 0 THEN Goto(p, "chunk_data_almost_done") ELSE p

-----------------------------------------------------------------------------
(* http_parser_execute. *)

Step(p, ch) ==
    CASE p.state = "dead" -> IF ch \in {CR, LF} THEN p ELSE Error(p)
      [] p.state = "start_req" -> StartReq(p, ch)
      [] p.state = "req_method" -> Expect(p, ch, SP, Goto(p, "spaces_before_url"))
      [] p.state = "spaces_before_url" -> SpacesBeforeUrl(p, ch)
      [] p.state = "req_url" -> Url(p, ch)
      [] p.state \in {"http_start", "http_minor"} -> HttpVersion(p, ch)
      [] p.state = "line_almost_done" -> Expect(p, ch, LF, Goto(p, "field_start"))
      [] p.state = "field_start" -> FieldStart(p, ch)
      [] p.state = "field" -> Field(p, ch)
      [] p.state = "discard_ws" -> DiscardWs(p, ch)
      [] p.state = "discard_ws_almost_done" -> Expect(p, ch, LF, Goto(p, "discard_lws"))
      [] p.state = "discard_lws" -> DiscardLws(p, ch)
      [] p.state = "value" -> Value(p, ch)
      [] p.state = "header_almost_done" -> Expect(p, ch, LF, Goto(p, "value_lws"))
      [] p.state = "value_lws" -> ValueLws(p, ch)
      [] p.state = "headers_almost_done" -> HeadersAlmostDone(p, ch)
      [] p.state = "wait" -> [p EXCEPT !.stop = "before"]
      [] p.state = "on_headers_completed" -> OnHeadersCompleted(p, ch)
      [] p.state = "body_identity" -> BodyIdentity(p, ch)
      [] p.state = "chunk_size_start" -> ChunkSizeStart(p, ch)
      [] p.state = "chunk_size" -> ChunkSize(p, ch)
      [] p.state = "chunk_parameters" -> IF ch = CR THEN Goto(p, "chunk_size_almost_done") ELSE p
      [] p.state = "chunk_size_almost_done" -> ChunkSizeAlmostDone(p, ch)
      [] p.state = "chunk_data" -> ChunkData(p, ch)
      [] p.state = "chunk_data_almost_done" ->
           Expect(p, ch, CR, CallbackData(Goto(p, "chunk_data_done")))
      [] p.state = "chunk_data_done" -> Expect(p, ch, LF, Goto(p, "chunk_size_start"))

(* The marks a read starts with: what is being collected continues.        *)
Resumed(p) ==
    [p EXCEPT !.stop = IF p.err THEN "before" ELSE "no", !.piece = <<>>,
              !.mark = CASE p.state = "field" -> "field"
                         [] p.state = "value" -> "value"
                         [] p.state = "req_url" -> "url"
                         [] OTHER -> "none"]

(* The end of the data: what is marked is handed on, unless the parser     *)
(* stopped earlier.                                                        *)
Ended(p) == IF p.stop = "no" THEN CallbackData(p) ELSE [p EXCEPT !.mark = "none", !.piece = <<>>]

-----------------------------------------------------------------------------
(* What the client sends, and what it means by it. A request is a record   *)
(* of its version, url, header lines (name, the bytes raw after the colon, *)
(* the value and the flags they stand for, the length they declare or -1,  *)
(* -2 if it is none), chunks (digits, size) with the lines of the trailer, *)
(* and the bytes of the new protocol after an upgrade.                     *)

BodyBytes == <<"b1", "b2", "b3", "b4", "b5", "b6", "b7", "b8", "b9", "b10", "b11", "b12">>

Flatten(seqs) == FoldLeft(LAMBDA a, b : a \o b, <<>>, seqs)

LineBytes(lines) == Flatten([i \in DOMAIN lines |-> lines[i].name \o <<":">> \o lines[i].raw])

Flags(r) == UNION {r.lines[i].flags : i \in DOMAIN r.lines}

Lengths(r) == {i \in DOMAIN r.lines : r.lines[i].length # -1}

Length(r) == IF Lengths(r) = {} THEN -1 ELSE r.lines[CHOOSE i \in Lengths(r) : TRUE].length

(* The length is a number that fits, there is one, and not both framings.  *)
Good(r) ==
    /\ \A i, j \in Lengths(r) : i = j
    /\ Length(r) # -2
    /\ ~(Lengths(r) # {} /\ "chunked" \in Flags(r))

ChunkSizes(r) == FoldLeft(LAMBDA n, c : n + c.size, 0, r.chunks)

BodyLength(r) ==
    IF "chunked" \in Flags(r) THEN ChunkSizes(r) ELSE IF Length(r) < 0 THEN 0 ELSE Length(r)

Body(r) == SubSeq(BodyBytes, 1, BodyLength(r))

(* The body as it is sent: chunks, the last one, trailer, or as it is. *)
BodyOnWire(r) ==
    IF "chunked" \in Flags(r)
    THEN LET Before(i) == FoldLeft(LAMBDA n, c : n + c.size, 0, SubSeq(r.chunks, 1, i - 1))
         IN Flatten([i \in DOMAIN r.chunks |->
                       r.chunks[i].digits \o <<CR, LF>> \o
                       SubSeq(BodyBytes, Before(i) + 1, Before(i) + r.chunks[i].size) \o <<CR, LF>>])
              \o <<"0", CR, LF>> \o LineBytes(r.trailer) \o <<CR, LF>>
    ELSE Body(r)

Message(r) ==
    <<"GET", SP>> \o r.url \o <<SP, r.version, CR, LF>> \o LineBytes(r.lines) \o <<CR, LF>>
      \o BodyOnWire(r)

Bytes(r) == Message(r) \o r.rest

(* The headers R should see: for each name its non-empty values, in order, *)
(* with commas in between.                                                 *)
Headers(r) ==
    LET Values(n) == SelectSeq([i \in DOMAIN r.lines |->
                                  IF r.lines[i].name = n THEN r.lines[i].value ELSE <<>>],
                               LAMBDA v : v # <<>>)
    IN [n \in {r.lines[i].name : i \in DOMAIN r.lines} |->
          FoldLeft(LAMBDA a, v : IF a = <<>> THEN v ELSE a \o <<",">> \o v, <<>>, Values(n))]

-----------------------------------------------------------------------------
(* HttpRequest. *)

(* The client's next request. *)
Sends(r) ==
    [r |-> r, bytes |-> Bytes(r), end |-> Len(Message(r)), body |-> Body(r),
     sent |-> 0, urlCut |-> FALSE]

Init ==
    /\ q = [state |-> "start_req", hs |-> "general", seen |-> <<>>, flags |-> {},
            length |-> ULLONG_MAX, version |-> "1.1", upgrade |-> FALSE, status |-> -1,
            err |-> FALSE, stop |-> "no", mark |-> "none", piece |-> <<>>,
            url |-> <<>>, field |-> <<>>, last |-> "START", headers |-> << >>,
            body |-> <<>>, events |-> {}, isUpgrade |-> FALSE]
    /\ \E r \in Requests : client = Sends(r)
    /\ req = [n |-> 1, input |-> "none", data |-> <<>>, buffer |-> <<>>, protocol |-> "HTTP", ignore |-> FALSE, closed |-> FALSE,
              answered |-> FALSE, handed |-> <<>>]

(* The next byte: of the buffered data, or from the client. What the       *)
(* parser does not consume is left in data.                                *)
Feed(p, rq) ==
    LET buffered == rq.input = "buffer"
        ch == IF buffered THEN Head(rq.data) ELSE client.bytes[client.sent + 1]
    IN \E b \in {IF p.stop = "no" THEN Step(p, ch) ELSE p} :
         /\ q' = b
         /\ req' = [rq EXCEPT !.data = CASE b.stop = "before" /\ ~buffered -> <<ch>>
                                         [] b.stop # "before" /\ buffered -> Tail(@)
                                         [] OTHER -> @]
         /\ client' = IF buffered THEN client ELSE [client EXCEPT !.sent = @ + 1]

(* _on_request_read: bytes arrive, ignored, for the other protocol or, the *)
(* first of them here, for the parser.                                     *)
Read ==
    /\ req.input = "none" /\ ~req.closed
    /\ client.sent < Len(client.bytes)
    /\ \/ /\ req.ignore
          /\ client' = [client EXCEPT !.sent = Len(client.bytes)]
          /\ UNCHANGED <<q, req>>
       \/ /\ ~req.ignore /\ req.protocol = "WebSockets"
          /\ client' = [client EXCEPT !.sent = @ + 1]
          /\ req' = [req EXCEPT !.handed = Append(@, client.bytes[client.sent + 1])]
          /\ UNCHANGED q
       \/ /\ ~req.ignore /\ req.protocol = "HTTP"
          /\ Feed(Resumed(q), [req EXCEPT !.input = "read"])

(* One more byte of the same read or buffer. *)
NextByte ==
    /\ q.stop = "no"
    /\ \/ req.input = "read" /\ client.sent < Len(client.bytes)
       \/ req.input = "buffer" /\ req.data # <<>>
    /\ Feed(q, req)

(* As a mutation: later data takes the place of the buffered. *)
_parse_http_dataReplaces(rest) ==
    \E end \in {Ended(q)} :
      LET rq == [req EXCEPT !.input = "none", !.data = <<>>]
      IN /\ q' = [end EXCEPT !.stop = "no"]
         /\ req' = CASE end.state = "wait" -> [rq EXCEPT !.buffer = rest]
                     [] end.state # "wait" /\ end.isUpgrade ->
                          [rq EXCEPT !.protocol = "WebSockets", !.handed = rest]
                     [] OTHER -> [rq EXCEPT !.closed = rest # <<>> /\ ~rq.ignore,
                                            !.answered = @ \/ "complete" \in end.events]

(* _parse_http_data after http_parser_execute: what the parser left is     *)
(* kept for after onHeaders, is the new protocol's, or is an error. (That  *)
(* the handshake is accepted is taken as given here.)                      *)
_parse_http_data(rest) ==
    \E end \in {Ended(q)} :
      LET rq == [req EXCEPT !.input = "none", !.data = <<>>]
      IN /\ q' = [end EXCEPT !.stop = "no"]
         /\ req' = CASE end.state = "wait" -> [rq EXCEPT !.buffer = @ \o rest]
                     [] end.state # "wait" /\ end.isUpgrade ->
                          [rq EXCEPT !.protocol = "WebSockets", !.handed = rest]
                     [] OTHER ->
                          [rq EXCEPT !.closed = rest # <<>> /\ ~rq.ignore,
                                     !.answered = @ \/ "complete" \in end.events]

(* The read ends: at the last byte parsed or, if the parser stopped, with  *)
(* n bytes after it.                                                       *)
ReadEnds ==
    \/ /\ req.input = "read"
       /\ \E n \in 0 .. Len(client.bytes) - client.sent :
            /\ q.stop = "no" => n = 0
            /\ _parse_http_data(req.data \o SubSeq(client.bytes, client.sent + 1, client.sent + n))
            /\ client' = [client EXCEPT !.sent = @ + n,
                              !.urlCut = @ \/ client.sent \in 3 .. 2 + Len(client.r.url)]
    \/ /\ req.input = "buffer"
       /\ q.stop # "no" \/ req.data = <<>>
       /\ _parse_http_data(req.data)
       /\ UNCHANGED client

(* _on_headers_complete_complete: R has decided, the parser goes on with   *)
(* what was buffered.                                                      *)
OnHeadersCompleteComplete ==
    /\ req.input = "none" /\ q.state = "wait"
    /\ \E status \in Statuses :
         LET bodyExpected == {ContentLength, TransferEncoding} \intersect DOMAIN q.headers # {}
             ignore == status = 3 /\ (bodyExpected \/ ~ShouldKeepAlive(q))
         IN /\ q' = Resumed([q EXCEPT !.status = status, !.state = "on_headers_completed"])
            /\ req' = [req EXCEPT !.input = "buffer", !.data = req.buffer, !.buffer = <<>>,
                                  !.ignore = @ \/ ignore, !.answered = status = 3]
    /\ UNCHANGED client

(* The response has come and the client sends another request. *)
NextRequest ==
    /\ req.input = "none" /\ req.answered /\ ~req.ignore /\ ~req.closed
    /\ req.protocol = "HTTP" /\ ShouldKeepAlive(q)
    /\ req.n < MaxRequests
    /\ \E r \in FollowUps : client' = Sends(r)
    /\ req' = [req EXCEPT !.n = @ + 1, !.answered = FALSE]
    /\ q' = [q EXCEPT !.events = {}, !.body = <<>>]

Parse == Read \/ NextByte \/ ReadEnds

Next == Parse \/ OnHeadersCompleteComplete \/ NextRequest

(* The client sends what it has begun, the background thread parses it and *)
(* R answers onHeaders.                                                    *)
Spec == Init /\ [][Next]_vars /\ WF_vars(Parse) /\ WF_vars(OnHeadersCompleteComplete)

-----------------------------------------------------------------------------
(* Properties. *)

(* Every variable has its type; between reads no piece is held back, only *)
(* a waiting parser leaves bytes behind, and a length is a number or the   *)
(* one that stands for none.                                               *)
TypeOK ==
    /\ q.length \in 0 .. ULLONG_MAX
    /\ q.last \in {"START", "FIELD", "VALUE"}
    /\ req.input \in {"none", "read", "buffer"}
    /\ req.input = "none" => q.mark = "none" /\ q.piece = <<>> /\ req.data = <<>>
    /\ req.buffer # <<>> => q.state = "wait"
    /\ client.sent \in 0 .. Len(client.bytes)

(* When onHeaders is called the headers, the flags and the length that the *)
(* parser acts on are those the client meant, wherever its bytes were cut  *)
(* and whatever the request before left behind; so is the URL if it came   *)
(* in one piece.                                                           *)
HeadExact ==
    q.state = "wait" /\ Good(client.r) =>
      /\ q.headers = Headers(client.r)
      /\ q.flags = Flags(client.r)
      /\ q.length = IF Length(client.r) = -1 THEN ULLONG_MAX ELSE Length(client.r)
      /\ ~client.urlCut => q.url = client.r.url

(* R is given the body, no byte more or less, in whatever pieces it came,  *)
(* and a request whose framing is ambiguous, or whose length does not fit, *)
(* is never taken to be complete.                                          *)
BodyExact ==
    /\ IsPrefix(q.body, client.body)
    /\ "complete" \in q.events => Good(client.r) /\ q.body = client.body
    /\ "headers" \in q.events => Good(client.r)

(* After an upgrade the other protocol gets the bytes behind the message,  *)
(* all of them and in order, whether they came before or after R's answer. *)
RestExact ==
    /\ req.protocol = "WebSockets" =>
         req.handed = SubSeq(client.bytes, client.end + 1, client.sent)
    /\ req.input = "none" /\ q.state = "wait" =>
         req.buffer # <<>> /\ req.buffer[1] = LF

(* A request that is well formed is answered in the end, and its connection*)
(* is not closed by the parser.                                            *)
GoodIsServed ==
    [](Good(client.r) => <>((req.answered \/ req.protocol = "WebSockets") /\ ~req.closed))

(* http-parser's README says that data callbacks "may be called more than  *)
(* once": the URL R sees is the client's, wherever it was cut.             *)
UrlExact == q.state = "wait" => q.url = client.r.url
=============================================================================
