---------------------------- MODULE ResponseBody ----------------------------
(***************************************************************************)
(* One HTTP response on its way to the client: HttpResponse::writeResponse *)
(* decides the framing and writes the head; when the head is written an    *)
(* ExtendedWrite pulls the body out of its DataSource (memory, file, or    *)
(* either of them through GZipDataSource) one buffer at a time and writes  *)
(* it to the libuv stream, the next buffer when the callback of the        *)
(* previous write runs.  Every write can be partial, fail or be cancelled  *)
(* by a close, a file can be changed by others while it is sent.           *)
(*                                                                         *)
(* All of it runs on the background thread: bg.at says where the thread is *)
(* inside a handler, and only in its event loop ("loop") does it start     *)
(* another one.  Data is abstract: byte i of the body is <<"b", i>>, its   *)
(* compressed form <<"z", i>>; a head, a chunk-size line, the end of a     *)
(* chunk and the last chunk are one unit each.                             *)
(***************************************************************************)
EXTENDS Integers, Sequences, FiniteSets, SequencesExt

CONSTANTS
    MaxSize,      \* bound: bytes of the longest body
    Window,       \* bytes asked of a DataSource at once (65536 in the code)
    InlineLimit,  \* 101 bodies shorter than this go out with the head (256)
    OtherWrites   \* whether another response may write to the stream meanwhile

ASSUME WindowAssumption == Window \in Nat \ {0}
ASSUME LimitsAssumption == MaxSize \in Nat /\ InlineLimit \in Nat

VARIABLES
    resp,    \* HttpResponse: what it answers, its framing, who refers to it
    src,     \* the innermost DataSource
    gz,      \* GZipDataSource around it
    ew,      \* ExtendedWrite
    stream,  \* uv_stream_t: write_queue, write_completed_queue, what was sent
    bg,      \* where the background thread is
    heap,    \* malloced buffers: out (to be written), in (input of zlib)
    env      \* history: what the outside did

vars == <<resp, src, gz, ew, stream, bg, heap, env>>

NoLength == MaxSize + 1

(* A sequence with every element replaced. *)
Apply(Op(_), seq) == [i \in DOMAIN seq |-> Op(seq[i])]

Byte(i) == <<"b", i>>
Compressed(i) == <<"z", i>>
GzHead == <<"gzhead", 0>>
GzEnd == <<"gzend", 0>>
ChunkSize(n) == <<"chunk", n>>
ChunkEnd == <<"crlf", 0>>
LastChunk == <<"last", 0>>
OtherUnit == <<"other", 0>>

(* One write request; owned: its data buffer was malloced. *)
Req(who, units, owned) ==
    [who |-> who, units |-> units, owned |-> owned, err |-> FALSE]

(* What the variables range over. *)
Unit == {"head", "b", "z", "gzhead", "gzend", "chunk", "crlf", "last", "other"} \X Nat

WriteReq ==
    [who : {"head", "body", "other"}, units : Seq(Unit), owned : BOOLEAN, err : BOOLEAN]

HttpResponse ==
    [code : {101, 200}, body : BOOLEAN, size : Nat, acceptGzip : BOOLEAN,
     encoded : BOOLEAN, ownLength : BOOLEAN, closeAfter : BOOLEAN, gzip : BOOLEAN,
     framing : {"undecided", "none", "length", "chunked"},
     heldBy : {"scheduled", "write", "body", "nobody"}]

DataSource ==
    [kind : {"none", "memory", "file"}, pos : Nat, real : Nat, open : BOOLEAN]

GZipDataSource ==
    [state : {"Streaming", "Finishing", "Done"}, in : Seq(Nat), inBuf : BOOLEAN,
     held : Seq(Unit), out : Seq(Unit)]

ExtendedWrite ==
    [alive : BOOLEAN, active : Nat, errored : BOOLEAN, completed : BOOLEAN]

Stream ==
    [queue : Seq(WriteReq), completed : Seq(WriteReq),
     fd : {"open", "closing", "closed"}, broken : BOOLEAN, sent : Seq(Unit)]

Thread ==
    [at : {"loop", "callbacks", "next", "gzip", "write"}, pq : Seq(WriteReq),
     buf : Seq(Unit), owned : BOOLEAN]

Outside ==
    [changed : BOOLEAN, readError : BOOLEAN, closed : BOOLEAN, other : BOOLEAN,
     refused : BOOLEAN]

-----------------------------------------------------------------------------
(* The responses the program creates: a body from memory or from a file    *)
(* (listToResponse, staticFileResponse), none (204, 304, HEAD: then with   *)
(* the length as a header), and the 101 of a WebSocket whose body, if any, *)
(* is the challenge answer of the older drafts. (Flags that make no        *)
(* difference together are not combined.)                                  *)
(***************************************************************************)
Responses ==
    { r \in [code : {101, 200}, kind : {"none", "memory", "file"},
             size : 0 .. MaxSize, acceptGzip : BOOLEAN, encoded : BOOLEAN,
             ownLength : BOOLEAN, close : BOOLEAN] :
        /\ r.code = 101 => /\ r.kind # "file" /\ r.size < InlineLimit
                           /\ ~(r.encoded \/ r.ownLength \/ r.close)
        /\ r.kind = "none" => ~r.acceptGzip /\ ~r.encoded
        /\ r.encoded => r.acceptGzip /\ ~r.ownLength /\ ~r.close }

Init ==
    /\ \E r \in Responses :
         /\ resp = [code |-> r.code, body |-> r.kind # "none", size |-> r.size,
                    acceptGzip |-> r.acceptGzip, encoded |-> r.encoded,
                    ownLength |-> r.ownLength, closeAfter |-> r.close,
                    gzip |-> FALSE, framing |-> "undecided",
                    heldBy |-> "scheduled"]
         /\ src = [kind |-> r.kind, pos |-> 0, real |-> r.size,
                   open |-> r.kind # "none"]
    /\ gz = [state |-> "Streaming", in |-> <<>>, inBuf |-> FALSE,
             held |-> <<GzHead>>, out |-> <<>>]
    /\ ew = [alive |-> FALSE, active |-> 0, errored |-> FALSE, completed |-> FALSE]
    /\ stream = [queue |-> <<>>, completed |-> <<>>, fd |-> "open",
                 broken |-> FALSE, sent |-> <<>>]
    /\ bg = [at |-> "loop", pq |-> <<>>, buf |-> <<>>, owned |-> FALSE]
    /\ heap = [out |-> 0, in |-> 0]
    /\ env = [changed |-> FALSE, readError |-> FALSE, closed |-> FALSE,
              other |-> FALSE, refused |-> FALSE]

-----------------------------------------------------------------------------
(* libuv's stream. *)

(* uv__write: one attempt at the first request of the queue. The socket    *)
(* takes at least `least` units of it, or, once the peer is gone, the write*)
(* fails. A request that is through waits for its callback.                *)
Attempt(st, least) ==
    IF st.queue = <<>> THEN {st}
    ELSE LET req == Head(st.queue)
             Through(r) == [st EXCEPT !.queue = Tail(@), !.completed = Append(@, r)]
         IN IF st.broken
            THEN {Through([req EXCEPT !.err = TRUE])}
            ELSE { LET rest == SubSeq(req.units, n + 1, Len(req.units))
                       t == IF rest = <<>>
                            THEN Through([req EXCEPT !.units = <<>>])
                            ELSE [st EXCEPT !.queue[1].units = rest]
                   IN [t EXCEPT !.sent = @ \o SubSeq(req.units, 1, n)] :
                   n \in least .. Len(req.units) }

(* write_queue_size is 0: no request in libuv's hands has units left. *)
NothingToWrite(st, pq) ==
    \A q \in {st.queue, st.completed, pq} : \A i \in DOMAIN q : q[i].units = <<>>

(* uv_write2: refused when the descriptor is closed; tried at once when    *)
(* nothing is queued, otherwise left to the event loop.                    *)
uv_write(st, pq, req) ==
    LET queued == [st EXCEPT !.queue = Append(@, req)]
    IN IF NothingToWrite(st, pq) THEN Attempt(queued, 0) ELSE {queued}

Refuses(st) == st.fd # "open"

(* uv__stream_close: the descriptor is gone at once, the rest follows.     *)
uv_close(st) == IF st.fd = "open" THEN [st EXCEPT !.fd = "closing"] ELSE st

(* Where the thread goes when a callback returns. *)
Back(pq) == IF pq = <<>> THEN "loop" ELSE "callbacks"

-----------------------------------------------------------------------------
(* DataSources. *)

(* The bytes getData(n) finds in memory or reads from the file, which may  *)
(* have become shorter than what was read of it.                           *)
GetData(s, n) ==
    LET left == IF s.real > s.pos THEN s.real - s.pos ELSE 0
    IN [i \in 1 .. (IF n < left THEN n ELSE left) |-> s.pos + i]

(* FileDataSource::getData reads into a buffer it mallocs, at the end of   *)
(* the file too; memory is used where it lies.                             *)
Mallocs(s) == IF s.kind = "file" THEN 1 ELSE 0

(* InMemoryDataSource::close and FileDataSource::close. *)
CloseSource(s) == [s EXCEPT !.open = FALSE]

(* Whether GZipDataSource holds a malloced input buffer. *)
InputBufs(g) == IF g.inBuf THEN 1 ELSE 0

(* The shared_ptr that keeps the response alive (of the scheduled callback,*)
(* of the head's write, of the ExtendedWrite: one at a time) is gone.      *)
Released(r) == [r EXCEPT !.heldBy = "nobody"]

(* ~HttpResponse: it closes the connection if asked to, and its            *)
(* DataSources go with it; GZipDataSource gives its input buffer back.     *)
Destructor(r) ==
    /\ src' = CloseSource(src)
    /\ stream' = IF r.closeAfter THEN uv_close(stream) ELSE stream
    /\ heap' = [heap EXCEPT !.in = @ - InputBufs(gz)]
    /\ gz' = [gz EXCEPT !.inBuf = FALSE, !.in = <<>>]

-----------------------------------------------------------------------------
(* HttpResponse. *)

Gzips(r) == ~r.encoded /\ r.code # 101 /\ r.body /\ r.acceptGzip

(* A deviation of Framing: the length the application gives comes before   *)
(* the chunked encoding that gzip needs.                                   *)
FramingTrustsLength(r) ==
    IF r.code = 101 THEN "none"
    ELSE IF r.ownLength THEN "length"
    ELSE IF Gzips(r) THEN "chunked"
    ELSE IF r.body THEN "length"
    ELSE "none"

(* Which framing header the head carries. *)
Framing(r) ==
    IF r.code = 101 THEN "none"
    ELSE IF Gzips(r) THEN "chunked"
    ELSE IF r.ownLength \/ r.body THEN "length"
    ELSE "none"

(* The bytes of a 101 body leave with the head. *)
Inlines(r) == r.code = 101 /\ r.body /\ r.size > 0 /\ r.size < InlineLimit

HeadUnits(r, s) ==
    <<<<"head", IF Framing(r) = "length" THEN r.size ELSE NoLength>>>>
      \o IF Inlines(r) THEN Apply(Byte, GetData(s, r.size)) ELSE <<>>

(* writeResponse: the head is decided and written. *)
WriteResponse ==
    /\ bg.at = "loop"
    /\ resp.heldBy = "scheduled"
    /\ LET decided == [resp EXCEPT !.gzip = Gzips(resp), !.framing = Framing(resp),
                                   !.body = @ /\ ~Inlines(resp), !.heldBy = "write"]
       IN IF Refuses(stream)
          THEN /\ resp' = Released(decided)
               /\ Destructor(decided)
          ELSE /\ resp' = decided
               /\ stream' \in uv_write(stream, <<>>, Req("head", HeadUnits(resp, src), FALSE))
               /\ UNCHANGED <<src, heap, gz>>
    /\ UNCHANGED <<ew, bg, env>>

(* A deviation of OnResponseWritten: the connection is closed as soon as   *)
(* the head is out, with the body still to come.                           *)
OnResponseWrittenCloses(req) ==
    LET pq == Tail(bg.pq)
    IN /\ req.who = "head"
       /\ ew' = [ew EXCEPT !.alive = resp.body]
       /\ resp' = [resp EXCEPT !.heldBy = IF resp.body THEN "body" ELSE "nobody"]
       /\ bg' = [bg EXCEPT !.pq = pq, !.at = IF resp.body THEN "next" ELSE Back(pq)]
       /\ stream' = IF resp.closeAfter THEN uv_close(stream) ELSE stream
       /\ UNCHANGED <<src, heap, gz, env>>

(* A deviation of OnResponseWritten: the shared_ptr of the write is not    *)
(* deleted when the write failed.                                          *)
OnResponseWrittenLeaks(req) ==
    LET pq == Tail(bg.pq)
    IN /\ req.who = "head"
       /\ ew' = [ew EXCEPT !.alive = ~req.err /\ resp.body]
       /\ resp' = IF req.err THEN resp
                  ELSE [resp EXCEPT !.heldBy = IF resp.body THEN "body" ELSE "nobody"]
       /\ bg' = [bg EXCEPT !.pq = pq,
                           !.at = IF ~req.err /\ resp.body THEN "next" ELSE Back(pq)]
       /\ src' = IF resp.body \/ req.err THEN src ELSE CloseSource(src)
       /\ UNCHANGED <<stream, heap, gz, env>>

(* on_response_written and onResponseWritten: an ExtendedWrite begins.     *)
(* After a failed write the flag makes the destructor close the connection.*)
OnResponseWritten(req) ==
    LET pq == Tail(bg.pq)
        r == IF req.err THEN [resp EXCEPT !.closeAfter = TRUE] ELSE resp
    IN /\ req.who = "head"
       /\ IF ~req.err /\ resp.body
          THEN /\ ew' = [ew EXCEPT !.alive = TRUE]
               /\ resp' = [resp EXCEPT !.heldBy = "body"]
               /\ bg' = [bg EXCEPT !.pq = pq, !.at = "next"]
               /\ UNCHANGED <<src, stream, heap, gz>>
          ELSE /\ resp' = Released(r)
               /\ bg' = [bg EXCEPT !.pq = pq, !.at = Back(pq)]
               /\ Destructor(r)
               /\ UNCHANGED ew
       /\ UNCHANGED env

-----------------------------------------------------------------------------
(* ExtendedWrite and WriteOp. *)

(* The data source is closed and the ExtendedWrite deletes itself          *)
(* (HttpResponseExtendedWrite::onWriteComplete).                           *)
Dispose(e) ==
    /\ ew' = [e EXCEPT !.alive = FALSE]
    /\ resp' = Released(resp)
    /\ bg' = [bg EXCEPT !.at = Back(bg.pq), !.buf = <<>>, !.owned = FALSE]
    /\ Destructor(resp)

(* next(), nothing left to send: disposal once no write is under way.      *)
NextDisposes ==
    /\ bg.at = "next"
    /\ ew.errored \/ ew.completed
    /\ IF ew.active = 0 THEN Dispose(ew)
       ELSE bg' = [bg EXCEPT !.at = Back(bg.pq)] /\ UNCHANGED <<ew, resp, src, stream, heap, gz>>
    /\ UNCHANGED env

(* next() asks the source for data. A file is read into a new buffer, an   *)
(* empty one at its end too; memory is used where it lies; gzip starts its *)
(* loop unless it is done.                                                 *)
NextGetsData ==
    /\ bg.at = "next"
    /\ ~(ew.errored \/ ew.completed)
    /\ IF resp.gzip
       THEN /\ bg' = [bg EXCEPT !.at = IF gz.state = "Done" THEN "write" ELSE "gzip",
                                !.buf = <<>>, !.owned = gz.state # "Done"]
            /\ heap' = [heap EXCEPT !.out = @ + (IF gz.state = "Done" THEN 0 ELSE 1)]
            /\ gz' = [gz EXCEPT !.out = <<>>]
            /\ UNCHANGED src
       ELSE LET bytes == GetData(src, Window)
            IN /\ bg' = [bg EXCEPT !.at = "write", !.buf = Apply(Byte, bytes),
                                   !.owned = Mallocs(src) = 1]
               /\ heap' = [heap EXCEPT !.out = @ + Mallocs(src)]
               /\ src' = [src EXCEPT !.pos = @ + Len(bytes)]
               /\ UNCHANGED gz
    /\ UNCHANGED <<resp, ew, stream, env>>

(* The read fails: getData frees its buffer and throws. Out of gzip's loop *)
(* the exception leaves the output buffer behind.                          *)
ReadFails ==
    /\ src.kind = "file"
    /\ \/ bg.at = "next" /\ ~resp.gzip /\ ~(ew.errored \/ ew.completed)
       \/ bg.at = "gzip" /\ gz.state = "Streaming" /\ gz.in = <<>> /\ Len(gz.out) < Window
    /\ IF ew.active = 0 THEN Dispose([ew EXCEPT !.errored = TRUE])
       ELSE /\ ew' = [ew EXCEPT !.errored = TRUE]
            /\ bg' = [bg EXCEPT !.at = Back(bg.pq), !.buf = <<>>, !.owned = FALSE]
            /\ UNCHANGED <<resp, src, stream, heap, gz>>
    /\ env' = [env EXCEPT !.readError = TRUE]

(* next(), after getData: the buffer is framed and written. No buffer at   *)
(* all to write: on to disposal. uv_write's result is not looked at.       *)
NextWrites ==
    LET units == IF resp.framing = "chunked"
                 THEN IF bg.buf = <<>> THEN <<LastChunk>>
                      ELSE <<ChunkSize(Len(bg.buf))>> \o bg.buf \o <<ChunkEnd>>
                 ELSE bg.buf
        done == [ew EXCEPT !.completed = bg.buf = <<>>]
    IN /\ bg.at = "write"
       /\ IF units = <<>>
          THEN /\ heap' = [heap EXCEPT !.out = @ - (IF bg.owned THEN 1 ELSE 0)]
               /\ ew' = done
               /\ bg' = [bg EXCEPT !.at = "next", !.owned = FALSE]
               /\ UNCHANGED <<stream, env>>
          ELSE /\ ew' = [done EXCEPT !.active = @ + 1]
               /\ bg' = [bg EXCEPT !.at = Back(bg.pq), !.buf = <<>>, !.owned = FALSE]
               /\ IF Refuses(stream)
                  THEN env' = [env EXCEPT !.refused = TRUE] /\ UNCHANGED stream
                  ELSE /\ stream' \in uv_write(stream, bg.pq, Req("body", units, bg.owned))
                       /\ UNCHANGED env
               /\ UNCHANGED heap
       /\ UNCHANGED <<resp, src, gz>>

(* A deviation of WriteOpEnd: a failed write ends without next(). *)
WriteOpEndStopsOnError(req) ==
    LET pq == Tail(bg.pq)
    IN /\ req.who = "body"
       /\ heap' = [heap EXCEPT !.out = @ - (IF req.owned THEN 1 ELSE 0)]
       /\ ew' = [ew EXCEPT !.active = @ - 1]
       /\ bg' = [bg EXCEPT !.pq = pq,
                           !.at = IF ~req.err /\ NothingToWrite(stream, pq)
                                  THEN "next" ELSE Back(pq)]
       /\ UNCHANGED <<resp, src, gz, stream, env>>

(* writecb and WriteOp::end, whatever the status: the buffer is freed, and *)
(* when libuv has nothing left to write, next().                           *)
WriteOpEnd(req) ==
    LET pq == Tail(bg.pq)
    IN /\ req.who = "body"
       /\ heap' = [heap EXCEPT !.out = @ - (IF req.owned THEN 1 ELSE 0)]
       /\ ew' = [ew EXCEPT !.active = @ - 1]
       /\ bg' = [bg EXCEPT !.pq = pq,
                           !.at = IF NothingToWrite(stream, pq) THEN "next" ELSE Back(pq)]
       /\ UNCHANGED <<resp, src, gz, stream, env>>

-----------------------------------------------------------------------------
(* GZipDataSource::getData. *)

(* zlib's deflate, without flush: it takes input until there is none left  *)
(* or the output area is full, and gives out as much as it likes of what it*)
(* holds. With Z_FINISH it gives out all of it and the footer, as far as   *)
(* there is room.                                                          *)
Deflate(g) ==
    LET room == Window - Len(g.out)
        taken(k) == g.held \o Apply(Compressed, SubSeq(g.in, 1, k))
        given(k) == { n \in 0 .. room :
                        n <= Len(g.held) + k /\ (k = Len(g.in) \/ n = room) }
        After(all, k, n) ==
            [g EXCEPT !.in = SubSeq(@, k + 1, Len(@)),
                      !.held = SubSeq(all, n + 1, Len(all)),
                      !.out = @ \o SubSeq(all, 1, n)]
    IN IF g.state = "Finishing"
       THEN LET all == g.held \o <<GzEnd>>
                n == IF Len(all) < room THEN Len(all) ELSE room
            IN IF n = Len(all) THEN {[After(all, 0, n) EXCEPT !.state = "Done"]}
               ELSE {After(g.held, 0, n)}
       ELSE UNION { { After(taken(k), k, n) : n \in given(k) } : k \in 0 .. Len(g.in) }

(* A deviation of FreeInputBuffer: given back whether zlib needs it or not. *)
FreeInputBufferForced(g) == [g EXCEPT !.inBuf = FALSE]

(* freeInputBuffer, unless zlib still has input in it. *)
FreeInputBuffer(g) == IF g.in = <<>> /\ g.inBuf THEN [g EXCEPT !.inBuf = FALSE] ELSE g

(* One turn of the loop: fetch input if zlib has used up its own, deflate. *)
GzipTurn ==
    /\ bg.at = "gzip"
    /\ Len(gz.out) < Window /\ gz.state # "Done"
    /\ LET fetch == gz.state = "Streaming" /\ gz.in = <<>>
           bytes == IF fetch THEN GetData(src, Window) ELSE <<>>
           freed == IF fetch THEN FreeInputBuffer(gz) ELSE gz
           fed == IF fetch
                  THEN [freed EXCEPT !.in = bytes, !.inBuf = Mallocs(src) = 1,
                                     !.state = IF bytes = <<>> THEN "Finishing" ELSE @]
                  ELSE gz
       IN /\ gz' \in Deflate(fed)
          /\ src' = [src EXCEPT !.pos = @ + Len(bytes)]
          /\ heap' = [heap EXCEPT !.in = @ - InputBufs(gz) + InputBufs(freed)
                                           + (IF fetch THEN Mallocs(src) ELSE 0)]
    /\ UNCHANGED <<resp, ew, stream, bg, env>>

(* The loop ends: the output area is full or the stream is finished. *)
GzipReturns ==
    /\ bg.at = "gzip"
    /\ Len(gz.out) = Window \/ gz.state = "Done"
    /\ gz' = [FreeInputBuffer(gz) EXCEPT !.out = <<>>]
    /\ heap' = [heap EXCEPT !.in = @ - InputBufs(gz) + InputBufs(FreeInputBuffer(gz))]
    /\ bg' = [bg EXCEPT !.at = "write", !.buf = gz.out]
    /\ UNCHANGED <<resp, src, ew, stream, env>>

-----------------------------------------------------------------------------
(* The event loop, and the outside. *)

(* uv__stream_io: the socket is writable again, or requests wait for their *)
(* callbacks; uv__write_callbacks then runs them.                          *)
Poll ==
    /\ bg.at = "loop" /\ stream.fd = "open"
    /\ stream.queue # <<>> \/ stream.completed # <<>>
    /\ \E st \in Attempt(stream, IF stream.completed = <<>> THEN 1 ELSE 0) :
         /\ stream' = [st EXCEPT !.completed = <<>>]
         /\ bg' = [bg EXCEPT !.pq = st.completed, !.at = Back(st.completed)]
    /\ UNCHANGED <<resp, src, gz, ew, heap, env>>

(* uv__stream_destroy, in the iteration after uv_close: what was queued is *)
(* cancelled, and all callbacks run.                                       *)
Destroy ==
    /\ bg.at = "loop" /\ stream.fd = "closing"
    /\ LET cancelled == Apply(LAMBDA r : [r EXCEPT !.err = TRUE], stream.queue)
           pq == stream.completed \o cancelled
       IN bg' = [bg EXCEPT !.pq = pq, !.at = Back(pq)]
    /\ stream' = [stream EXCEPT !.queue = <<>>, !.completed = <<>>, !.fd = "closed"]
    /\ UNCHANGED <<resp, src, gz, ew, heap, env>>

OtherWritten(req) ==
    /\ req.who = "other"
    /\ bg' = [bg EXCEPT !.pq = Tail(@), !.at = Back(Tail(bg.pq))]
    /\ UNCHANGED <<resp, src, gz, ew, stream, heap, env>>

RunCallback ==
    /\ bg.at = "callbacks"
    /\ LET req == Head(bg.pq)
       IN OnResponseWritten(req) \/ WriteOpEnd(req) \/ OtherWritten(req)

(* HttpRequest::close, because the client is gone, misbehaves or the server*)
(* stops.                                                                  *)
Close ==
    /\ bg.at = "loop" /\ stream.fd = "open"
    /\ stream' = uv_close(stream)
    /\ env' = [env EXCEPT !.closed = TRUE]
    /\ UNCHANGED <<resp, src, gz, ew, bg, heap>>

(* The client resets the connection: every further write fails. *)
ClientGone ==
    /\ ~stream.broken
    /\ stream' = [stream EXCEPT !.broken = TRUE]
    /\ UNCHANGED <<resp, src, gz, ew, bg, heap, env>>

(* Somebody writes to the file while it is being sent. *)
FileChanges ==
    /\ src.kind = "file" /\ src.open /\ ~env.changed
    /\ \E n \in 0 .. MaxSize + 1 : n # src.real /\ src' = [src EXCEPT !.real = n]
    /\ env' = [env EXCEPT !.changed = TRUE]
    /\ UNCHANGED <<resp, gz, ew, stream, bg, heap>>

(* The head of the next response, to a client that did not wait: the       *)
(* request counts as completed when the head is queued.                    *)
OtherResponse ==
    /\ OtherWrites /\ ~env.other
    /\ bg.at = "loop" /\ ~Refuses(stream)
    /\ resp.framing # "undecided"
    /\ stream' \in uv_write(stream, <<>>, Req("other", <<OtherUnit>>, FALSE))
    /\ env' = [env EXCEPT !.other = TRUE]
    /\ UNCHANGED <<resp, src, gz, ew, bg, heap>>

Background ==
    \/ WriteResponse
    \/ RunCallback
    \/ NextDisposes
    \/ NextGetsData
    \/ NextWrites
    \/ GzipTurn
    \/ GzipReturns
    \/ Poll
    \/ Destroy

Next == Background \/ ReadFails \/ Close \/ ClientGone \/ FileChanges \/ OtherResponse

(* The background thread keeps going, and a client that stays keeps        *)
(* reading. Faults need not happen.                                        *)
Spec == Init /\ [][Next]_vars /\ WF_vars(Background)

-----------------------------------------------------------------------------
(* Properties. *)

(* Body writes in a queue of requests, those with a malloced buffer, and   *)
(* how many of them libuv has.                                             *)
BodyAt(q) == {i \in DOMAIN q : q[i].who = "body"}
OwnedAt(q) == {i \in BodyAt(q) : q[i].owned}

InFlight(At(_)) ==
    Cardinality(At(stream.queue)) + Cardinality(At(stream.completed)) + Cardinality(At(bg.pq))

(* Every variable has its type: in particular no count of buffers or of     *)
(* writes under way goes below zero, and callbacks run only while there are*)
(* some.                                                                   *)
TypeOK ==
    /\ resp \in HttpResponse
    /\ src \in DataSource
    /\ gz \in GZipDataSource
    /\ ew \in ExtendedWrite
    /\ stream \in Stream
    /\ bg \in Thread
    /\ heap \in [out : Nat, in : Nat]
    /\ env \in Outside
    /\ bg.at = "callbacks" <=> bg.at \notin {"next", "gzip", "write"} /\ bg.pq # <<>>

IsData(u) == u[1] \in {"b", "z"}

Payload == Apply(LAMBDA u : u[2], SelectSeq(stream.sent, IsData))

BodySize == IF src.kind = "none" THEN 0 ELSE resp.size

(* The client has the head and, by the framing it announces, the whole body. *)
Ended ==
    /\ stream.sent # <<>>
    /\ IF resp.framing = "chunked" THEN LastChunk \in Range(stream.sent)
       ELSE Len(Payload) >= BodySize

(* A client that sees the end of the body its framing announces has every  *)
(* byte of the body in order, and a complete gzip stream, whatever write   *)
(* failed and wherever the connection was closed; the only exception is a  *)
(* file that others changed after its size was taken. Chunks have the size *)
(* they announce.                                                          *)
EndMeansWhole ==
    /\ (Ended /\ ~env.changed) =>
         /\ Payload = [i \in 1 .. BodySize |-> i]
         /\ resp.gzip =>
              LET z == SelectSeq(stream.sent, LAMBDA u : u[1] \in {"z", "gzhead", "gzend"})
              IN z # <<>> /\ z[1] = GzHead /\ z[Len(z)] = GzEnd
    /\ \A i \in DOMAIN stream.sent :
         LET n == stream.sent[i][2] IN
         (stream.sent[i][1] = "chunk" /\ i + n + 1 <= Len(stream.sent) /\ ~env.other) =>
            /\ n > 0
            /\ stream.sent[i + n + 1] = ChunkEnd
            /\ \A j \in i + 1 .. i + n : stream.sent[j][1] \in {"b", "z", "gzhead", "gzend"}

(* Every malloced buffer has one owner: a write under way, next() itself or*)
(* zlib's input; nothing is freed that is still to be written or compressed*)
(* (memory bodies are not cleared under a write), and a released response  *)
(* has given everything back. The exceptions are the two leaks of the code:*)
(* a body write that uv_write refuses (uvutil.cpp:173) and a read that     *)
(* fails under gzip (gzipdatasource.cpp:48).                               *)
BuffersOwned ==
    LET lost == heap.out - InFlight(OwnedAt) - (IF bg.owned THEN 1 ELSE 0)
    IN /\ lost \in (IF env.refused \/ (env.readError /\ resp.gzip) THEN {0, 1} ELSE {0})
       /\ heap.in = InputBufs(gz)
       /\ (gz.in # <<>> /\ src.kind = "file") => gz.inBuf
       /\ (InFlight(BodyAt) > 0 \/ gz.in # <<>>) => src.open /\ ew.alive
       /\ ew.active = InFlight(BodyAt) + (IF env.refused THEN 1 ELSE 0)

(* No lost wake-up: when the thread is back in its loop, a body that is not*)
(* through has a write whose callback will call next(). The exceptions: the*)
(* refused write, and a write of the next response behind it in the queue, *)
(* which makes WriteOp::end skip next() (uvutil.cpp:53) for good.          *)
BodyKeepsMoving ==
    (bg.at = "loop" /\ ew.alive) => InFlight(BodyAt) > 0 \/ env.refused \/ env.other

(* The response, its file and its ExtendedWrite are released in the end,   *)
(* whether the transfer succeeds or fails, but for the two exceptions of   *)
(* BodyKeepsMoving.                                                        *)
ReleasedInTheEnd == <>((resp.heldBy = "nobody" /\ ~src.open) \/ env.refused \/ env.other)

(* NEWS.md says of writes to a connection that was already closed that they*)
(* were "not harmful, and [...] already being handled correctly": then the *)
(* response and its file are released after a close too.                   *)
ClosedIsHandled == <>(resp.heldBy = "nobody" /\ ~src.open)

Body == INSTANCE BodyStream WITH
    size <- BodySize,
    got <- IF Payload = [i \in 1 .. Len(Payload) |-> i] THEN Len(Payload) ELSE -1,
    end <- IF env.changed \/ env.other THEN "failed"
           ELSE IF Ended THEN "complete"
           ELSE IF env.readError \/ env.closed \/ stream.broken THEN "failed"
           ELSE "open"

(* The client receives the body as BodyStream promises: in order, nothing  *)
(* twice, and completely unless the outside makes the transfer fail.       *)
ImplementsBody == Body!Spec
=============================================================================
