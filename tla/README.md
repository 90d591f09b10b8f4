# A TLA+ verification project for httpuv

httpuv is an HTTP and WebSocket server inside an R process.  R code may only
run on R's main thread; the sockets are served by a background thread that
runs a libuv loop.  Nearly everything that is hard in this code comes from
that split: a request is parsed on one thread, shown to R on the other, parsed
further when R has answered, and answered on the first thread again, while the
client may leave, the server may be stopped, and R's garbage collector may
drop references at any time.

## 1. Inventory

| Component | State it keeps | Operations | What makes it correct |
|---|---|---|---|
| Background queue (`callbackqueue.cpp`, `tqueue.h`) | a queue under a mutex, libuv's async handle | `push` from any thread, `flush` on the loop | no lost wake-up; each thread's callbacks run once, in order, one at a time |
| HTTP connection (`httprequest.cpp`), one object per connection | flags (`_is_closing`, `_is_upgrade`, `_ignoreNewData`, `_handling_request`, `_response_scheduled`), `_requestBuffer`, `_env`, `_protocol`, `_pWebSocketConnection` | read, parser callbacks, the three "complete" steps that R triggers, close | the parser goes on once per wait; no byte is lost; R sees the right request; closing completes |
| HTTP parser (`http-parser/`, vendored, patched) | parser state, flags, the length left, in particular "waiting for the headers callback" | `http_parser_execute`, `http_parser_headers_completed` | headers, framing and body as the client meant them, however its bytes are cut |
| Responses (`httpresponse.cpp`, `uvutil.cpp`) | `_closeAfterWritten`, the active writes of a body | `writeResponse`, write callbacks, `ExtendedWrite::next`, the destructor, which closes | the client gets whole responses, one per request, and the connection closes only after them |
| R interface (`webapplication.cpp`, `AppWrapper` in `R/httpuv.R`) | the request environment, promises, the table of WebSockets | onHeaders, onBodyData, call, onWSOpen, onWSMessage, onWSClose | call() once and after the whole body; open, messages, close in that order |
| WebSocket (`websockets*.cpp`, `WebSocket` in `R/httpuv.R`) | the frame parser's state, the message being put together, `_connState`, a ping timer | read, send, close, ping | messages exact however the stream is cut; nothing after Close; closing ends |
| Object lifetimes (`socket.cpp`, `auto_deleter.h`, `http.h`) | reference counts, `Socket::connections`, R's external pointers | accept, close, close callbacks, finalizers | no object goes while it is used, none twice, all in the end but for what a lost response holds |
| Starting and stopping (`httpuv.cpp`, `http.cpp`, `thread.h`, `R/server.R`) | `pServers`, `.globals$servers`, the background thread, a `Barrier` | start, stop, stopAllServers | the lists agree; a stop frees its own socket; calls return |
| Static paths (`staticpath.cpp`, `R/static_paths.R`) | a map of paths under a mutex, options | get, set, remove, match, the decision of `staticFileResponse` | the most specific path that is there throughout; a path's own options first; a decision for every request |
| Data sources (`filedatasource*`, `gzipdatasource.cpp`) | position in the data, malloced buffers, zlib's state | getData, freeData, close | a client that sees the end has every byte; every buffer has one owner; all is released |
| URI codec | none | `doEncodeURI`, `doDecodeURI` | inverse of each other |
| Header map | headers, the last header field | `_on_url`, `_on_header_field`, `_on_header_value` | agreement with the headers that were sent |
| Hixie-76 and HyBi-03 drafts | parser state | read | as for RFC 6455 |

How they interact.  The main thread hands closures to the background thread
through the background queue; the background thread hands closures to the main
thread through `invoke_later` (the later package, a FIFO).  A closure holds
`shared_ptr`s, so queues are part of the ownership graph.  The background
thread never waits for the main thread; the main thread waits for the
background thread only at a `Barrier` while a server is started.  `_env`,
`_response_scheduled`, `_requestBuffer` and `_pWebSocketConnection` are plain
members used by both threads.

Hard behaviours: the two-call `push` and its coalescing wake-ups; data that
arrives while R looks at the headers; requests that follow each other, or
overtake each other, on one connection; errors in R while further callbacks of
the same request are queued; `close()` reached from many places, twice;
destructors that close; WebSocket frames cut at any byte; the closing handshake
started from both sides; references dropped by the other thread or by a garbage
collector; addresses used as identifiers.  `PROJECT.json` lists each of them
with its line and the property that would catch it going wrong.

## 2. Modules

`TaskExecutor` is the abstract promise of the background queue: each thread's
callbacks run one at a time, once each, in the order of their submission, and
all of them eventually.

`CallbackQueue` is the real queue with libuv's `uv_async_send` and
`uv__async_io` under it, one atomic operation or system call per step.  A
critical section of the mutex is one step because it touches only the queue.
`ImplementsExecutor` states that it implements `TaskExecutor`
(`submitted <- pushed`, `begun <- started`, `busy <- (at = "run")`), liveness
included.  All other modules use the queue as a plain FIFO `bgq`, which is what
`TaskExecutor` justifies.

The theorems (section 5) are in modules of their own, each of which extends the
module it is about: `ServerProofs`, `LifetimesProofs`, `HttpConnectionProofs` and
`HttpAnswerProofs` on top of it, `ResponseBodyProofs`, `WebSocketProofs` and
`StaticPathsProofs`; those of `CallbackQueue` are short and at its end.  Each
begins with the facts about queues and lists it uses: what is behind the first
element, what an append or a removal leaves in place, how many elements of a
kind there are.

`HttpConnection` is one connection: `req` is the `HttpRequest`, `parser` its
`http_parser` together with the call of `http_parser_execute` in progress,
`resp` the `HttpResponse` objects, `outq` libuv's write queue, `later` and
`bgq` the queues between the threads, `app` the R side, `client` and `wire`
the other end.  Background handlers run one at a time, but the call of
`http_parser_execute` is one step per parser callback because R runs
meanwhile.  Actions are named after the handlers (`ParseHeadersComplete` is
`_on_headers_complete`, `HeadersCompleteComplete` is
`_on_headers_complete_complete`, and so on).  The byte stream is a sequence of
tokens: a head up to the last CR (`"H"`), the LF which the parser leaves
unread while it waits (`"L"`), a piece of body (`"B"`), WebSocket bytes
(`"W"`).  A request has a shape: pieces of body, keep-alive, Expect, upgrade,
static file.  A response is a head and some chunks, each one `uv_write`.  Use
of freed memory (`ScheduledWsRead`) is a choice between the old bytes and other
ones.  An R error reaches this module only where it escapes the `try` of
`AppWrapper`; errors that R catches turn into `ws$close`, which is part of
`WebSocketConnection`.

Clients of the shapes in `Pipelined` may send their next request before the
response (`client.piped`); the properties that httpuv does not claim for them
(`httprequest.cpp:133`) are stated for the others.

`RequestParser` is the request side of `http_parser_execute`, one byte per step,
with the data callbacks of `HttpRequest`: `q` is the `http_parser` and the parse
state of `HttpRequest` (URL, headers, body), `client` the request and how much of
it was sent, `req` the buffer, the protocol and the outcome.  One operator per
state of the parser, named after it (`ValueStart` is `s_header_value_start`);
`REEXECUTE` is a call of the next state's operator with the same byte.  A read
ends after any byte, and `Resumed` sets the marks with which the next one begins.
Names and values are abbreviated to letters that keep the common beginnings of
the real words, and lengths count to a small `ULLONG_MAX`.  What the client meant
(`Headers`, `Flags`, `Length`, `Body`) is computed from the request as a record,
independently of the parser.  `HttpConnection` has the same parser over tokens,
with everything around it.

`BodyStream` is what the recipient of a body is promised: its bytes in order, a
recognizable end when all are there, an end to every transfer that does not fail.

`ResponseBody` is one response on its way out: `resp` is the `HttpResponse` with
the one `shared_ptr` that holds it at a time, `src` and `gz` the data sources, `ew`
the `ExtendedWrite`, `stream` libuv's `uv_stream_t` with the queue of writes and
the queue of completed ones, `heap` the malloced buffers, `bg` where the background
thread is.  A handler is several steps only where the outside can act meanwhile
(a file that changes between two reads); otherwise the thread's position is a
state of `bg.at`.  zlib gives out what it likes of what it holds until it is
finished.  `ImplementsBody` states that it implements `BodyStream`, its liveness
included; a file that is changed, or a second response on the stream, counts as a
failed transfer there.

`UriCodec` has `doEncodeURI`, `doDecodeURI` and `splitQueryString` as functions
over sequences of characters; `StaticPaths` decodes URLs with them.

`WebSocketConnection` is a WebSocket after the handshake: `WSHyBiParser::read`
byte by byte, one step per turn of its loop, or `WSHixie76Parser::read` if
`accept` has chosen the old protocol (`parser.old`, `ParseOld`); message assembly;
`closeWS`; the ping timer; `ws$send` and `ws$close` in R.  A byte is named by its
place in the client's frames and carries the index of the mask byte it was XORed
with, so that unmasking with the wrong offset or key is visible.  What a header
says is read off the frame that its second byte belongs to; a byte of an old frame
has a value (`Value`).

`Lifetimes` is the ownership graph of a server: `Socket`, `HttpRequest`s,
`WebSocketConnection`s and the responses, with every `shared_ptr` a fact of the
state.  An object that loses its last owner is deleted at once on the background
thread or handed to it by the main thread.  A response holds its `HttpRequest`
(`HttpResponse::_pRequest`).  It is itself held by a task (`RunTask` may write or
delete it), or by the write of its head and then the `ExtendedWrite` of its body,
which libuv has in hand: `h.resp` are the connections with such a response.  The
last of them ends (`ResponseDone`, whose destructor may close), or is lost
(`LoseResponse`): an `ExtendedWrite` that nothing calls any more stays, with all it
holds (`h.lost`), as in the run `v_body_released` of `ResponseBody`.  libuv calls
back every write before it calls `_on_closed`.  `Socket::close` is one step per
turn of its loop.  The main thread's copy of `_pWebSocketConnection` is two steps
(read the pointer, raise the count).  After a use of freed memory (`main.wild`) the
model stops.  Close callbacks may run at any later time; libuv runs them at the end
of the loop's iteration.

`Server` is starting and stopping: the background thread's start, the
`Barrier` (count down, then wait), creation on the background thread, the list
in R, the list in C++, and the sockets by the address of their handle, which
the allocator may hand out again.  The `n == 0` early return of
`Barrier::wait`, which needs a third caller, is left out.

`StaticPaths` is the `StaticPathManager` of a server between the main thread,
where R sets and removes paths and options, and the background thread, where
`staticFileResponse` looks for the path of a request.  The main thread takes
the mutex for one path at a time (`SetOne`, `RemoveOne`); the search takes it for
one `get` at a time (`GetMisses`, `GetHits`) and keeps it while it merges options
(`Locked`).  All six options are there, in the order of the code; of a text,
which is a string or a list, the model keeps whether it is empty.  The manager's
options have no mutex: `SetOption` and `MergeOne` go option by option.  The
assignment of a text, or of an option that had no value, takes two steps, between
which the option may read as anything, and the copy of a text may end the process
(`"crashed"`).  Any option of the app may be NULL, which leaves the manager's
without a value.  The early returns of `staticFileResponse` are a list of rules of
which the first that applies wins, each with the options it looks at: one that has
no value reads as anything (`Readings`), a missing text may end the process, and
a missing pattern does, as the exception has no handler (`Decide`).
URL paths are sequences of characters; the request's URL is split at its query and
decoded first.  The file system does not change
during a run (`Files`).  `stable` and `recent` are history variables: the paths,
and the values of each option, since the request came.  `HttpConnection` has
the outcome, as the shape's `static`.

`MCHttpConnection`, `MCRequestParser`, `MCWebSocketConnection` and `MCStaticPaths`
define the request shapes, requests, frames, paths and files of the runs.
`MCStaticPaths` also has the round trip of the URI codec as an assumption that TLC
evaluates.

Operators placed just before a definition and described as a deviation
(`PushNoWakeup`, `KeepOnlyLast`, `CloseBreaksCycle`, ...) are mutated forms of
it.  They are in no specification; putting one in place of the original must
break the property it is listed with in `PROJECT.json`.

## 3. Runs

Every passing run explores its whole state space.  Deadlock is not checked: a
server with nothing to do waits, and the bounds end every behaviour.

| Run | Instance | What it shows |
|---|---|---|
| `callback_queue` | one foreign thread and the loop, 4 pushes each | no lost wake-up; order; refinement of `TaskExecutor` |
| `http_requests` | 2 requests of 8 shapes (the last perhaps a WebSocket handshake, then 2 messages), in turn or, for one shape, pipelined; responses of 0 or 2 chunks, onHeaders answers, R errors, promises, NULL; client leaves, server stops, writes fail | the parser resumed once, bytes kept, right environment, WebSocket events in order, closing completes; for a client that waits: whole body, well-formed wire, no early close, every request answered |
| `request_parser` | 2 requests on a connection of the kinds of `MCRequestParser` (repeated, empty, folded headers, lengths to and over the limit, chunks with a trailer, an upgrade with data behind it), every way to cut them, onHeaders going on or answering | headers, flags, length and body exact; ambiguous framing never completes; the new protocol gets its bytes; a well-formed request is served |
| `response_body` | bodies of up to 3 bytes from memory or a file, read 2 at a time, with and without gzip, own length, encoding, close; a 101 with a body; partial and failing writes, a close, a file that changes or fails, a second response | an announced end means the whole body; buffers have one owner; a body under way is waited for; everything is released; refinement of `BodyStream` |
| `websocket` | 3 frames of 6 kinds, or of 4 kinds of Hixie-76, every way to cut the stream, 1 send, 1 ping, breaks | `MessagesExact` against `Assembled`, a definition over whole frames; nothing after Close; live buffers; the client's Close ends the connection and R is told |
| `lifetimes` | 2 connections; tasks that a callback or R pushes only to an empty queue, deletions and `freeServer` to any (378,077 states) | handles and the main thread's Socket in live memory and one deletion each (`MemorySafe`), complete stop, a stopped server closes every socket and is freed completely, but for what a lost response holds |
| `server` | 3 TCP or pipe servers, 3 addresses, thread creation may fail | lists agree, barrier, frees only its own socket, TCP ports are given up, calls return |
| `static_paths` | 2 calls of R that change paths or options, 15 kinds of requests, 3 sets of paths at the start, an app with two options NULL (376,322 states) | the most specific stable path is found and the rest of the URL is right; own options first, each inherited one a recent value, and none lost that was set; files only from below the path, escapes in the URL included; the search ends; the URI codec's round trip over all strings of up to 4 of 7 characters |

Why the bounds are enough.  The properties of a connection relate a request to
the one before it, hence two requests; a body of two pieces and a response of
two chunks have a first, a middle and a last element.  Two reads suffice to
split a header or a mask; three frames give a fragmented message with a control
frame inside, and payloads of up to 5 bytes go round the 4-byte mask.  Two
connections make the list of `Socket::close` shrink under its iterator.  Who
holds an object does not depend on how many tasks hold it, so one task pushed by
choice is enough, beside those pushed at any length (the deletions, `freeServer`);
the two invariants also hold with two (2,070,273 states), and are proved for any
number.  The NULL options of `static_paths` are one that is a bool
and one that is a text; a session may set both later, so that a request finds them
without a value, half assigned and assigned.  Three
servers over three addresses let an address be used again while another server
runs.  The queue's wake-up needs one push that meets a flush just ending; four
pushes from each side go round that cycle several times, and the theorems of
section 5 remove the bound.  A search that misses two prefixes
and finds the third leaves two gaps for R's calls, hence two calls.  A body of
three bytes read two at a time is one full and one short buffer, and gzip's head
and footer fill an output buffer of their own; a second request shows what the
first left behind in the parser, and with `ULLONG_MAX = 21` two digits reach the
guard against overflow and the largest number it lets through.

### Disagreements between the code and its documentation

Each is a run in which TLC violates a property that states what a comment or a
manual page says; `PROJECT.json` quotes the lines.

- `v_url_pieces`: a URL that arrives in two reads is reduced to its last piece,
  as `_on_url` assigns where the other callbacks append (`httprequest.cpp:215`).
- `v_body_released`: when a connection is closed between two chunks of a body, the
  next `uv_write` is refused and its result ignored; the response, its buffer and
  its file are never released (`uvutil.cpp:173`), nor its `HttpRequest` and the
  `Socket` of the server, as `Lifetimes` has it.
- `v_ws_buffer`: bytes that arrive with a handshake are read from a buffer freed
  by then, and later bytes may overtake them (`httprequest.cpp:760`).
- `v_ws_open_close`: a client that leaves while R looks at its handshake leaves a
  WebSocket that R sees opened and never closed (`httprequest.cpp:696`).

Four more have no run of their own.  A WebSocket handshake that `onHeaders`
answered is accepted all the same (`httprequest.cpp:782`; `HeadersResponseStops`
of `HttpConnection` states the manual page).  A pipe server cannot be stopped, as
it is never marked as running (`R/server.R:279`; `StoppedServerIsUnbound` of
`Server`; the run checks `StoppedTcpServerIsUnbound`).  The Close frame of a
client is not answered, since the state is set to closed first
(`websockets.cpp:392`), although the comment above says so.  And an app with
`staticPathOptions(validation = NULL)`, or with any other option NULL, is accepted
(`R/httpuv.R:202`; "a NULL means to inherit", `R/static_paths.R:286`) although
nothing is left to inherit from: `StaticPathManager` keeps `nullopt`
(`staticpath.cpp:37`), `staticFileResponse` dereferences it with a definition that
asserts a value (`optional.h:527`), and `validateRequestHeaders` throws on the
background thread, where nothing catches (`staticpath.cpp:124`).  `EveryOptionSet`
of `StaticPaths` states the assertion; it is false with the NULL options of the run
`static_paths`, which models what follows.

More weaknesses shape what the passing runs may claim, and are listed among the
hazards.  `requestCompleted()` is called when the head of a response is
queued (`httpresponse.cpp:160`), so a request that arrives while the body is being
written is not detected as pipelined and its answer lands inside that body:
`WireIsWellFormed` is stated for clients that wait, and `BodyKeepsMoving` and
`ReleasedInTheEnd` except the body, which stops for good (`uvutil.cpp:53`).  A read
that fails under gzip leaks the output buffer (`gzipdatasource.cpp:48`), which
`BuffersOwned` excepts.  A file that changes while it is sent is sent with the
length it had (`filedatasource-unix.cpp:38`): `EndMeansWhole` excepts it.  The main
thread copies a `shared_ptr` that the background thread may be resetting
(`webapplication.cpp:393`): `Lifetimes` has the torn copy, and
`StoppedServerIsFreed` excepts it.  It also excepts the `HttpRequest` of a response
that was lost, after a refused write or behind a pipelined one, and the `Socket` that
such a request holds: they are never freed.  `ensure_io_thread` waits for ever if the thread
cannot be created (`httpuv.cpp:166`): `CallsReturn` excepts it.  The options of
static paths are set without the mutex (`staticpath.cpp:388`):
`OptionsInherited` says which values a request may see, and not that they are of
one moment; that every option has one holds for an app that left none NULL
(`CompleteOptionsStay`).  `removeStaticPath` does not normalize its name as
`setStaticPath` does (`R/server.R:103`), so the example of its manual page removes
nothing: `RemoveOne` takes the name as it is given.

## 4. Fairness

Weak fairness is assumed for what the loop and the schedulers do serve: threads
in the middle of a call, the loop's sources (readable sockets, the queue, write
completions, close callbacks), R's event loop, promises that the application has
returned.  Nobody has to send, leave, start, stop or break anything.
`EveryRequestAnswered` also needs a client that takes what is written and an
application that answers (call() did not give NULL, promises resolved); it does
not hold otherwise, as nothing in the code times out.  `ResponseBody` has weak
fairness for the background thread, a `Poll` of which takes at least one unit (the
client reads, or the write fails); `RequestParser` for the client that sends the
rest of its request, the parser and R's answer; `StaticPaths` for the search on the
background thread and for a call that R has begun.  `Lifetimes` has `ResponseDone`
weakly fair while its connection is closing only, when libuv calls back every write:
a client of an open connection need not read, and its response need not end.
`StoppedServerIsFreed` assumes
that R collects the handles it holds (strong fairness, because the bound on the
queue disables the step now and then): `AppWrapper` drops its handles in
`onWSClose`, so this does not hold for a WebSocket of the kind `v_ws_open_close`
shows.  `TaskExecutor` has strong fairness for each thread's `Begin`, because a
running callback disables it; `CallbackQueue` needs only weak fairness.

## 5. Proofs

The theorems hold for every value of the constants that satisfies the named
assumptions, which only say what kind of thing a constant is (a bound is a number,
the shapes of requests are shapes, the loop is not one of the foreign threads).
The bounds of the runs are constants, so they are gone: any number of pushes,
servers, connections, requests, frames, messages, calls of R, files and paths.
None of the invariants is inductive as the runs state it; each proofs module begins
with an inductive invariant `IInv`, one named part per idea, to which
`HttpAnswerProofs` adds `PInv`, `WInv` and `VInv`.  TLC checked each of them on the instance
of its component's run first.  A proof has one step per
action, and lemmas for what an action does to each part.

| Module | Theorem | Statement |
|---|---|---|
| `CallbackQueue` | `TypeCorrect` | `Spec => []TypeOK` |
| | `WakeupAndOrderInvariant` | `Spec => []WakeupAndOrder` |
| | `NoLostWakeup` | `Spec => []NoStrandedCallback` |
| | `PushOrder` | `Spec => StartsInPushOrder`, an action property that no run checks apart (the refinement implies it) |
| | `RefinesExecutor` | `Spec => Executor!SafeSpec`, the refinement without its fairness |
| `HttpConnectionProofs` | `TypeCorrect`, `IndInv` | `Spec => []TypeOK`, `Spec => []IInv` |
| | `ParserResumedOnceHolds` | `Spec => []ParserResumedOnce` |
| | `BufferedWhileWaitingHolds` | `Spec => []BufferedWhileWaiting` |
| | `EnvIsOfRequestHolds` | `Spec => []EnvIsOfRequest` |
| `HttpAnswerProofs` | `PatientInv` | `Spec => [](IInv /\ PInv)` |
| | `CallSeesWholeBodyHolds` | `Spec => []CallSeesWholeBody` |
| | `WireInv` | `Spec => [](IInv /\ PInv /\ (Patient => WInv))`, if `OnHeaders \subseteq {"no"}` |
| | `WireIsWellFormedHolds` | `Spec => []WireIsWellFormed`, if `OnHeaders \subseteq {"no"}` |
| | `WsInv` | `Spec => [](Patient => VInv)`, if `Eager = FALSE` |
| | `WsCallbacksInOrderHolds` | `Spec => [](Patient => WsCallbacksInOrder)`, if `Eager = FALSE` |
| `ResponseBodyProofs` | `TypeCorrect`, `IndInv` | `Spec => []TypeOK`, `Spec => []IInv` |
| | `BuffersOwnedHolds` | `Spec => []BuffersOwned` |
| | `BodyKeepsMovingHolds` | `Spec => []BodyKeepsMoving` |
| `LifetimesProofs` | `TypeCorrect` | `Spec => []TypeOK` |
| | `MemorySafeHolds` | `Spec => []MemorySafe` |
| | `StopClosesAllHolds` | `Spec => []StopClosesAll` |
| `ServerProofs` | `TypeCorrect` | `Spec => []TypeOK` |
| | `ReadyWhenUsedHolds` | `Spec => []ReadyWhenUsed` |
| | `ListsAgreeHolds` | `Spec => []ListsAgree` |
| | `FreesOwnSocketHolds` | `Spec => []FreesOwnSocket` |
| `WebSocketProofs` | `TypeCorrect` | `Spec => []TypeOK` |
| | `NothingAfterCloseHolds` | `Spec => []NothingAfterClose` |
| | `SendsFromLiveBuffersHolds` | `Spec => []SendsFromLiveBuffers` |
| `StaticPathsProofs` | `TypeCorrect` | `Spec => []TypeOK` |
| | `OptionsInheritedHolds` | `Spec => []OptionsInherited` |
| | `CompleteOptionsStay` | `Spec => []EveryOptionSet`, if `Complete(InitOptions)` |
| | `ServedFileIsBelowPathHolds` | `Spec => []ServedFileIsBelowPath` |

**The queue.**  `NoStrandedCallback` is not inductive: a sender that finds the
handle pending relies on that request reaching the loop, and the loop, when it
clears `pending`, must know that it will look at the queue afterwards.
`PendingWakesLoop` and `SenderOwnsHandle` say so: at most one thread is between
the two compare-and-exchanges, and while a request is pending the eventfd is
readable, about to be written, or already drained by a loop that is on its way
to the handle.  `StartsInPushOrder` needs that the queue is exactly what was
pushed and not started, in each thread's order (`QueueOrdered`, `QueueInRange`,
`QueueComplete`): only then is the first callback of a thread in the queue the
next one to start (`FrontIsNext`).  The refinement follows from these, step by
step.

**The connection.**  `Waits` is `ParserResumedOnce` position by position instead of
by counting.  It is not inductive alone: that a wait is begun only when none is
under way follows from the parser's state, and that a task `onHeaders` is not
overtaken by another request follows from `HandedOver` (between two handlers the
parser has nothing to parse; a WebSocket's bytes never reach it).
`BufferedWhileWaiting` is about the bytes that the connection keeps, and it needs to
know the bytes that have not arrived: when the parser stops in the middle of a
head, the LF that ends the head is the next byte it will see.  So `InStep` follows
the whole `Stream` from `requestBuffer` through the parser's data to the socket:
every head in it is followed by its own LF, except at the end of a stream that
nothing more is read from, and a parser in the headers stands at the LF of its
request.  The proof treats sending, reading any part of what is there, consuming,
keeping, resuming and closing as operations on that sequence (`GrowStream`,
`ConsumeStream`, `CutStream`).  `EnvIsOfRequest` looks at the first task of R's queue; the invariant
`Environments` looks at every task and says which environment R will have when it
gets there, `EnvAt`, and that a task added now finds the one of the request the
parser stands at.  All three hold for pipelined requests and for clients that send
WebSocket data early as well.

`CallSeesWholeBody` is about clients that wait for their answers (`~client.piped`,
which the property itself says), and needs to know everything about the one request
such a client has under way.  The code keeps no count of what R has seen: that
`call()` comes after the last `onBodyData` follows from the order of a queue, and
that nothing is called after an error follows from `_response_scheduled`, a flag of
the connection which the next request resets.  So the invariant `PInv`, on top of
`IInv`, has four parts.  `TurnInv`: the stream is the rest of the current request
and then at most one more, token by token (`Scripted`), a next request exists only
once the current one is answered (`InTurn`), and which states of the parser are
possible (`Flags`).  `AnswerInv`: the tasks of both queues belong to the current
request, in an order that leads to one outcome (`TasksInOrder`, `TasksWhen`), and
the request has at most one final response, which is written only after all tasks
are done unless the connection is given up (`OneAnswer`).  `BodySeen`: the pieces R
was given, those queued for it and those still to be parsed add up to the body.
`Written`, the one part that holds for pipelined requests too: what is in the stream's
queue or on the wire is a part of a response whose head was written.  The parts
depend on each other in a circle: that the stream holds one request follows from
the client's seeing one answer, that from the tasks, and the tasks from what the
stream lets the parser do; they are proved together, one lemma per action and part.

`WireIsWellFormed` rests on `PInv` and on an invariant of the writes, `WInv`.
Responses are made in the order of the requests, the final one of a request last
(`RespSorted`), and those to earlier requests are on the wire whole (`Delivered`).
In the stream's queue every write but the last is the last part of its response
(`QueueOrder`): a response with chunks to come has no other behind it, because a
head is written only for the newest response, when all final ones before it are
delivered.  What is on the wire comes before what is queued (`WireBehind`), and as
long as the socket works there is no gap: where the wire stops in the middle of a
response, the last write of the queue goes on (`FlowWire`, `FlowOut`).  The last two
are lost when a write fails or the connection is closed, and nothing reaches the
wire any more then; so `Writes` has them for a socket that works only.  The
hypothesis on `OnHeaders`, which the run has as well, is needed: an application
that answers an upgrade request from `onHeaders` gets its answer written and the
connection is upgraded all the same, with the 101 response between the head and the
body of that answer.

`WsCallbacksInOrder` looks at what R has heard; `HeardNow` of `VInv` adds the tasks
that are queued for R: an open is queued only while R has heard nothing, a close
only when the connection is closing and with nothing behind it.  `_is_closing` sees
to it that a stop of the server, a read error and a Close frame together report the
end once.  It does not see to it that no message follows the close, because bytes that were kept when the connection was upgraded are passed on by a task of
the background queue that does not look at `_is_closing` (`ScheduledWsRead`).  So
`NoRest` says that there are no such bytes, and `BeforeWs` why: until the upgrade
there is no 101, hence, from a client that waits for it, no byte of the other
protocol, and by `PInv` the handshake is the last thing in the stream.  Both
hypotheses are needed.  Early WebSocket data is what is kept (the run
`v_ws_buffer` is about it).  And a client that sends its handshake behind a
request with `Expect: 100-continue` whose body R fails on has the LF of the
handshake refused by a paused parser, kept, and passed to the WebSocket as data:
after a stop of the server R hears of a message after `onWSClose`.

**The body.**  A write request moves between three places (the write queue, the
completed ones, those whose callbacks are running), so the invariant counts the
requests of each kind over all of them (`InHands`) and lemmas say that an attempt
to write, a cancellation or a callback moves requests and loses none.
`OneWriteInv` is what the code relies on without saying it: there is at most one
body write at a time and none while `next()` runs, which is why the `ExtendedWrite`
may delete itself there.  `HolderInv` ties the head's write and the
`ExtendedWrite` to the `shared_ptr` that holds the response; with it, a callback
that finds the stream not drained (`uvutil.cpp:53`) can only have found the write
of another response, and that is the exception of `BodyKeepsMoving`.  `OutputInv`
and `InputInv` account for the buffers; that a leak can happen only once follows
from the other two.

**Lifetimes.**  `Links` states, for each connection, who holds whom and in which
state of the handle, and for each task of the queue that its object is there for
it; `TasksOnce` that a deletion is queued once; `Listener` how the loop of
`Socket::close` relates to the list it walks down.  A response, in libuv's hands or
lost, is one more holder of an `HttpRequest` (`Linked`).  `MemorySafe` and
`StopClosesAll` follow, for any number of connections.

**Start and stop.**  `ThreadStart` and `CreateInFlight` tie each `Barrier`'s count
to the positions of the two threads, which is what makes a read of `pServer` safe.
`SocketOwners` says who has each socket: the call that makes it, a running server
through `pServers`, a pipe server that nothing stops, or one task that frees it.
Because a freed address is used again, the proof needs that no two of these name
the same address; `ListsAgree` and `FreesOwnSocket` rest on it.

**The WebSocket.**  `TypeOK` bounds the header buffer, and is inductive only with
`HeaderPending`: what is kept of a header is never a whole one.
`QueueInOrder` relates what R has queued to the order of its calls and to the live
buffers, `SentInOrder` what was sent to what is queued.  The run has one send, so
it sees nothing of the order of two messages, which `SendsFromLiveBuffersHolds`
proves for any number.

**Static paths.**  `Merging` says how far the merge of options is and that the mutex
keeps the entry in place; `History` that a value read from the manager's options,
locked or not, is one they may have read as since the request came.  Nothing is assumed
of the app's options: `TypeOK` says that an option which it set is never without a
value again, `OptionsInherited` that a request finds its value, also when other
options are NULL, and `CompleteOptionsStay` has as its hypothesis what the code
relies on, that the app set them all: `EveryOptionSet` is false with the NULL
options of the run.  `ServedFileIsBelowPath` takes lemmas about the operators: what `doDecodeURI` and the split at the query
return is text without the separators, a rest of a path that begins at a slash has
no `..` of its own if the path has none, and so on.  They are proved without an
induction scheme, by a least (or greatest) position at which the claim fails.

Only model-checked:

- liveness and fairness anywhere, the liveness half of the refinements included,
  as the prover has no rules for them;
- `MatchIsMostSpecific`, `MessagesExact`, `EndMeansWhole` and `ImplementsBody`,
  and all of `RequestParser`: their
  statements or the definitions they compare with (`Assembled`, `Headers`, the
  payload of a sequence of writes) fold or filter sequences, and what such a
  definition computes for every argument takes an induction that the provers
  cannot instantiate;
- `WsCallbacksInOrder` for a client that pipelines: the run `http_requests` has
  pipelined GET requests, and with a pipelined handshake the property does not hold
  (see above).

## 6. Not modelled

Of the 73,979 lines of C, C++ and R in the repository, about 8,600 are httpuv's
own; nearly all others are the vendored libuv with its Windows and Unix ports, of
which httpuv uses a few functions.  The project models httpuv's code and the parts
of libuv and of http-parser on which its correctness rests (the async handle, a
stream's writes and close, the request side of the parser), so the map covers most
of the code that decides anything in httpuv and a small share of the whole tree.
Modelling more of libuv (its other handles, file system, DNS, terminals, the
Windows completion ports) would say nothing about this program.

Left out: third-party and generated code otherwise (the digests, the MIME table,
`optional.h`, the Rcpp bindings); formatting, dates and system helpers; the run
loops `service` and `runServer`.  Of the modelled parts: the text of heads and of
the Rook environment; the grammar of URLs, the limit on the size of a head and
letter case in the HTTP parser, and its response side; requests that ask for an
upgrade and have a body; the handshake of the old WebSocket drafts, an MD5 digest
of keys; the shutdown of the loop (nothing in the code triggers it).  Windows
builds differ in the wake-up mechanism and in file access only and are not treated
apart.

## 7. Plan

1. Done: the queue, the HTTP connection, the request parser with the header map,
   response bodies with their refinement of `BodyStream`, the WebSocket with both
   parsers, object lifetimes, starting and stopping, static paths with the URI
   codec; the theorems of section 5.
2. An abstract connection ("each request is answered once, in order, or the
   connection closes") that `HttpConnection` implements.
