------------------------------- MODULE Lifetimes -------------------------------
(***************************************************************************)
(* Who keeps the C++ objects of one server alive, and which thread deletes *)
(* them: the Socket with its list of connections, the HttpRequest of each  *)
(* connection and its WebSocketConnection.  The uv handles are members of  *)
(* the Socket and of the HttpRequests, so that the memory must not go      *)
(* before the callback of uv_close.                                        *)
(*                                                                         *)
(* A shared_ptr is a fact of the state (an entry of Socket::connections, a *)
(* member that is set, a task that holds a copy); an object whose last     *)
(* owner goes is deleted by the background thread at once, or by the main  *)
(* thread through the background queue (auto_deleter_background).  An      *)
(* HttpRequest and its WebSocketConnection own each other until            *)
(* _on_closed.  An HttpResponse holds its HttpRequest, and is itself held  *)
(* by a queued task or by a write that libuv has not called back.  What    *)
(* connections do meanwhile is HttpConnection's subject, and how a body is *)
(* written is ResponseBody's.                                              *)
(***************************************************************************)
EXTENDS Naturals, Sequences, Functions, SequencesExt

CONSTANTS
  Conn,      \* connections the server accepts
  MaxQueue   \* bound: tasks queued when the main thread pushes another one

ASSUME LifetimesAssumption == MaxQueue \in Nat \ {0}

VARIABLES
  h,      \* the objects, and who owns them
  bgq,    \* tasks of the background queue
  loop,   \* Socket::close at work: the position of its iterator, else 0
  main    \* what the main thread is doing, and the R object's `running'

vars == <<h, bgq, loop, main>>

Init ==
  /\ h = [vec |-> <<>>,                            \* Socket::connections
          sock |-> [obj |-> "alive", handle |-> "open"],
          req |-> [c \in Conn |-> [obj |-> "none", handle |-> "none",
                                   wsc |-> FALSE]], \* _pWebSocketConnection set
          wsc |-> [c \in Conn |-> "none"],
          resp |-> {},      \* connections with responses that libuv will call back
          lost |-> {},      \* with responses that nothing calls any more
          mainReq |-> {},   \* HttpRequests held by tasks of the main thread
          mainWsc |-> {},   \* WebSocketConnections held by such tasks
          xptr |-> {}]      \* WebSocketConnections held by R's handles
  /\ bgq = <<>> /\ loop = 0
  /\ main = [running |-> TRUE,   \* the R object's flag
             static |-> FALSE,   \* it holds a shared_ptr<Socket>
             copying |-> {},     \* the pointer it has read and not counted
             wild |-> FALSE]     \* it counted itself an owner of freed memory

Task(op, c) == [op |-> op, c |-> c]
Queued(q, op, c) == Task(op, c) \in Range(q)

-------------------------------------------------------------------------------
(* Ownership *)

Exists(obj) == obj \in {"alive", "queued"}

ReqOwned(s, q, c) == \/ c \in Range(s.vec)
                     \/ Exists(s.wsc[c])    \* its _pCallbacks
                     \/ c \in s.resp \cup s.lost   \* HttpResponse::_pRequest
                     \/ c \in s.mainReq
                     \/ Queued(q, "task", c)

WscOwned(s, q, c) == \/ s.req[c].wsc
                     \/ c \in s.xptr \cup s.mainWsc
                     \/ Queued(q, "dropXptr", c) \/ Queued(q, "wsTask", c)

SockOwned(s) == \/ s.sock.handle # "closed"  \* *ppSocket
                \/ \E c \in Conn : Exists(s.req[c].obj)
                \/ main.static

\* What the background thread deletes when it has dropped a reference.
DropSock(s) == IF SockOwned(s) THEN s ELSE [s EXCEPT !.sock.obj = "deleted"]

DropReq(s, q, c) ==
  IF ReqOwned(s, q, c) \/ s.req[c].obj # "alive" THEN s
  ELSE DropSock([s EXCEPT !.req[c].obj = "deleted"])

DropWsc(s, q, c) ==
  IF WscOwned(s, q, c) \/ s.wsc[c] # "alive" THEN s
  ELSE DropReq([s EXCEPT !.wsc[c] = "deleted"], q, c)

-------------------------------------------------------------------------------
(* The background thread *)

\* Between two handlers.  After a use of freed memory nothing is defined any
\* more, and the model stops.
Idle == loop = 0 /\ ~main.wild

\* A close that breaks the cycle of references at once.
CloseBreaksCycle(s, c, ws) ==
  IF s.req[c].handle \notin {"idle", "open"} THEN s
  ELSE DropWsc([s EXCEPT !.vec = RemoveFirst(@, c), !.req[c].handle = "closing",
                         !.req[c].wsc = FALSE], bgq, c)

\* HttpRequest::close: leave Socket::connections, which has a connection once
\* (removeConnection), and close the handle; for a WebSocket, schedule onWSClose, which holds the WebSocketConnection.
Close(s, c, ws) ==
  IF s.req[c].handle \notin {"idle", "open"} THEN s
  ELSE [s EXCEPT !.vec = RemoveFirst(@, c),
                 !.req[c].handle = "closing",
                 !.mainWsc = IF ws THEN @ \cup {c} ELSE @]

\* on_request.  If uv_accept fails the HttpRequest stays behind, with a handle
\* that never reads.
OnRequest(c) ==
  /\ Idle /\ h.sock.handle = "open" /\ h.req[c].obj = "none"
  /\ \E handle \in {"open", "idle"} :
       h' = [h EXCEPT !.req[c] = [obj |-> "alive", handle |-> handle, wsc |-> TRUE],
                      !.wsc[c] = "alive",
                      !.vec = Append(@, c)]
  /\ UNCHANGED <<bgq, loop, main>>

\* A handler schedules a callback for the main thread, with shared_from_this()
\* or, for onWSMessage, with a copy of _pWebSocketConnection.
InvokeLater(c) ==
  /\ Idle /\ h.req[c].handle = "open"
  /\ \E ws \in BOOLEAN : h' = [h EXCEPT !.mainReq = IF ws THEN @ ELSE @ \cup {c},
                                        !.mainWsc = IF ws THEN @ \cup {c} ELSE @]
  /\ UNCHANGED <<bgq, loop, main>>

\* The client goes away, or a response asks for the close.
ConnectionEnds(c) ==
  /\ Idle /\ h.req[c].handle = "open"
  /\ \E ws \in BOOLEAN : h' = Close(h, c, ws)
  /\ UNCHANGED <<bgq, loop, main>>

\* HttpResponse::writeResponse, called by a handler of this thread: the write of
\* the head, and then the ExtendedWrite of the body, hold the response.  uv_write
\* refuses the head once the connection is closed.
Write(s, c) == IF s.req[c].handle = "open" THEN [s EXCEPT !.resp = @ \cup {c}] ELSE s

WriteResponse(c) ==
  /\ Idle /\ h.req[c].handle = "open"
  /\ h' = Write(h, c)
  /\ UNCHANGED <<bgq, loop, main>>

\* The last response of the connection is through, or its head was not written
\* (on_response_written, onWriteComplete); ~HttpResponse may close.
ResponseDone(c) ==
  /\ Idle /\ c \in h.resp
  /\ \E close, ws \in BOOLEAN :
       LET s == [h EXCEPT !.resp = @ \ {c}] IN
       h' = DropReq(IF close THEN Close(s, c, ws) ELSE s, bgq, c)
  /\ UNCHANGED <<bgq, loop, main>>

\* The callback of a chunk that leaves its ExtendedWrite to nobody: because
\* another response waits behind it (WriteOp::end finds the write queue not
\* empty), or because uv_write refuses the next chunk after uv_close.
LoseResponse(c) ==
  /\ Idle /\ c \in h.resp
  /\ \E others \in BOOLEAN :
       /\ others \/ h.req[c].handle = "closing"
       /\ h' = [h EXCEPT !.lost = @ \cup {c}, !.resp = IF others THEN @ ELSE @ \ {c}]
  /\ UNCHANGED <<bgq, loop, main>>

\* The WebSocketConnection is not given up.
OnClosedKeepsCycle(c) ==
  /\ Idle /\ h.req[c].handle = "closing" /\ c \notin h.resp
  /\ h' = [h EXCEPT !.req[c].handle = "closed"]
  /\ UNCHANGED <<bgq, loop, main>>

\* HttpRequest::_on_closed, which libuv calls when it has called back every
\* write of the connection.
OnClosed(c) ==
  /\ Idle /\ h.req[c].handle = "closing" /\ c \notin h.resp
  /\ h' = DropWsc([h EXCEPT !.req[c].handle = "closed", !.req[c].wsc = FALSE], bgq, c)
  /\ UNCHANGED <<bgq, loop, main>>

\* The end of Socket::close: uv_close of the listening handle.
CloseListener(s) == [s EXCEPT !.sock.handle = "closing"]

Flush(op) == Idle /\ bgq # <<>> /\ Head(bgq).op = op /\ bgq' = Tail(bgq)

\* freeServer, and Socket::close as far as its loop.
FreeServer ==
  /\ Flush("freeServer")
  /\ loop' = Len(h.vec)
  /\ h' = IF h.vec = <<>> THEN CloseListener(h) ELSE h
  /\ UNCHANGED main

\* A forward iterator: it steps over the element that takes the place of the
\* one removed.
CloseConnectionForward ==
  /\ loop > 0
  /\ \E ws \in BOOLEAN :
       LET pos == Len(h.vec) - loop + 1
           s == IF pos \in DOMAIN h.vec THEN Close(h, h.vec[pos], ws) ELSE h IN
       h' = IF loop <= 2 THEN CloseListener(s) ELSE s
  /\ loop' = IF loop <= 2 THEN 0 ELSE loop - 2
  /\ UNCHANGED <<bgq, main>>

\* One turn of the loop of Socket::close.  close() removes the connection from
\* the vector the reverse iterator runs over; it removes the last element,
\* so that the iterator still stands at the end of what is left.
CloseConnection ==
  /\ loop > 0
  /\ \E ws \in BOOLEAN :
       LET s == Close(h, h.vec[loop], ws) IN
       h' = IF loop = 1 THEN CloseListener(s) ELSE s
  /\ loop' = loop - 1
  /\ UNCHANGED <<bgq, main>>

\* delete_ppsocket
OnSocketClosed ==
  /\ Idle /\ h.sock.handle = "closing"
  /\ h' = DropSock([h EXCEPT !.sock.handle = "closed"])
  /\ UNCHANGED <<bgq, loop, main>>

\* A task that holds an HttpRequest, itself or through an HttpResponse that it
\* writes or deletes (auto_deleter_background<HttpResponse>): it may close the
\* connection.
RunTask ==
  /\ Flush("task")
  /\ LET c == Head(bgq).c IN
     \E write, close, ws \in BOOLEAN :
       LET s == IF write THEN Write(h, c) ELSE h IN
       h' = DropReq(IF close THEN Close(s, c, ws) ELSE s, bgq', c)
  /\ UNCHANGED <<loop, main>>

\* The same with a WebSocketConnection: sendWSMessage, closeWS, or the read that
\* _call_r_on_ws_open schedules.
RunWsTask ==
  /\ Flush("wsTask")
  /\ LET c == Head(bgq).c IN
     \E close \in BOOLEAN : h' = DropWsc(IF close THEN Close(h, c, TRUE) ELSE h, bgq', c)
  /\ UNCHANGED <<loop, main>>

\* auto_deleter_background<shared_ptr<WebSocketConnection>>: R's copy goes.
DropXptr ==
  /\ Flush("dropXptr")
  /\ h' = DropWsc(h, bgq', Head(bgq).c)
  /\ UNCHANGED <<loop, main>>

\* auto_deleter_background<HttpRequest> and <WebSocketConnection>, pushed by
\* the main thread.
DeleteReq ==
  /\ Flush("deleteReq")
  /\ h' = DropSock([h EXCEPT !.req[Head(bgq).c].obj = "deleted"])
  /\ UNCHANGED <<loop, main>>

DeleteWsc ==
  /\ Flush("deleteWsc")
  /\ LET c == Head(bgq).c IN h' = DropReq([h EXCEPT !.wsc[c] = "deleted"], bgq', c)
  /\ UNCHANGED <<loop, main>>

-------------------------------------------------------------------------------
(* The main thread *)

MainIdle == ~main.static /\ main.copying = {} /\ ~main.wild

\* A callback of the main thread schedules the next step of its request, or the
\* deletion of a response of which it had the last reference.
PushTask(c) ==
  /\ MainIdle /\ c \in h.mainReq /\ Len(bgq) < MaxQueue
  /\ bgq' = Append(bgq, Task("task", c))
  /\ UNCHANGED <<h, loop, main>>

PushWsTask(c) ==
  /\ MainIdle /\ c \in h.xptr /\ Len(bgq) < MaxQueue
  /\ bgq' = Append(bgq, Task("wsTask", c))
  /\ UNCHANGED <<h, loop, main>>

\* The callback is over and its copies go.
MainDropsReq(c) ==
  /\ MainIdle /\ c \in h.mainReq
  /\ LET s == [h EXCEPT !.mainReq = @ \ {c}] IN
     IF ReqOwned(s, bgq, c)
       THEN h' = s /\ UNCHANGED bgq
       ELSE /\ h' = [s EXCEPT !.req[c].obj = "queued"]
            /\ bgq' = Append(bgq, Task("deleteReq", c))
  /\ UNCHANGED <<loop, main>>

MainDropsWsc(c) ==
  /\ MainIdle /\ c \in h.mainWsc
  /\ LET s == [h EXCEPT !.mainWsc = @ \ {c}] IN
     IF WscOwned(s, bgq, c)
       THEN h' = s /\ UNCHANGED bgq
       ELSE /\ h' = [s EXCEPT !.wsc[c] = "queued"]
            /\ bgq' = Append(bgq, Task("deleteWsc", c))
  /\ UNCHANGED <<loop, main>>

\* externalize_shared_ptr in onWSMessage and onWSClose, of a copy in hand.
Externalize(c) ==
  /\ MainIdle /\ c \in h.mainWsc
  /\ h' = [h EXCEPT !.xptr = @ \cup {c}]
  /\ UNCHANGED <<bgq, loop, main>>

\* RWebApplication::onWSOpen copies the HttpRequest's own _pWebSocketConnection
\* and hands it to R: the pointer is read, and then the count is raised.
CopyWsc(c) ==
  /\ MainIdle /\ c \in h.mainReq /\ h.req[c].wsc
  /\ main' = [main EXCEPT !.copying = {c}]
  /\ UNCHANGED <<h, bgq, loop>>

\* Nothing keeps the background thread from _on_closed in between.
CountWsc(c) ==
  /\ c \in main.copying
  /\ main' = [main EXCEPT !.copying = {}, !.wild = @ \/ h.wsc[c] # "alive"]
  /\ h' = IF h.wsc[c] = "alive" THEN [h EXCEPT !.xptr = @ \cup {c}] ELSE h
  /\ UNCHANGED <<bgq, loop>>

\* R collects a handle: its shared_ptr is deleted on the background thread.
CollectHandle(c) ==
  /\ MainIdle /\ c \in h.xptr /\ Len(bgq) < MaxQueue
  /\ h' = [h EXCEPT !.xptr = @ \ {c}]
  /\ bgq' = Append(bgq, Task("dropXptr", c))
  /\ UNCHANGED <<loop, main>>

\* Server$stop, stopServer_
StopServer ==
  /\ MainIdle /\ main.running
  /\ main' = [main EXCEPT !.running = FALSE]
  /\ bgq' = Append(bgq, [op |-> "freeServer"])
  /\ UNCHANGED <<h, loop>>

\* getStaticPaths and the like: get_pWebApplication copies the shared_ptr<Socket>
\* on the main thread, while the server runs.
UseServer ==
  /\ MainIdle /\ main.running
  /\ main' = [main EXCEPT !.static = TRUE]
  /\ UNCHANGED <<h, bgq, loop>>

UseServerReturns ==
  /\ main.static
  /\ main' = [main EXCEPT !.static = FALSE]
  /\ UNCHANGED <<h, bgq, loop>>

-------------------------------------------------------------------------------
Background == \/ FreeServer \/ RunTask \/ RunWsTask \/ DropXptr \/ DeleteReq \/ DeleteWsc
              \/ CloseConnection \/ OnSocketClosed

Main == \/ StopServer \/ UseServer \/ UseServerReturns
        \/ \E c \in Conn : \/ PushTask(c) \/ PushWsTask(c) \/ MainDropsReq(c) \/ MainDropsWsc(c) \/ Externalize(c)
                           \/ CopyWsc(c) \/ CountWsc(c) \/ CollectHandle(c)

Next == \/ Background \/ Main
        \/ \E c \in Conn : \/ OnRequest(c) \/ InvokeLater(c) \/ ConnectionEnds(c)
                           \/ WriteResponse(c) \/ ResponseDone(c) \/ LoseResponse(c)
                           \/ OnClosed(c)

\* The background loop serves what is pending, uv_close has libuv call back every
\* write (while the connection is open a client may stop reading instead),
\* the main thread's callbacks end, and R collects the handles it has dropped (strongly fair because MaxQueue
\* disables it now and then).
Fairness ==
  /\ WF_vars(Background)
  /\ \A c \in Conn : /\ WF_vars(OnClosed(c)) /\ WF_vars(MainDropsReq(c))
                     /\ WF_vars(MainDropsWsc(c)) /\ SF_vars(CollectHandle(c))
                     /\ WF_vars(CountWsc(c))
                     /\ WF_vars(h.req[c].handle = "closing" /\ ResponseDone(c))
  /\ WF_vars(UseServerReturns)

Spec == Init /\ [][Next]_vars /\ Fairness

-------------------------------------------------------------------------------
Request == [obj : {"none", "alive", "queued", "deleted"},
            handle : {"none", "idle", "open", "closing", "closed"},
            wsc : BOOLEAN]

Heap == [vec : Seq(Conn),
         sock : [obj : {"alive", "deleted"}, handle : {"open", "closing", "closed"}],
         req : [Conn -> Request],
         wsc : [Conn -> {"none", "alive", "queued", "deleted"}],
         resp : SUBSET Conn, lost : SUBSET Conn,
         mainReq : SUBSET Conn, mainWsc : SUBSET Conn, xptr : SUBSET Conn]

Tasks == [op : {"freeServer"}]
         \cup [op : {"task", "wsTask", "dropXptr", "deleteReq", "deleteWsc"}, c : Conn]

TypeOK ==
  /\ h \in Heap /\ bgq \in Seq(Tasks) /\ loop \in Nat
  /\ main \in [running : BOOLEAN, static : BOOLEAN, copying : SUBSET Conn, wild : BOOLEAN]

\* libuv's handles lie in live objects: an HttpRequest is not deleted before
\* _on_closed although close() takes it off Socket::connections, and the Socket
\* not before delete_ppsocket.
HandlesInLiveMemory ==
  /\ \A c \in Conn : h.req[c].handle \in {"idle", "open", "closing"} => h.req[c].obj = "alive"
  /\ h.sock.handle # "closed" => h.sock.obj = "alive"

\* The loop of Socket::close stays inside the vector that shrinks under it, and
\* when the listening handle is closed no connection of the server is left open,
\* one whose uv_accept failed included.
StopClosesAll ==
  /\ loop <= Len(h.vec)
  /\ h.sock.handle # "open" => \A c \in Conn : h.req[c].handle \notin {"idle", "open"}

\* The main thread follows the server's handle only to a Socket that is alive:
\* Server$stop clears `running' before the background thread frees anything.
MainUsesLiveSocket == main.static => h.sock.obj = "alive"

\* An object whose deletion was handed to the background thread has no owner any
\* more and is not handed over twice.
DeletedOnce ==
  \A c \in Conn :
    /\ h.req[c].obj = "queued" => ~ReqOwned(h, bgq, c)
    /\ h.wsc[c] = "queued" => ~WscOwned(h, bgq, c)
    /\ \A i, j \in DOMAIN bgq :
         bgq[i] = bgq[j] /\ bgq[i].op \in {"deleteReq", "deleteWsc"} => i = j

\* No object goes while somebody uses it, on either thread, and none goes twice.
MemorySafe == HandlesInLiveMemory /\ MainUsesLiveSocket /\ DeletedOnce

\* A server that was stopped is freed with all of its connections: the cycle of
\* references between HttpRequest and WebSocketConnection is always broken
\* by _on_closed.  Two things are excepted: CountWsc may have raised the count of
\* freed memory, and a response that was lost (uvutil.cpp:53 and :173, the run
\* VBodyReleased of ResponseBody) keeps its HttpRequest and with it the Socket;
\* even then every socket is closed and every WebSocketConnection freed.
StoppedServerIsFreed ==
  ~main.running ~>
    \/ main.wild
    \/ /\ h.sock.handle = "closed" /\ (h.sock.obj = "deleted" \/ h.lost # {})
       /\ \A c \in Conn :
            /\ h.wsc[c] \in {"none", "deleted"}
            /\ h.req[c].handle \in {"none", "closed"}
            /\ h.req[c].obj \in {"none", "deleted"} \/ c \in h.lost
===============================================================================
