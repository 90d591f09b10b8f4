--------------------------------- MODULE Server ---------------------------------
(***************************************************************************)
(* Starting and stopping servers.  The main thread makes R's server        *)
(* objects; the listening sockets belong to the background thread, which   *)
(* the first start creates.  A Barrier holds the main thread until the     *)
(* other one has done its part.  Three lists must agree: R's               *)
(* .globals$servers, pServers of httpuv.cpp, and the sockets that listen.  *)
(* A server is known to R by the address of its socket's handle, which the *)
(* allocator may give again to a later server.                             *)
(*                                                                         *)
(* The background queue is the FIFO that TaskExecutor promises.            *)
(***************************************************************************)
EXTENDS Naturals, Sequences, FiniteSets, Functions, SequencesExt

CONSTANTS
  Srv,           \* R's server objects
  Kinds,         \* subset of {"tcp", "pipe"}: startServer, startPipeServer
  Addr,          \* addresses of uv_stream_t
  NULL,          \* no server
  GARBAGE,       \* the local pServer before it is assigned
  ThreadMayFail  \* uv_thread_create may fail

ASSUME ServerAssumption ==
  /\ Kinds \subseteq {"tcp", "pipe"} /\ ThreadMayFail \in BOOLEAN
  /\ NULL # GARBAGE /\ {NULL, GARBAGE} \cap (Srv \cup Addr) = {}

VARIABLES
  srv,       \* the R objects: what became of them, their handle and `running';
             \* asked: somebody has asked for the stop
  servers,   \* .globals$servers
  pServers,  \* running servers, for C++
  main,      \* the main thread: where it is, for which server, and the rest
             \* of the servers that stopAllServers has to stop
  io,        \* the background thread
  barrier,   \* n of the Barriers of each start
  pServer,   \* the variable createTcpServerSync writes its result to
  bgq,       \* the background queue
  sockets    \* the Sockets by the address of their handle: state and server

vars == <<srv, servers, pServers, main, io, barrier, pServer, bgq, sockets>>

Init ==
  /\ srv = [s \in Srv |-> [st |-> "none", kind |-> "tcp", handle |-> NULL,
                           running |-> FALSE, asked |-> FALSE]]
  /\ servers = <<>> /\ pServers = <<>>
  /\ main = [pc |-> "idle", s |-> NULL, todo |-> <<>>]
  /\ io = [pc |-> "none", s |-> NULL, running |-> FALSE, queue |-> FALSE]
  /\ barrier = [x \in {"thread", "server"} \X Srv |-> 0]
  /\ pServer = GARBAGE /\ bgq = <<>>
  /\ sockets = [a \in Addr |-> [st |-> "free", s |-> NULL]]

At(t, pc) == t.pc = pc
Goto(t, pc) == [t EXCEPT !.pc = pc]

-------------------------------------------------------------------------------
(* Barrier::wait, in two parts: count down, then wait for the count to be 0. *)
(* Each call makes Barriers of its own: "thread" and "server".               *)

\* A barrier that opens for the first thread, and one that waits for a third.
BarrierOfOne == 1
BarrierOfThree == 3

NewBarrier == 2

Inside(b) == IF b = "thread" THEN "inThread" ELSE "inServer"

MainArrives(b) ==
  /\ At(main, b) /\ main' = Goto(main, Inside(b))
  /\ barrier' = [barrier EXCEPT ![<<b, main.s>>] = @ - 1]
  /\ UNCHANGED <<srv, servers, pServers, io, pServer, bgq, sockets>>

MainLeaves(b, to) ==
  /\ At(main, Inside(b)) /\ barrier[<<b, main.s>>] = 0 /\ main' = Goto(main, to)
  /\ UNCHANGED <<srv, servers, pServers, io, barrier, pServer, bgq, sockets>>

IoArrives(b) ==
  /\ At(io, b) /\ io' = Goto(io, Inside(b))
  /\ barrier' = [barrier EXCEPT ![<<b, io.s>>] = @ - 1]
  /\ UNCHANGED <<srv, servers, pServers, main, pServer, bgq, sockets>>

IoLeaves(b) ==
  /\ At(io, Inside(b)) /\ barrier[<<b, io.s>>] = 0 /\ io' = Goto(io, "loop")
  /\ UNCHANGED <<srv, servers, pServers, main, barrier, pServer, bgq, sockets>>

-------------------------------------------------------------------------------
(* startServer, startPipeServer *)

\* The constructors and the check of ensure_io_thread.
Start(s, kind) ==
  /\ At(main, "idle") /\ srv[s].st = "none"
  /\ srv' = [srv EXCEPT ![s].st = "starting", ![s].kind = kind]
  /\ main' = [main EXCEPT !.pc = IF io.running THEN "push" ELSE "create", !.s = s]
  /\ UNCHANGED <<servers, pServers, io, barrier, pServer, bgq, sockets>>

\* ensure_io_thread waits at the barrier also when there is no thread.
CreateThread ==
  /\ At(main, "create")
  /\ main' = Goto(main, "thread")
  /\ barrier' = [barrier EXCEPT ![<<"thread", main.s>>] = NewBarrier]
  /\ \/ io' = [io EXCEPT !.pc = "starting", !.s = main.s]
     \/ ThreadMayFail /\ UNCHANGED io
  /\ UNCHANGED <<srv, servers, pServers, pServer, bgq, sockets>>

\* io_thread, up to its barrier.
IoRuns ==
  /\ At(io, "starting")
  /\ io' = [io EXCEPT !.running = TRUE, !.pc = "initializing"]
  /\ UNCHANGED <<srv, servers, pServers, main, barrier, pServer, bgq, sockets>>

IoMakesQueue ==
  /\ At(io, "initializing")
  /\ io' = [io EXCEPT !.queue = TRUE, !.pc = "thread"]
  /\ UNCHANGED <<srv, servers, pServers, main, barrier, pServer, bgq, sockets>>

\* makeTcpServer, makePipeServer: push the creation.
PushCreate ==
  /\ At(main, "push")
  /\ main' = Goto(main, "server")
  /\ barrier' = [barrier EXCEPT ![<<"server", main.s>>] = NewBarrier]
  /\ pServer' = GARBAGE
  /\ bgq' = Append(bgq, [op |-> "create", s |-> main.s])
  /\ UNCHANGED <<srv, servers, pServers, io, sockets>>

Flush(op) == At(io, "loop") /\ bgq # <<>> /\ Head(bgq).op = op /\ bgq' = Tail(bgq)

\* createTcpServerSync, createPipeServerSync: a socket that listens, or, if its
\* address is refused or in use, one that is closed at once.
Create ==
  /\ Flush("create")
  /\ io' = [io EXCEPT !.pc = "server", !.s = Head(bgq).s]
  /\ \E a \in Addr :
       /\ sockets[a].st = "free"
       /\ \/ /\ sockets' = [sockets EXCEPT ![a] = [st |-> "listening", s |-> Head(bgq).s]]
             /\ pServer' = a
          \/ /\ sockets' = [sockets EXCEPT ![a] = [st |-> "closing", s |-> NULL]]
             /\ pServer' = NULL
  /\ UNCHANGED <<srv, servers, pServers, main, barrier>>

\* What makeTcpServer and the constructor do with the result.  PipeServer's
\* constructor does not set `running' and does not call registerServer.
Started ==
  /\ At(main, "result") /\ main' = Goto(main, "idle")
  /\ LET s == main.s
         tcp == srv[s].kind = "tcp" IN
     \/ /\ pServer = NULL
        /\ srv' = [srv EXCEPT ![s].st = "failed"]
        /\ UNCHANGED <<servers, pServers>>
     \/ /\ pServer # NULL
        /\ pServers' = Append(pServers, pServer)
        /\ srv' = [srv EXCEPT ![s].st = "made", ![s].handle = pServer, ![s].running = tcp]
        /\ servers' = IF tcp THEN Append(servers, s) ELSE servers
  /\ UNCHANGED <<io, barrier, pServer, bgq, sockets>>

-------------------------------------------------------------------------------
(* Server$stop, stopServer, stopAllServers *)

\* The oldest entry is taken for the server's.
DeregisterFirst(s) == IF servers = <<>> THEN servers ELSE Tail(servers)

deregisterServer(s) == RemoveFirst(servers, s)

\* stopServer_ and deregisterServer.  Without the handle in pServers the first
\* throws, without the object in .globals$servers the second warns; ListsAgree
\* says that neither happens.
Stop_(s) ==
  LET a == srv[s].handle IN
  /\ a \in Range(pServers)
  /\ pServers' = RemoveFirst(pServers, a)
  /\ bgq' = Append(bgq, [op |-> "free", a |-> a])
  /\ srv' = [srv EXCEPT ![s].running = FALSE, ![s].asked = TRUE]
  /\ servers' = deregisterServer(s)

\* `running' is not looked at.
StopUnchecked(s) == Stop_(s)

\* Server$stop
Stop(s) ==
  \/ srv[s].running /\ Stop_(s)
  \/ /\ ~srv[s].running
     /\ srv' = [srv EXCEPT ![s].asked = TRUE]
     /\ UNCHANGED <<pServers, bgq, servers>>

StopServer(s) ==
  /\ At(main, "idle") /\ srv[s].st = "made"
  /\ Stop(s)
  /\ UNCHANGED <<main, io, barrier, pServer, sockets>>

\* stopAllServers goes through the list as it is now, while each stop takes an
\* element off .globals$servers.
StopAllServers ==
  /\ At(main, "idle")
  /\ main' = [main EXCEPT !.pc = "stopAll", !.todo = servers]
  /\ UNCHANGED <<srv, servers, pServers, io, barrier, pServer, bgq, sockets>>

StopNext ==
  /\ At(main, "stopAll") /\ main.todo # <<>>
  /\ Stop(Head(main.todo))
  /\ main' = [main EXCEPT !.todo = Tail(@)]
  /\ UNCHANGED <<io, barrier, pServer, sockets>>

StopAllReturns ==
  /\ At(main, "stopAll") /\ main.todo = <<>>
  /\ main' = Goto(main, "idle")
  /\ UNCHANGED <<srv, servers, pServers, io, barrier, pServer, bgq, sockets>>

\* Only a server that is still in the list of running ones is closed.
FreeServerIfRunning ==
  /\ Flush("free")
  /\ LET a == Head(bgq).a IN
     sockets' = IF a \in Range(pServers) THEN [sockets EXCEPT ![a].st = "closing"] ELSE sockets
  /\ UNCHANGED <<srv, servers, pServers, main, io, barrier, pServer>>

\* freeServer: Socket::close
FreeServer ==
  /\ Flush("free")
  /\ sockets' = [sockets EXCEPT ![Head(bgq).a].st = "closing"]
  /\ UNCHANGED <<srv, servers, pServers, main, io, barrier, pServer>>

\* The handle is closed and the Socket deleted; its memory may be used again.
SocketDeleted(a) ==
  /\ At(io, "loop") /\ sockets[a].st = "closing"
  /\ sockets' = [sockets EXCEPT ![a] = [st |-> "free", s |-> NULL]]
  /\ UNCHANGED <<srv, servers, pServers, main, io, barrier, pServer, bgq>>

-------------------------------------------------------------------------------
MainContinues == \/ CreateThread \/ PushCreate \/ Started
                 \/ MainArrives("thread") \/ MainLeaves("thread", "push")
                 \/ MainArrives("server") \/ MainLeaves("server", "result")
                 \/ StopNext \/ StopAllReturns

IoContinues == \/ IoRuns \/ IoMakesQueue \/ Create \/ FreeServer
               \/ \E b \in {"thread", "server"} : IoArrives(b) \/ IoLeaves(b)

UserStarts == \E s \in Srv, kind \in Kinds : Start(s, kind)
UserStops == (\E s \in Srv : StopServer(s)) \/ StopAllServers

Next == \/ UserStarts \/ UserStops \/ MainContinues \/ IoContinues
        \/ \E a \in Addr : SocketDeleted(a)

\* Both threads go on with what they have begun; nobody has to start or stop a
\* server.
Fairness == /\ WF_vars(MainContinues) /\ WF_vars(IoContinues)
            /\ \A a \in Addr : WF_vars(SocketDeleted(a))

Spec == Init /\ [][Next]_vars /\ Fairness

-------------------------------------------------------------------------------
Task == [op : {"create"}, s : Srv] \cup [op : {"free"}, a : Addr]

ServerObject == [st : {"none", "starting", "made", "failed"}, kind : {"tcp", "pipe"},
                 handle : Addr \cup {NULL}, running : BOOLEAN, asked : BOOLEAN]

TypeOK ==
  /\ srv \in [Srv -> ServerObject]
  /\ servers \in Seq(Srv) /\ pServers \in Seq(Addr)
  /\ main \in [pc : {"idle", "create", "thread", "inThread", "push", "server", "inServer",
                     "result", "stopAll"},
               s : Srv \cup {NULL}, todo : Seq(Srv)]
  /\ io \in [pc : {"none", "starting", "initializing", "thread", "inThread", "loop",
                   "server", "inServer"},
             s : Srv \cup {NULL}, running : BOOLEAN, queue : BOOLEAN]
  /\ barrier \in [{"thread", "server"} \X Srv -> 0..2]
  /\ pServer \in Addr \cup {NULL, GARBAGE}
  /\ bgq \in Seq(Task)
  /\ sockets \in [Addr -> [st : {"free", "listening", "closing"}, s : Srv \cup {NULL}]]

\* The main thread pushes only onto a queue that exists, and looks at pServer
\* only after the background thread has written it (Barrier, io_thread,
\* createTcpServerSync).
ReadyWhenUsed ==
  /\ At(main, "push") => io.queue
  /\ At(main, "result") => pServer # GARBAGE

\* Between two calls the three lists agree: R's list has no server twice and is
\* that of the running ones, C++ has a handle for each of them, and every handle
\* C++ has is the address of a socket that listens for one server, which R's
\* list knows unless it is a pipe server (registerServer, pServers).
ListsAgree ==
  main.pc \in {"idle", "stopAll"} =>
    /\ IsInjective(servers) /\ IsInjective(pServers)
    /\ Range(servers) = {s \in Srv : srv[s].running}
    /\ \A s \in Range(servers) : srv[s].handle \in Range(pServers)
    /\ \A a \in Range(pServers) :
         \E s \in Srv :
           /\ srv[s].handle = a
           /\ sockets[a] = [st |-> "listening", s |-> s]
           /\ (s \in Range(servers) \/ srv[s].kind = "pipe")

\* A socket is freed once, and only if it is the socket of a server that was
\* stopped, although addresses are used again (stopServer_, freeServer).
FreesOwnSocket ==
  /\ \A i \in DOMAIN bgq : bgq[i].op = "free" =>
       LET socket == sockets[bgq[i].a] IN
       socket.st = "listening" /\ srv[socket.s].asked
  /\ \A i, j \in DOMAIN bgq : bgq[i].op = "free" /\ bgq[i] = bgq[j] => i = j

Unbound(s) == \A a \in Addr : sockets[a].s # s

\* A TCP server that was asked to stop gives up its port, although the main
\* thread forgets it before the background thread has done anything
\* (stopServer_, freeServer).
StoppedTcpServerIsUnbound ==
  \A s \in Srv : (srv[s].asked /\ srv[s].kind = "tcp") ~> Unbound(s)

\* The same for servers of every kind, as the manual of stopServer says.
StoppedServerIsUnbound == \A s \in Srv : srv[s].asked ~> Unbound(s)

\* Every call returns: the two threads never wait for each other in vain, unless
\* the background thread could not be created (Barrier, ensure_io_thread).
CallsReturn ==
  (main.pc # "idle") ~> (main.pc = "idle" \/ (At(main, "inThread") /\ At(io, "none")))
===============================================================================
