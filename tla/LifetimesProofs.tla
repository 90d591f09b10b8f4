---------------------------- MODULE LifetimesProofs ----------------------------
(***************************************************************************)
(* Proofs about Lifetimes for any number of connections and any length of  *)
(* the background queue: no object goes while somebody uses it, and        *)
(* Socket::close closes every connection.                                  *)
(***************************************************************************)
EXTENDS Lifetimes, SequencesExt, SequenceTheorems, FiniteSetTheorems,
        FunctionTheorems, WellFoundedInduction, TLAPS

(* Facts about sequences that the proofs below use.                         *)

\* An element is in the range exactly if it stands at some position.
LEMMA InRange ==
  ASSUME NEW S, NEW s \in Seq(S), NEW e
  PROVE  e \in Range(s) <=> \E i \in 1..Len(s) : s[i] = e
BY RangeEquality

\* push_back adds the element, and no duplicate if it was not there.
LEMMA AppendRange ==
  ASSUME NEW S, NEW s \in Seq(S), NEW e \in S
  PROVE  /\ Append(s, e) \in Seq(S)
         /\ Range(Append(s, e)) = Range(s) \cup {e}
         /\ IsInjective(s) /\ e \notin Range(s) => IsInjective(Append(s, e))
<1> DEFINE t == Append(s, e)
<1>1. /\ t \in Seq(S) /\ Len(s) \in Nat /\ Len(t) = Len(s) + 1
      /\ \A i \in 1..Len(s) : t[i] = s[i]
      /\ t[Len(s) + 1] = e
  BY AppendProperties, LenProperties
<1>2. Range(t) = Range(s) \cup {e}
  <2>1. Range(t) = {t[i] : i \in 1..Len(t)} /\ Range(s) = {s[i] : i \in 1..Len(s)}
    BY <1>1, RangeEquality
  <2> HIDE DEF t
  <2> QED BY <1>1, <2>1
<1>3. ASSUME IsInjective(s), e \notin Range(s) PROVE IsInjective(t)
  <2>1. DOMAIN t = 1..Len(t) /\ DOMAIN s = 1..Len(s)
    BY <1>1, LenProperties
  <2>2. \A i \in 1..Len(s) : s[i] # e
    BY <1>3, InRange
  <2> HIDE DEF t
  <2> QED BY <1>1, <1>3, <2>1, <2>2 DEF IsInjective
<1> QED BY <1>1, <1>2, <1>3

\* Popping the front keeps the order and brings in nothing new.
LEMMA TailRange ==
  ASSUME NEW S, NEW s \in Seq(S), s # <<>>
  PROVE  /\ Head(s) \in S /\ Tail(s) \in Seq(S) /\ Head(s) = s[1]
         /\ Len(s) \in Nat \ {0} /\ Len(Tail(s)) = Len(s) - 1
         /\ \A i \in 1..Len(Tail(s)) : Tail(s)[i] = s[i + 1]
         /\ Range(s) = {Head(s)} \cup Range(Tail(s))
<1>1. /\ Head(s) \in S /\ Tail(s) \in Seq(S) /\ Head(s) = s[1]
      /\ Len(s) \in Nat \ {0} /\ Len(Tail(s)) = Len(s) - 1
      /\ \A i \in 1..Len(Tail(s)) : Tail(s)[i] = s[i + 1]
  BY HeadTailProperties, EmptySeq
<1>2. Range(s) = {Head(s)} \cup Range(Tail(s))
  <2> DEFINE t == Tail(s)
  <2>1. Range(s) = {s[i] : i \in 1..Len(s)} /\ Range(t) = {t[i] : i \in 1..Len(t)}
    BY <1>1, RangeEquality, ZenonT(40)
  <2> HIDE DEF t
  <2>2. ASSUME NEW x \in Range(s) PROVE x \in {Head(s)} \cup Range(t)
    <3>1. PICK i \in 1..Len(s) : s[i] = x
      BY <2>1
    <3>2. CASE i = 1
      BY <1>1, <3>1, <3>2
    <3>3. CASE i # 1
      <4>1. i - 1 \in 1..Len(t) /\ t[i - 1] = s[i]
        BY <1>1, <3>3 DEF t
      <4> QED BY <2>1, <3>1, <4>1
    <3> QED BY <3>2, <3>3
  <2>3. ASSUME NEW x \in {Head(s)} \cup Range(t) PROVE x \in Range(s)
    <3>1. CASE x = Head(s)
      BY <1>1, <2>1, <3>1
    <3>2. CASE x \in Range(t)
      <4>1. PICK i \in 1..Len(t) : t[i] = x
        BY <2>1, <3>2
      <4>2. i + 1 \in 1..Len(s) /\ s[i + 1] = x
        BY <1>1, <4>1 DEF t
      <4> QED BY <2>1, <4>2
    <3> QED BY <3>1, <3>2
  <2> QED BY <2>2, <2>3 DEF t
<1> QED BY <1>1, <1>2

\* std::find and erase, on a list without duplicates: the element goes, the
\* rest stays.
LEMMA RemoveFirstRange ==
  ASSUME NEW S, NEW s \in Seq(S), NEW e, IsInjective(s)
  PROVE  /\ RemoveFirst(s, e) \in Seq(S)
         /\ Range(RemoveFirst(s, e)) = Range(s) \ {e}
         /\ IsInjective(RemoveFirst(s, e))
         /\ Len(RemoveFirst(s, e)) = IF e \in Range(s) THEN Len(s) - 1 ELSE Len(s)
<1>1. CASE ~ \E i \in 1..Len(s) : s[i] = e
  BY <1>1, InRange DEF RemoveFirst
<1>2. CASE \E i \in 1..Len(s) : s[i] = e
  <2> DEFINE I == {i \in 1..Len(s) : s[i] = e}
             k == Min(I)
             t == SubSeq(s, 1, k - 1) \o SubSeq(s, k + 1, Len(s))
  <2>1. PICK j \in 1..Len(s) : s[j] = e
    BY <1>2
  <2>2. I = {j} /\ Len(s) \in Nat /\ DOMAIN s = 1..Len(s)
    BY <2>1, LenProperties DEF IsInjective
  <2>3. k = j
    BY <2>2 DEF Min
  <2>4. RemoveFirst(s, e) = t
    BY <1>2, <2>2 DEF RemoveFirst, RemoveAt, SelectInSeq
  <2>5. \A i \in 1..Len(s) : s[i] \in S
    BY ElementOfSeq
  <2> HIDE DEF k, I
  <2>6. /\ SubSeq(s, 1, k - 1) \in Seq(S) /\ Len(SubSeq(s, 1, k - 1)) = k - 1
        /\ \A i \in 1..k - 1 : SubSeq(s, 1, k - 1)[i] = s[i]
    <3>1. \A i \in 1..k - 1 : s[i] \in S
      BY <2>2, <2>3, <2>5
    <3> QED BY <2>3, <3>1, SubSeqProperties
  <2>7. /\ SubSeq(s, k + 1, Len(s)) \in Seq(S) /\ Len(SubSeq(s, k + 1, Len(s))) = Len(s) - k
        /\ \A i \in 1..Len(s) - k : SubSeq(s, k + 1, Len(s))[i] = s[k + i]
    <3>1. \A i \in k + 1..Len(s) : s[i] \in S
      BY <2>2, <2>3, <2>5
    <3>2. k + 1 \in Int /\ Len(s) \in Int
      BY <2>2, <2>3
    <3> DEFINE u == SubSeq(s, k + 1, Len(s))
    <3>3. /\ u \in Seq(S)
          /\ Len(u) = IF k + 1 <= Len(s) THEN Len(s) - (k + 1) + 1 ELSE 0
          /\ \A i \in 1..(Len(s) - (k + 1) + 1) : u[i] = s[k + 1 + i - 1]
      BY <3>1, <3>2, SubSeqProperties
    <3> HIDE DEF u
    <3>4. Len(u) = Len(s) - k /\ Len(s) - (k + 1) + 1 = Len(s) - k
      <4> DEFINE n == Len(s)
      <4>1. n \in Nat /\ k \in 1..n
        BY <2>2, <2>3
      <4>2. Len(u) = IF k + 1 <= n THEN n - (k + 1) + 1 ELSE 0
        BY <3>3
      <4> HIDE DEF n
      <4>3. (k + 1 <= n => n - (k + 1) + 1 = n - k) /\ (~(k + 1 <= n) => 0 = n - k) /\ n - (k + 1) + 1 = n - k
        BY <4>1
      <4>4. Len(u) = n - k
        BY <4>2, <4>3
      <4> QED BY <4>3, <4>4 DEF n
    <3>5. ASSUME NEW i \in 1..Len(s) - k PROVE u[i] = s[k + i]
      <4>1. k + 1 + i - 1 = k + i
        BY <2>3
      <4> QED BY <3>3, <3>4, <4>1
    <3> QED BY <3>3, <3>4, <3>5 DEF u
  <2>8. /\ t \in Seq(S) /\ Len(t) = Len(s) - 1
        /\ \A i \in 1..Len(s) - 1 : t[i] = IF i < k THEN s[i] ELSE s[i + 1]
    <3>1. /\ t \in Seq(S) /\ Len(t) = (k - 1) + (Len(s) - k)
          /\ \A i \in 1..(k - 1) + (Len(s) - k) :
               t[i] = IF i <= k - 1 THEN SubSeq(s, 1, k - 1)[i]
                                    ELSE SubSeq(s, k + 1, Len(s))[i - (k - 1)]
      <4> DEFINE a == SubSeq(s, 1, k - 1)
                 b == SubSeq(s, k + 1, Len(s))
      <4>1. a \in Seq(S) /\ b \in Seq(S) /\ Len(a) = k - 1 /\ Len(b) = Len(s) - k
        BY <2>6, <2>7
      <4> HIDE DEF a, b
      <4>2. /\ a \o b \in Seq(S) /\ Len(a \o b) = Len(a) + Len(b)
            /\ \A i \in 1..Len(a) + Len(b) :
                 (a \o b)[i] = IF i <= Len(a) THEN a[i] ELSE b[i - Len(a)]
        BY <4>1, ConcatProperties
      <4>3. t = a \o b
        BY DEF a, b
      <4> HIDE DEF t
      <4> QED BY <4>1, <4>2, <4>3, Zenon DEF a, b
    <3>2. (k - 1) + (Len(s) - k) = Len(s) - 1
      BY <2>2, <2>3
    <3> HIDE DEF t
    <3>3. ASSUME NEW i \in 1..Len(s) - 1 PROVE t[i] = IF i < k THEN s[i] ELSE s[i + 1]
      <4>1. CASE i < k
        <5>1. i \in 1..k - 1 /\ i <= k - 1
          BY <2>3, <4>1
        <5> QED BY <2>6, <3>1, <3>2, <4>1, <5>1
      <4>2. CASE ~(i < k)
        <5>1. i - (k - 1) \in 1..Len(s) - k /\ k + (i - (k - 1)) = i + 1 /\ ~(i <= k - 1)
          BY <2>2, <2>3, <4>2
        <5> QED BY <2>7, <3>1, <3>2, <4>2, <5>1
      <4> QED BY <4>1, <4>2
    <3> QED BY <3>1, <3>2, <3>3
  <2> HIDE DEF t
  <2>9. DOMAIN t = 1..Len(s) - 1 /\ DOMAIN s = 1..Len(s)
    BY <2>8, LenProperties
  <2>10. ASSUME NEW a \in DOMAIN t, NEW b \in DOMAIN t, t[a] = t[b] PROVE a = b
    <3> DEFINE f(i) == IF i < k THEN i ELSE i + 1
    <3>1. f(a) \in 1..Len(s) /\ f(b) \in 1..Len(s) /\ t[a] = s[f(a)] /\ t[b] = s[f(b)]
      BY <2>2, <2>3, <2>8, <2>9
    <3>2. f(a) = f(b)
      BY <2>9, <2>10, <3>1 DEF IsInjective
    <3> QED BY <2>2, <2>3, <2>9, <3>2
  <2>11. Range(t) = Range(s) \ {e}
    <3>1. Range(s) = {s[i] : i \in 1..Len(s)} /\ Range(t) = {t[i] : i \in 1..Len(s) - 1}
      BY <2>8, RangeEquality
    <3>2. ASSUME NEW x \in Range(t) PROVE x \in Range(s) \ {e}
      <4>1. PICK i \in 1..Len(s) - 1 : t[i] = x
        BY <3>1
      <4>2. PICK n \in 1..Len(s) : n # k /\ s[n] = x
        <5>1. CASE i < k
          BY <2>2, <2>8, <4>1, <5>1
        <5>2. CASE ~(i < k)
          <6>1. i + 1 \in 1..Len(s) /\ i + 1 # k /\ s[i + 1] = x
            BY <2>2, <2>3, <2>8, <4>1, <5>2
          <6> QED BY <6>1
        <5> QED BY <5>1, <5>2
      <4>3. x # e
        BY <2>1, <2>2, <2>3, <4>2 DEF I
      <4> QED BY <3>1, <4>2, <4>3
    <3>3. ASSUME NEW x \in Range(s) \ {e} PROVE x \in Range(t)
      <4>1. PICK n \in 1..Len(s) : s[n] = x
        BY <3>1
      <4>2. n # k
        BY <2>1, <2>3, <4>1, <3>3
      <4>3. CASE n < k
        <5>1. n \in 1..Len(s) - 1 /\ t[n] = x
          BY <2>2, <2>3, <2>8, <4>1, <4>3
        <5> QED BY <3>1, <5>1
      <4>4. CASE k < n
        <5>1. n - 1 \in 1..Len(s) - 1 /\ ~(n - 1 < k) /\ n - 1 + 1 = n
          BY <2>2, <2>3, <4>4
        <5>2. t[n - 1] = x
          BY <2>8, <4>1, <5>1
        <5> QED BY <3>1, <5>1, <5>2
      <4> QED BY <2>3, <4>2, <4>3, <4>4
    <3> QED BY <3>2, <3>3
  <2>12. e \in Range(s)
    BY <2>1, InRange
  <2> QED BY <2>4, <2>8, <2>10, <2>11, <2>12 DEF IsInjective
<1> QED BY <1>1, <1>2

-----------------------------------------------------------------------------
(* The inductive invariant. *)

\* What the objects of one connection and their owners know of each other.  An
\* HttpRequest whose handle is in use is held by its WebSocketConnection, which
\* it holds; it is in Socket::connections until close().
Linked(s, c) ==
  /\ s.req[c].handle \in {"idle", "open", "closing"} => s.req[c].wsc
  /\ s.req[c].wsc => s.wsc[c] = "alive"
  /\ Exists(s.wsc[c]) => s.req[c].obj = "alive"
  /\ c \in Range(s.vec) <=> s.req[c].handle \in {"idle", "open"}
  /\ c \in s.mainReq => s.req[c].obj = "alive"
  /\ c \in s.resp \cup s.lost => s.req[c].obj = "alive"
  /\ c \in s.mainWsc \cup s.xptr => s.wsc[c] = "alive"

\* A task holds, or deletes, an object that is still there for it.
TaskValid(s, t) ==
  /\ t.op = "task" => s.req[t.c].obj = "alive"
  /\ t.op \in {"wsTask", "dropXptr"} => s.wsc[t.c] = "alive"
  /\ t.op = "deleteReq" => s.req[t.c].obj = "queued"
  /\ t.op = "deleteWsc" => s.wsc[t.c] = "queued"

Once == {"deleteReq", "deleteWsc", "freeServer"}

TasksOnce(q) == \A i, j \in DOMAIN q : q[i] = q[j] /\ q[i].op \in Once => i = j

Links(s, q) ==
  /\ \A c \in Conn : Linked(s, c)
  /\ \A t \in Range(q) : TaskValid(s, t)

\* The Socket, the loop of Socket::close, and the one freeServer.
Listener ==
  /\ h.sock.handle # "closed" \/ main.static => h.sock.obj = "alive"
  /\ main.running => h.sock.handle = "open" /\ loop = 0
  /\ \A t \in Range(bgq) : t.op = "freeServer" =>
       ~main.running /\ h.sock.handle = "open" /\ loop = 0
  /\ loop > 0 => loop = Len(h.vec) /\ h.sock.handle = "open"
  /\ h.sock.handle # "open" => h.vec = <<>>

IInv == TypeOK /\ IsInjective(h.vec) /\ Links(h, bgq) /\ TasksOnce(bgq) /\ Listener

-------------------------------------------------------------------------------
(* What the operations on the heap keep. *)

\* The Socket is touched only to delete it once its handle is closed and the
\* main thread does not hold it.
SockKept(s, t) ==
  /\ t.sock.handle = s.sock.handle
  /\ t.sock.obj = s.sock.obj \/ (s.sock.handle = "closed" /\ ~main.static)

\* The two heaps differ at most in their Sockets.
SameLinks(s, t) ==
  /\ t.vec = s.vec /\ t.req = s.req /\ t.wsc = s.wsc
  /\ t.mainReq = s.mainReq /\ t.mainWsc = s.mainWsc /\ t.xptr = s.xptr
  /\ t.resp = s.resp /\ t.lost = s.lost

LEMMA SameLinksKeep ==
  ASSUME NEW s, NEW t, NEW q, SameLinks(s, t), Links(s, q)
  PROVE  Links(t, q)
BY DEF SameLinks, Links, Linked, TaskValid

\* DropSock
LEMMA DropSockKeeps ==
  ASSUME NEW s \in Heap
  PROVE  DropSock(s) \in Heap /\ SameLinks(s, DropSock(s)) /\ SockKept(s, DropSock(s))
<1>1. CASE SockOwned(s)
  BY <1>1 DEF DropSock, SameLinks, SockKept
<1>2. CASE ~SockOwned(s)
  <2>1. DropSock(s) = [s EXCEPT !.sock.obj = "deleted"]
    BY <1>2 DEF DropSock
  <2>2. s.sock.handle = "closed" /\ ~main.static
    BY <1>2 DEF SockOwned
  <2>3. /\ DropSock(s).sock = [s.sock EXCEPT !.obj = "deleted"]
        /\ SameLinks(s, DropSock(s))
    BY <2>1 DEF Heap, SameLinks
  <2>4. DropSock(s).sock.handle = s.sock.handle
    BY <2>3 DEF Heap
  <2>5. DropSock(s) \in Heap
    BY <2>1, ZenonT(60) DEF Heap
  <2> QED BY <2>2, <2>3, <2>4, <2>5 DEF SockKept
<1> QED BY <1>1, <1>2

\* A task of the queue as the ownership predicates look for it.
LEMMA TaskFacts ==
  ASSUME NEW q \in Seq(Tasks), NEW t \in Range(q)
  PROVE  /\ t \in Tasks
         /\ t.op # "freeServer" => t.c \in Conn /\ t = Task(t.op, t.c)
<1>1. t \in Tasks
  BY RangeOfSeq
<1> QED BY <1>1 DEF Tasks, Task

\* DropReq: an HttpRequest that nobody holds has a handle that is not in use.
LEMMA DropReqKeeps ==
  ASSUME NEW s \in Heap, NEW q \in Seq(Tasks), NEW c \in Conn, Links(s, q)
  PROVE  /\ DropReq(s, q, c) \in Heap /\ Links(DropReq(s, q, c), q)
         /\ DropReq(s, q, c).vec = s.vec /\ SockKept(s, DropReq(s, q, c))
<1>1. CASE ReqOwned(s, q, c) \/ s.req[c].obj # "alive"
  BY <1>1 DEF DropReq, SockKept
<1>2. CASE ~(ReqOwned(s, q, c) \/ s.req[c].obj # "alive")
  <2> DEFINE r == [s EXCEPT !.req[c].obj = "deleted"]
  <2>1. DropReq(s, q, c) = DropSock(r)
    BY <1>2 DEF DropReq
  <2>2. /\ r.vec = s.vec /\ r.wsc = s.wsc /\ r.sock = s.sock
        /\ r.mainReq = s.mainReq /\ r.mainWsc = s.mainWsc /\ r.xptr = s.xptr
        /\ r.resp = s.resp /\ r.lost = s.lost
        /\ r.req = [s.req EXCEPT ![c] = [s.req[c] EXCEPT !.obj = "deleted"]]
    BY DEF Heap
  <2>3. s.req[c] \in Request /\ s.req \in [Conn -> Request]
    BY DEF Heap
  <2>4. [s.req[c] EXCEPT !.obj = "deleted"] \in Request
    BY <2>3 DEF Request
  <2>5. r \in Heap
    <3>1. r.req \in [Conn -> Request]
      BY <2>2, <2>3, <2>4
    <3> QED BY <2>2, <3>1 DEF Heap
  <2>6. /\ r.req[c].handle = s.req[c].handle /\ r.req[c].wsc = s.req[c].wsc
        /\ \A d \in Conn \ {c} : r.req[d] = s.req[d]
    BY <2>2, <2>3 DEF Request
  <2> HIDE DEF r
  <2>7. /\ c \notin Range(s.vec) /\ ~Exists(s.wsc[c]) /\ ~Queued(q, "task", c)
        /\ c \notin s.mainReq /\ c \notin s.resp \cup s.lost
    BY <1>2 DEF ReqOwned
  <2>8. \A d \in Conn : Linked(r, d)
    <3>1. \A d \in Conn : Linked(s, d)
      BY DEF Links
    <3> QED BY <2>2, <2>6, <2>7, <3>1 DEF Linked
  <2>9. ASSUME NEW t \in Range(q) PROVE TaskValid(r, t)
    <3>1. TaskValid(s, t)
      BY DEF Links
    <3>2. t.op # "freeServer" => t.c \in Conn /\ t = Task(t.op, t.c)
      BY TaskFacts
    <3>3. t.op \in {"task", "deleteReq"} => t.c # c
      BY <1>2, <2>7, <3>1, <3>2 DEF TaskValid, Queued
    <3> QED BY <2>2, <2>6, <3>1, <3>2, <3>3 DEF TaskValid
  <2>10. Links(r, q)
    BY <2>8, <2>9 DEF Links
  <2>11. DropSock(r) \in Heap /\ SameLinks(r, DropSock(r)) /\ SockKept(r, DropSock(r))
    BY <2>5, DropSockKeeps
  <2>12. Links(DropSock(r), q)
    BY <2>10, <2>11, SameLinksKeep
  <2> QED BY <2>1, <2>2, <2>11, <2>12 DEF SameLinks, SockKept
<1> QED BY <1>1, <1>2

\* DropWsc: the WebSocketConnection that goes is the last one to hold its
\* HttpRequest, if nobody else does.
LEMMA DropWscKeeps ==
  ASSUME NEW s \in Heap, NEW q \in Seq(Tasks), NEW c \in Conn, Links(s, q)
  PROVE  /\ DropWsc(s, q, c) \in Heap /\ Links(DropWsc(s, q, c), q)
         /\ DropWsc(s, q, c).vec = s.vec /\ SockKept(s, DropWsc(s, q, c))
<1>1. CASE WscOwned(s, q, c) \/ s.wsc[c] # "alive"
  BY <1>1 DEF DropWsc, SockKept
<1>2. CASE ~(WscOwned(s, q, c) \/ s.wsc[c] # "alive")
  <2> DEFINE r == [s EXCEPT !.wsc[c] = "deleted"]
  <2>1. DropWsc(s, q, c) = DropReq(r, q, c)
    BY <1>2 DEF DropWsc
  <2>2. /\ r.vec = s.vec /\ r.req = s.req /\ r.sock = s.sock
        /\ r.mainReq = s.mainReq /\ r.mainWsc = s.mainWsc /\ r.xptr = s.xptr
        /\ r.resp = s.resp /\ r.lost = s.lost
        /\ r.wsc = [s.wsc EXCEPT ![c] = "deleted"]
    BY DEF Heap
  <2>3. r \in Heap
    BY <2>2 DEF Heap
  <2>4. r.wsc[c] = "deleted" /\ \A d \in Conn \ {c} : r.wsc[d] = s.wsc[d]
    BY <2>2 DEF Heap
  <2> HIDE DEF r
  <2>5. /\ ~s.req[c].wsc /\ c \notin s.xptr \cup s.mainWsc
        /\ ~Queued(q, "dropXptr", c) /\ ~Queued(q, "wsTask", c)
    BY <1>2 DEF WscOwned
  <2>6. \A d \in Conn : Linked(r, d)
    <3>1. \A d \in Conn : Linked(s, d)
      BY DEF Links
    <3> QED BY <2>2, <2>4, <2>5, <3>1 DEF Linked, Exists
  <2>7. ASSUME NEW t \in Range(q) PROVE TaskValid(r, t)
    <3>1. TaskValid(s, t)
      BY DEF Links
    <3>2. t.op # "freeServer" => t.c \in Conn /\ t = Task(t.op, t.c)
      BY TaskFacts
    <3>3. t.op \in {"wsTask", "dropXptr", "deleteWsc"} => t.c # c
      BY <1>2, <2>5, <3>1, <3>2 DEF TaskValid, Queued
    <3> QED BY <2>2, <2>4, <3>1, <3>2, <3>3 DEF TaskValid
  <2>8. Links(r, q)
    BY <2>6, <2>7 DEF Links
  <2> QED BY <2>1, <2>2, <2>3, <2>8, DropReqKeeps DEF SockKept
<1> QED BY <1>1, <1>2

\* Close: the connection leaves the list, its handle stays in a live object.
LEMMA CloseKeeps ==
  ASSUME NEW s \in Heap, NEW q \in Seq(Tasks), NEW c \in Conn, NEW ws \in BOOLEAN,
         Links(s, q), IsInjective(s.vec)
  PROVE  /\ Close(s, c, ws) \in Heap /\ Links(Close(s, c, ws), q)
         /\ IsInjective(Close(s, c, ws).vec) /\ Close(s, c, ws).sock = s.sock
         /\ Close(s, c, ws).vec = RemoveFirst(s.vec, c)
<1> DEFINE r == Close(s, c, ws)
<1>1. s.vec \in Seq(Conn) /\ s.req[c] \in Request /\ s.req \in [Conn -> Request]
  BY DEF Heap
<1>2. /\ RemoveFirst(s.vec, c) \in Seq(Conn) /\ IsInjective(RemoveFirst(s.vec, c))
      /\ Range(RemoveFirst(s.vec, c)) = Range(s.vec) \ {c}
  BY <1>1, RemoveFirstRange
<1>3. CASE s.req[c].handle \notin {"idle", "open"}
  <2>1. r = s /\ c \notin Range(s.vec)
    BY <1>3 DEF Close, Links, Linked
  <2>2. RemoveFirst(s.vec, c) = s.vec
    BY <1>1, <2>1, InRange DEF RemoveFirst
  <2> QED BY <2>1, <2>2
<1>4. CASE s.req[c].handle \in {"idle", "open"}
  <2>1. r = [s EXCEPT !.vec = RemoveFirst(s.vec, c), !.req[c].handle = "closing",
                      !.mainWsc = IF ws THEN s.mainWsc \cup {c} ELSE s.mainWsc]
    BY <1>4 DEF Close
  <2>2. /\ r.vec = RemoveFirst(s.vec, c) /\ r.wsc = s.wsc /\ r.sock = s.sock
        /\ r.mainReq = s.mainReq /\ r.xptr = s.xptr
        /\ r.resp = s.resp /\ r.lost = s.lost
        /\ r.mainWsc = (IF ws THEN s.mainWsc \cup {c} ELSE s.mainWsc)
        /\ r.req = [s.req EXCEPT ![c] = [s.req[c] EXCEPT !.handle = "closing"]]
    BY <2>1 DEF Heap
  <2>3. [s.req[c] EXCEPT !.handle = "closing"] \in Request
    BY <1>1 DEF Request
  <2>4. r.mainWsc \subseteq s.mainWsc \cup {c} /\ r.mainWsc \in SUBSET Conn
    BY <2>2 DEF Heap
  <2>5. r \in Heap
    <3>1. r.req \in [Conn -> Request]
      BY <1>1, <2>2, <2>3
    <3>2. DOMAIN r = DOMAIN s /\ r = [vec |-> r.vec, sock |-> r.sock, req |-> r.req, wsc |-> r.wsc,
                resp |-> r.resp, lost |-> r.lost,
                mainReq |-> r.mainReq, mainWsc |-> r.mainWsc, xptr |-> r.xptr]
      BY <2>1 DEF Heap
    <3> HIDE DEF r
    <3> QED BY <1>2, <2>2, <2>4, <3>1, <3>2 DEF Heap
  <2>6. /\ r.req[c].handle = "closing" /\ r.req[c].wsc = s.req[c].wsc
        /\ r.req[c].obj = s.req[c].obj
        /\ \A d \in Conn \ {c} : r.req[d] = s.req[d]
    BY <1>1, <2>2 DEF Request
  <2> HIDE DEF r
  <2>7. \A d \in Conn : Linked(r, d)
    <3>1. \A d \in Conn : Linked(s, d)
      BY DEF Links
    <3>2. s.wsc[c] = "alive"
      BY <1>4, <3>1 DEF Linked
    <3>3. ASSUME NEW d \in Conn PROVE Linked(r, d)
      <4>1. c = d \/ (d \in Range(r.vec) <=> d \in Range(s.vec))
        BY <1>2, <2>2
      <4>2. c \notin Range(r.vec)
        BY <1>2, <2>2
      <4> QED BY <1>4, <2>2, <2>4, <2>6, <3>1, <3>2, <4>1, <4>2 DEF Linked
    <3> QED BY <3>3
  <2>8. ASSUME NEW t \in Range(q) PROVE TaskValid(r, t)
    <3>1. TaskValid(s, t)
      BY DEF Links
    <3>2. t.op # "freeServer" => t.c \in Conn
      BY TaskFacts
    <3>3. \A d \in Conn : r.req[d].obj = s.req[d].obj
      BY <2>6
    <3> QED BY <2>2, <3>1, <3>2, <3>3 DEF TaskValid
  <2> QED BY <1>2, <2>2, <2>5, <2>7, <2>8 DEF Links, r
<1> QED BY <1>3, <1>4

\* The two heaps differ at most in their responses.
SameButResponses(s, t) ==
  /\ t.vec = s.vec /\ t.sock = s.sock /\ t.req = s.req /\ t.wsc = s.wsc
  /\ t.mainReq = s.mainReq /\ t.mainWsc = s.mainWsc /\ t.xptr = s.xptr

\* A connection gets a response, or one of its responses goes: while it has one
\* its HttpRequest is alive.
LEMMA ResponsesKeep ==
  ASSUME NEW s, NEW t, NEW q, NEW c \in Conn, Links(s, q), SameButResponses(s, t),
         t.resp \cup t.lost \subseteq s.resp \cup s.lost \cup {c}, s.req[c].obj = "alive"
  PROVE  Links(t, q)
<1>1. \A d \in Conn : Linked(t, d)
  BY DEF Links, Linked, SameButResponses
<1>2. \A x \in Range(q) : TaskValid(t, x)
  BY DEF Links, TaskValid, SameButResponses
<1> QED BY <1>1, <1>2 DEF Links

\* Write: the connection is open, so that its HttpRequest is there.
LEMMA WriteKeeps ==
  ASSUME NEW s \in Heap, NEW q, NEW c \in Conn, Links(s, q)
  PROVE  /\ Write(s, c) \in Heap /\ Links(Write(s, c), q)
         /\ Write(s, c).vec = s.vec /\ Write(s, c).sock = s.sock
<1>1. CASE s.req[c].handle # "open"
  BY <1>1 DEF Write
<1>2. CASE s.req[c].handle = "open"
  <2> DEFINE t == Write(s, c)
  <2>1. s.req[c].obj = "alive"
    BY <1>2 DEF Links, Linked, Exists
  <2>2. t = [s EXCEPT !.resp = s.resp \cup {c}]
    BY <1>2 DEF Write
  <2>3. /\ t \in Heap /\ SameButResponses(s, t)
        /\ t.resp = s.resp \cup {c} /\ t.lost = s.lost
    BY <2>2 DEF Heap, SameButResponses
  <2> HIDE DEF t
  <2>4. t.resp \cup t.lost \subseteq s.resp \cup s.lost \cup {c}
    BY <2>3
  <2>5. Links(t, q)
    BY <2>1, <2>3, <2>4, ResponsesKeep
  <2> QED BY <2>3, <2>5 DEF t, SameButResponses
<1> QED BY <1>1, <1>2

-------------------------------------------------------------------------------
(* The queue. *)

\* Popping the front: what is left is part of what was there, and a deletion or a
\* freeServer that was at the front is not in it again.
LEMMA PopKeeps ==
  ASSUME NEW q \in Seq(Tasks), q # <<>>, TasksOnce(q)
  PROVE  /\ Head(q) \in Range(q) /\ Tail(q) \in Seq(Tasks) /\ TasksOnce(Tail(q))
         /\ Range(Tail(q)) \subseteq Range(q)
         /\ Head(q).op \in Once => Head(q) \notin Range(Tail(q))
<1> DEFINE p == Tail(q)
<1>1. /\ Head(q) \in Tasks /\ p \in Seq(Tasks) /\ Head(q) = q[1]
      /\ Len(q) \in Nat \ {0} /\ Len(p) = Len(q) - 1
      /\ \A i \in 1..Len(p) : p[i] = q[i + 1]
      /\ Range(q) = {Head(q)} \cup Range(p)
  BY TailRange
<1>2. DOMAIN q = 1..Len(q) /\ DOMAIN p = 1..Len(p)
  BY <1>1, LenProperties
<1> HIDE DEF p
<1>3. TasksOnce(p)
  <2> SUFFICES ASSUME NEW i \in DOMAIN p, NEW j \in DOMAIN p, p[i] = p[j], p[i].op \in Once
               PROVE  i = j
    BY DEF TasksOnce
  <2>1. i + 1 \in DOMAIN q /\ j + 1 \in DOMAIN q /\ q[i + 1] = q[j + 1] /\ q[i + 1].op \in Once
    BY <1>1, <1>2
  <2>2. i + 1 = j + 1
    BY <2>1 DEF TasksOnce
  <2> QED BY <1>1, <1>2, <2>2
<1>4. ASSUME Head(q).op \in Once, Head(q) \in Range(p) PROVE FALSE
  <2>1. PICK i \in 1..Len(p) : p[i] = Head(q)
    BY <1>1, <1>4, InRange
  <2>2. i + 1 \in DOMAIN q /\ 1 \in DOMAIN q /\ q[i + 1] = q[1] /\ q[1].op \in Once
    BY <1>1, <1>2, <1>4, <2>1
  <2>3. i + 1 = 1
    BY <2>2 DEF TasksOnce
  <2> QED BY <1>1, <2>3
<1> QED BY <1>1, <1>3, <1>4 DEF p

\* Pushing a task that is not a second deletion or freeServer.
LEMMA PushKeeps ==
  ASSUME NEW q \in Seq(Tasks), NEW t \in Tasks, TasksOnce(q), t.op \in Once => t \notin Range(q)
  PROVE  /\ Append(q, t) \in Seq(Tasks) /\ TasksOnce(Append(q, t))
         /\ Range(Append(q, t)) = Range(q) \cup {t}
<1> DEFINE p == Append(q, t)
<1>1. /\ p \in Seq(Tasks) /\ Len(q) \in Nat /\ Len(p) = Len(q) + 1
      /\ \A i \in 1..Len(q) : p[i] = q[i]
      /\ p[Len(q) + 1] = t /\ Range(p) = Range(q) \cup {t}
  BY AppendProperties, LenProperties, AppendRange
<1>2. DOMAIN q = 1..Len(q) /\ DOMAIN p = 1..Len(q) + 1
  BY <1>1, LenProperties
<1>3. t.op \in Once => \A i \in 1..Len(q) : q[i] # t
  BY InRange
<1> HIDE DEF p
<1>4. TasksOnce(p)
  <2> SUFFICES ASSUME NEW i \in DOMAIN p, NEW j \in DOMAIN p, p[i] = p[j], p[i].op \in Once
               PROVE  i = j
    BY DEF TasksOnce
  <2>1. CASE i \in 1..Len(q) /\ j \in 1..Len(q)
    BY <1>1, <1>2, <2>1 DEF TasksOnce
  <2>2. CASE ~(i \in 1..Len(q) /\ j \in 1..Len(q))
    BY <1>1, <1>2, <1>3, <2>2
  <2> QED BY <2>1, <2>2
<1> QED BY <1>1, <1>4 DEF p

\* A pushed task that holds an object keeps the rest as it is.
LEMMA LinksPush ==
  ASSUME NEW s, NEW q, NEW p, NEW t, Links(s, q), TaskValid(s, t), Range(p) = Range(q) \cup {t}
  PROVE  Links(s, p)
BY DEF Links

LEMMA LinksPop ==
  ASSUME NEW s, NEW q, NEW p, Links(s, q), Range(p) \subseteq Range(q)
  PROVE  Links(s, p)
BY DEF Links

-------------------------------------------------------------------------------
(* The background thread. *)

\* A step that leaves `main' alone and the loop at rest, and changes the Socket
\* at most as DropSock does.
LEMMA QuietStep ==
  ASSUME IInv, h' \in Heap, bgq' \in Seq(Tasks), IsInjective(h'.vec), Links(h', bgq'),
         TasksOnce(bgq'), Range(bgq') \subseteq Range(bgq), SockKept(h, h'),
         h.vec = <<>> => h'.vec = <<>>,
         loop = 0, loop' = loop, main' = main
  PROVE  IInv'
<1>1. TypeOK'
  BY DEF IInv, TypeOK
<1>2. Listener'
  BY DEF IInv, Listener, SockKept
<1> QED BY <1>1, <1>2 DEF IInv

\* on_request
LEMMA OnRequestStep ==
  ASSUME IInv, NEW c \in Conn, OnRequest(c)
  PROVE  IInv'
<1>1. PICK handle \in {"open", "idle"} :
        h' = [h EXCEPT !.req[c] = [obj |-> "alive", handle |-> handle, wsc |-> TRUE],
                       !.wsc[c] = "alive", !.vec = Append(h.vec, c)]
  BY DEF OnRequest
<1>2. /\ loop = 0 /\ h.sock.handle = "open" /\ h.req[c].obj = "none"
      /\ bgq' = bgq /\ loop' = loop /\ main' = main
  BY DEF OnRequest, Idle
<1> DEFINE new == [obj |-> "alive", handle |-> handle, wsc |-> TRUE]
<1>3. /\ h'.vec = Append(h.vec, c) /\ h'.req = [h.req EXCEPT ![c] = new]
      /\ h'.wsc = [h.wsc EXCEPT ![c] = "alive"] /\ h'.sock = h.sock
      /\ h'.mainReq = h.mainReq /\ h'.mainWsc = h.mainWsc /\ h'.xptr = h.xptr
      /\ h'.resp = h.resp /\ h'.lost = h.lost
  BY <1>1 DEF IInv, TypeOK, Heap
<1>4. new \in Request /\ new.obj = "alive" /\ new.handle = handle /\ new.wsc
  BY Zenon DEF Request
<1> HIDE DEF new
<1>5. /\ h.vec \in Seq(Conn) /\ h.req \in [Conn -> Request] /\ IsInjective(h.vec)
      /\ h \in Heap /\ \A d \in Conn : Linked(h, d)
  BY DEF IInv, TypeOK, Heap, Links
<1>6. c \notin Range(h.vec) /\ ~Exists(h.wsc[c])
  BY <1>2, <1>5 DEF Linked, Exists
<1>7. /\ h'.vec \in Seq(Conn) /\ Range(h'.vec) = Range(h.vec) \cup {c} /\ IsInjective(h'.vec)
  BY <1>3, <1>5, <1>6, AppendRange
<1>8. /\ h'.req \in [Conn -> Request] /\ h'.req[c] = new
      /\ \A d \in Conn \ {c} : h'.req[d] = h.req[d] /\ h'.wsc[d] = h.wsc[d]
      /\ h'.wsc[c] = "alive"
  BY <1>3, <1>4, <1>5 DEF Heap
<1>9. h' \in Heap
  <2>1. h' = [vec |-> h'.vec, sock |-> h'.sock, req |-> h'.req, wsc |-> h'.wsc,
              resp |-> h'.resp, lost |-> h'.lost,
              mainReq |-> h'.mainReq, mainWsc |-> h'.mainWsc, xptr |-> h'.xptr]
    BY <1>1, <1>5 DEF Heap
  <2>2. h'.wsc \in [Conn -> {"none", "alive", "queued", "deleted"}]
    BY <1>3, <1>5 DEF Heap
  <2> QED BY <1>3, <1>5, <1>7, <1>8, <2>1, <2>2 DEF Heap
<1>10. \A d \in Conn : Linked(h', d)
  <2>1. Linked(h', c)
    BY <1>4, <1>7, <1>8 DEF Linked
  <2>2. ASSUME NEW d \in Conn \ {c} PROVE Linked(h', d)
    BY <1>3, <1>5, <1>7, <1>8 DEF Linked
  <2> QED BY <2>1, <2>2
<1>11. ASSUME NEW t \in Range(bgq) PROVE TaskValid(h', t)
  <2>1. TaskValid(h, t) /\ (t.op # "freeServer" => t.c \in Conn)
    BY TaskFacts DEF IInv, Links, TypeOK
  <2>2. t.op \in {"task", "wsTask", "dropXptr", "deleteReq", "deleteWsc"} => t.c # c
    BY <1>2, <1>6, <2>1 DEF TaskValid, Exists
  <2> QED BY <1>8, <2>1, <2>2 DEF TaskValid
<1>12. TypeOK' /\ Links(h', bgq') /\ TasksOnce(bgq')
  BY <1>2, <1>9, <1>10, <1>11 DEF IInv, TypeOK, Links
<1>13. Listener'
  BY <1>2, <1>3 DEF IInv, Listener
<1> QED BY <1>7, <1>12, <1>13 DEF IInv

\* InvokeLater: a handle that is open lies in objects that are alive.
LEMMA InvokeLaterStep ==
  ASSUME IInv, NEW c \in Conn, InvokeLater(c)
  PROVE  IInv'
<1>1. PICK ws \in BOOLEAN :
        h' = [h EXCEPT !.mainReq = IF ws THEN h.mainReq ELSE h.mainReq \cup {c},
                       !.mainWsc = IF ws THEN h.mainWsc \cup {c} ELSE h.mainWsc]
  BY DEF InvokeLater
<1>2. loop = 0 /\ h.req[c].handle = "open" /\ bgq' = bgq /\ loop' = loop /\ main' = main
  BY DEF InvokeLater, Idle
<1>3. /\ h'.vec = h.vec /\ h'.req = h.req /\ h'.wsc = h.wsc /\ h'.sock = h.sock
      /\ h'.xptr = h.xptr /\ h'.resp = h.resp /\ h'.lost = h.lost
      /\ h'.mainReq \subseteq h.mainReq \cup {c} /\ h'.mainWsc \subseteq h.mainWsc \cup {c}
      /\ h' \in Heap
  <2>1. h \in Heap
    BY DEF IInv, TypeOK
  <2>2. CASE ws
    <3>1. h' = [h EXCEPT !.mainReq = h.mainReq, !.mainWsc = h.mainWsc \cup {c}]
      BY <1>1, <2>2
    <3> QED BY <2>1, <3>1 DEF Heap
  <2>3. CASE ~ws
    <3>1. h' = [h EXCEPT !.mainReq = h.mainReq \cup {c}, !.mainWsc = h.mainWsc]
      BY <1>1, <2>3
    <3> QED BY <2>1, <3>1 DEF Heap
  <2> QED BY <2>2, <2>3
<1>4. h.req[c].obj = "alive" /\ h.wsc[c] = "alive"
  BY <1>2 DEF IInv, Links, Linked, Exists
<1>5. \A d \in Conn : Linked(h', d)
  BY <1>3, <1>4 DEF IInv, Links, Linked
<1>6. \A t \in Range(bgq) : TaskValid(h', t)
  BY <1>3 DEF IInv, Links, TaskValid
<1>7. Links(h', bgq')
  BY <1>2, <1>5, <1>6 DEF Links
<1>8. /\ bgq' \in Seq(Tasks) /\ TasksOnce(bgq') /\ Range(bgq') \subseteq Range(bgq)
      /\ IsInjective(h'.vec)
  BY <1>2, <1>3 DEF IInv, TypeOK
<1> QED BY <1>2, <1>3, <1>7, <1>8, QuietStep DEF SockKept

\* ConnectionEnds
LEMMA ConnectionEndsStep ==
  ASSUME IInv, NEW c \in Conn, ConnectionEnds(c)
  PROVE  IInv'
<1>1. PICK ws \in BOOLEAN : h' = Close(h, c, ws)
  BY DEF ConnectionEnds
<1>2. loop = 0 /\ bgq' = bgq /\ loop' = loop /\ main' = main
  BY DEF ConnectionEnds, Idle
<1>3. h \in Heap /\ bgq \in Seq(Tasks) /\ IsInjective(h.vec) /\ Links(h, bgq) /\ TasksOnce(bgq)
  BY DEF IInv, TypeOK
<1>4. /\ h' \in Heap /\ Links(h', bgq) /\ IsInjective(h'.vec) /\ h'.sock = h.sock
      /\ h'.vec = RemoveFirst(h.vec, c)
  BY <1>1, <1>3, CloseKeeps
<1>5. h.vec = <<>> => h'.vec = <<>>
  BY <1>4, EmptySeq DEF RemoveFirst
<1> QED BY <1>2, <1>3, <1>4, <1>5, QuietStep DEF SockKept

\* A response is written, is through, or is lost.
LEMMA ResponseStep ==
  ASSUME IInv, NEW c \in Conn, WriteResponse(c) \/ ResponseDone(c) \/ LoseResponse(c)
  PROVE  IInv'
<1>1. /\ h \in Heap /\ bgq \in Seq(Tasks) /\ IsInjective(h.vec) /\ Links(h, bgq)
      /\ TasksOnce(bgq) /\ h.resp \in SUBSET Conn /\ h.lost \in SUBSET Conn
  BY DEF IInv, TypeOK, Heap
<1>2. loop = 0 /\ bgq' = bgq /\ loop' = loop /\ main' = main
  BY DEF WriteResponse, ResponseDone, LoseResponse, Idle
<1>3. CASE WriteResponse(c)
  <2>1. h' = Write(h, c)
    BY <1>3 DEF WriteResponse
  <2>2. h' \in Heap /\ Links(h', bgq') /\ h'.vec = h.vec /\ h'.sock = h.sock
    BY <1>1, <1>2, <2>1, WriteKeeps
  <2> QED BY <1>1, <1>2, <2>2, QuietStep DEF SockKept
<1>4. CASE ResponseDone(c)
  <2> DEFINE s == [h EXCEPT !.resp = h.resp \ {c}]
  <2>1. PICK close \in BOOLEAN, ws \in BOOLEAN :
          h' = DropReq(IF close THEN Close(s, c, ws) ELSE s, bgq, c)
    BY <1>4 DEF ResponseDone
  <2>2. h.req[c].obj = "alive"
    BY <1>1, <1>4 DEF ResponseDone, Links, Linked
  <2>3. /\ s \in Heap /\ SameButResponses(h, s)
        /\ s.resp = h.resp \ {c} /\ s.lost = h.lost
    BY <1>1 DEF Heap, SameButResponses
  <2> HIDE DEF s
  <2>4. s.resp \cup s.lost \subseteq h.resp \cup h.lost \cup {c}
    BY <2>3
  <2>5. s \in Heap /\ Links(s, bgq) /\ s.vec = h.vec /\ s.sock = h.sock
    <3>1. Links(s, bgq)
      BY <1>1, <2>2, <2>3, <2>4, ResponsesKeep
    <3> QED BY <2>3, <3>1 DEF SameButResponses
  <2> DEFINE u == IF close THEN Close(s, c, ws) ELSE s
  <2>6. u \in Heap /\ Links(u, bgq) /\ IsInjective(u.vec) /\ u.sock = h.sock
        /\ (u.vec = h.vec \/ u.vec = RemoveFirst(h.vec, c))
    <3>1. CASE close
      <4>1. IsInjective(s.vec) /\ u = Close(s, c, ws)
        BY <1>1, <2>5, <3>1
      <4> QED BY <1>1, <2>5, <4>1, CloseKeeps
    <3>2. CASE ~close
      BY <1>1, <2>5, <3>2
    <3> QED BY <3>1, <3>2
  <2>7. h' = DropReq(u, bgq, c)
    BY <2>1
  <2> HIDE DEF u
  <2>8. h' \in Heap /\ Links(h', bgq') /\ h'.vec = u.vec /\ SockKept(u, h')
    BY <1>1, <1>2, <2>6, <2>7, DropReqKeeps
  <2>9. h.vec = <<>> => h'.vec = <<>>
    BY <2>6, <2>8, EmptySeq DEF RemoveFirst
  <2> QED BY <1>1, <1>2, <2>6, <2>8, <2>9, QuietStep DEF SockKept
<1>5. CASE LoseResponse(c)
  <2>1. PICK others \in BOOLEAN :
          h' = [h EXCEPT !.lost = h.lost \cup {c},
                         !.resp = IF others THEN h.resp ELSE h.resp \ {c}]
    BY <1>5 DEF LoseResponse
  <2>2. h.req[c].obj = "alive"
    BY <1>1, <1>5 DEF LoseResponse, Links, Linked
  <2>3. /\ h' \in Heap /\ SameButResponses(h, h')
        /\ h'.lost = h.lost \cup {c} /\ h'.resp \subseteq h.resp
    <3>1. CASE others
      <4>1. h' = [h EXCEPT !.lost = h.lost \cup {c}, !.resp = h.resp]
        BY <2>1, <3>1
      <4> QED BY <1>1, <4>1 DEF Heap, SameButResponses
    <3>2. CASE ~others
      <4>1. h' = [h EXCEPT !.lost = h.lost \cup {c}, !.resp = h.resp \ {c}]
        BY <2>1, <3>2
      <4> QED BY <1>1, <4>1 DEF Heap, SameButResponses
    <3> QED BY <3>1, <3>2
  <2>4. h'.resp \cup h'.lost \subseteq h.resp \cup h.lost \cup {c}
    BY <2>3
  <2>5. h' \in Heap /\ Links(h', bgq') /\ h'.vec = h.vec /\ h'.sock = h.sock
    <3>1. Links(h', bgq)
      BY <1>1, <2>2, <2>3, <2>4, ResponsesKeep
    <3> QED BY <1>2, <2>3, <3>1 DEF SameButResponses
  <2> QED BY <1>1, <1>2, <2>5, QuietStep DEF SockKept
<1> QED BY <1>3, <1>4, <1>5

\* HttpRequest::_on_closed
LEMMA OnClosedStep ==
  ASSUME IInv, NEW c \in Conn, OnClosed(c)
  PROVE  IInv'
<1> DEFINE r == [h EXCEPT !.req[c].handle = "closed", !.req[c].wsc = FALSE]
           new == [h.req[c] EXCEPT !.handle = "closed", !.wsc = FALSE]
<1>1. /\ loop = 0 /\ h.req[c].handle = "closing" /\ h' = DropWsc(r, bgq, c)
      /\ bgq' = bgq /\ loop' = loop /\ main' = main
  BY DEF OnClosed, Idle
<1>2. /\ h \in Heap /\ bgq \in Seq(Tasks) /\ IsInjective(h.vec) /\ Links(h, bgq) /\ TasksOnce(bgq)
      /\ h.req \in [Conn -> Request] /\ h.req[c] \in Request
  BY DEF IInv, TypeOK, Heap
<1>3. /\ r.vec = h.vec /\ r.wsc = h.wsc /\ r.sock = h.sock
      /\ r.mainReq = h.mainReq /\ r.mainWsc = h.mainWsc /\ r.xptr = h.xptr
      /\ r.resp = h.resp /\ r.lost = h.lost
      /\ r.req = [h.req EXCEPT ![c] = new]
  BY <1>2 DEF Heap
<1>4. new \in Request /\ new.handle = "closed" /\ ~new.wsc /\ new.obj = h.req[c].obj
  BY <1>2 DEF Request
<1>5. r \in Heap
  <2>1. r.req \in [Conn -> Request]
    BY <1>2, <1>3, <1>4, ZenonT(60)
  <2> QED BY <1>2, <1>3, <2>1 DEF Heap
<1>6. r.req[c] = new /\ \A d \in Conn \ {c} : r.req[d] = h.req[d]
  BY <1>2, <1>3, ZenonT(60)
<1> HIDE DEF r, new
<1>7. \A d \in Conn : Linked(r, d)
  <2>1. \A d \in Conn : Linked(h, d)
    BY <1>2 DEF Links
  <2>2. Linked(r, c)
    BY <1>1, <1>3, <1>4, <1>6, <2>1 DEF Linked
  <2>3. \A d \in Conn \ {c} : Linked(r, d)
    BY <1>3, <1>6, <2>1 DEF Linked
  <2> QED BY <2>2, <2>3
<1>8. ASSUME NEW t \in Range(bgq) PROVE TaskValid(r, t)
  <2>1. TaskValid(h, t) /\ (t.op # "freeServer" => t.c \in Conn)
    BY <1>2, TaskFacts DEF Links
  <2>2. \A d \in Conn : r.req[d].obj = h.req[d].obj
    BY <1>4, <1>6
  <2> QED BY <1>3, <2>1, <2>2 DEF TaskValid
<1>9. Links(r, bgq)
  BY <1>7, <1>8 DEF Links
<1>10. h' \in Heap /\ Links(h', bgq) /\ h'.vec = h.vec /\ SockKept(r, h')
  BY <1>1, <1>2, <1>3, <1>5, <1>9, DropWscKeeps
<1>11. SockKept(h, h')
  BY <1>3, <1>10 DEF SockKept
<1> QED BY <1>1, <1>2, <1>10, <1>11, QuietStep

\* What the handlers of the queue's tasks have in common.
LEMMA FlushFacts ==
  ASSUME IInv, NEW op, Flush(op)
  PROVE  /\ loop = 0 /\ Head(bgq) \in Range(bgq) /\ Head(bgq).op = op
         /\ Head(bgq) \in Tasks /\ (op # "freeServer" => Head(bgq).c \in Conn)
         /\ bgq' \in Seq(Tasks) /\ TasksOnce(bgq') /\ Range(bgq') \subseteq Range(bgq)
         /\ op \in Once => Head(bgq) \notin Range(bgq')
         /\ h \in Heap /\ IsInjective(h.vec) /\ Links(h, bgq) /\ Links(h, bgq')
<1>1. loop = 0 /\ bgq # <<>> /\ Head(bgq).op = op /\ bgq' = Tail(bgq)
  BY DEF Flush, Idle
<1>2. /\ h \in Heap /\ IsInjective(h.vec) /\ Links(h, bgq) /\ bgq \in Seq(Tasks)
      /\ TasksOnce(bgq)
  BY DEF IInv, TypeOK
<1>3. /\ Head(bgq) \in Range(bgq) /\ bgq' \in Seq(Tasks) /\ TasksOnce(bgq')
      /\ Range(bgq') \subseteq Range(bgq)
      /\ op \in Once => Head(bgq) \notin Range(bgq')
  BY <1>1, <1>2, PopKeeps
<1>4. Links(h, bgq')
  BY <1>2, <1>3, LinksPop
<1>5. Head(bgq) \in Tasks /\ (op # "freeServer" => Head(bgq).c \in Conn)
  BY <1>1, <1>2, <1>3, TaskFacts
<1> QED BY <1>1, <1>2, <1>3, <1>4, <1>5

\* The tasks of requests and WebSockets, and R's handles that were collected.
LEMMA RunTasksStep ==
  ASSUME IInv, RunTask \/ RunWsTask \/ DropXptr
  PROVE  IInv'
<1> DEFINE c == Head(bgq).c
<1>1. /\ loop = 0 /\ c \in Conn /\ bgq' \in Seq(Tasks) /\ TasksOnce(bgq')
      /\ Range(bgq') \subseteq Range(bgq)
      /\ h \in Heap /\ IsInjective(h.vec) /\ Links(h, bgq')
  <2>1. PICK op \in {"task", "wsTask", "dropXptr"} : Flush(op)
    BY DEF RunTask, RunWsTask, DropXptr
  <2>2. op # "freeServer"
    OBVIOUS
  <2> QED BY <2>1, <2>2, FlushFacts
<1>2. loop' = loop /\ main' = main
  BY DEF RunTask, RunWsTask, DropXptr
<1>3. PICK w \in {h, Write(h, c)} : \E s :
               /\ s = w \/ \E ws \in BOOLEAN : s = Close(w, c, ws)
               /\ h' = DropReq(s, bgq', c) \/ h' = DropWsc(s, bgq', c)
  <2>1. CASE RunTask
    <3>1. PICK write \in BOOLEAN, close \in BOOLEAN, ws \in BOOLEAN :
            LET w == IF write THEN Write(h, c) ELSE h
            IN  h' = DropReq(IF close THEN Close(w, c, ws) ELSE w, bgq', c)
      BY <2>1 DEF RunTask
    <3>2. CASE close
      BY <3>1, <3>2
    <3>3. CASE ~close
      BY <3>1, <3>3
    <3> QED BY <3>2, <3>3
  <2>2. CASE RunWsTask
    <3>1. PICK close \in BOOLEAN :
            h' = DropWsc(IF close THEN Close(h, c, TRUE) ELSE h, bgq', c)
      BY <2>2 DEF RunWsTask
    <3>2. CASE close
      <4>1. TRUE \in BOOLEAN
        OBVIOUS
      <4> QED BY <3>1, <3>2, <4>1
    <3>3. CASE ~close
      BY <3>1, <3>3
    <3> QED BY <3>2, <3>3
  <2>3. CASE DropXptr
    BY <2>3 DEF DropXptr
  <2> QED BY <2>1, <2>2, <2>3
<1> HIDE DEF c
<1>3a. PICK s : /\ s = w \/ \E ws \in BOOLEAN : s = Close(w, c, ws)
                /\ h' = DropReq(s, bgq', c) \/ h' = DropWsc(s, bgq', c)
  BY <1>3
<1>4. /\ s \in Heap /\ IsInjective(s.vec) /\ Links(s, bgq') /\ s.sock = h.sock
      /\ h.vec = <<>> => s.vec = <<>>
  <2>1. w \in Heap /\ Links(w, bgq') /\ w.vec = h.vec /\ w.sock = h.sock
    BY <1>1, <1>3, WriteKeeps
  <2>2. CASE s = w
    BY <1>1, <2>1, <2>2
  <2>3. ASSUME NEW ws \in BOOLEAN, s = Close(w, c, ws)
        PROVE  /\ s \in Heap /\ IsInjective(s.vec) /\ Links(s, bgq') /\ s.sock = h.sock
               /\ s.vec = RemoveFirst(h.vec, c)
    <3>1. IsInjective(w.vec)
      BY <1>1, <2>1
    <3> QED BY <1>1, <2>1, <2>3, <3>1, CloseKeeps
  <2>4. h.vec = <<>> => RemoveFirst(h.vec, c) = <<>>
    BY EmptySeq DEF RemoveFirst
  <2>5. CASE \E ws \in BOOLEAN : s = Close(w, c, ws)
    <3>1. PICK ws \in BOOLEAN : s = Close(w, c, ws)
      BY <2>5
    <3>2. /\ s \in Heap /\ IsInjective(s.vec) /\ Links(s, bgq') /\ s.sock = h.sock
          /\ s.vec = RemoveFirst(h.vec, c)
      BY <2>3, <3>1
    <3> QED BY <2>4, <3>2
  <2> QED BY <1>3a, <2>2, <2>5
<1>5. h' \in Heap /\ Links(h', bgq') /\ h'.vec = s.vec /\ SockKept(s, h')
  BY <1>1, <1>3a, <1>4, DropReqKeeps, DropWscKeeps
<1>6. SockKept(h, h')
  BY <1>4, <1>5 DEF SockKept
<1> QED BY <1>1, <1>2, <1>4, <1>5, <1>6, QuietStep

\* auto_deleter_background<HttpRequest>
LEMMA DeleteReqStep ==
  ASSUME IInv, DeleteReq
  PROVE  IInv'
<1> DEFINE c == Head(bgq).c
           r == [h EXCEPT !.req[c].obj = "deleted"]
           new == [h.req[c] EXCEPT !.obj = "deleted"]
<1>1. /\ loop = 0 /\ c \in Conn /\ bgq' \in Seq(Tasks) /\ TasksOnce(bgq')
      /\ Head(bgq) \in Range(bgq) /\ Head(bgq).op = "deleteReq"
      /\ Head(bgq) \in Tasks
      /\ Range(bgq') \subseteq Range(bgq) /\ Head(bgq) \notin Range(bgq')
      /\ h \in Heap /\ IsInjective(h.vec) /\ Links(h, bgq) /\ Links(h, bgq')
  BY FlushFacts DEF DeleteReq, Once
<1>2. loop' = loop /\ main' = main /\ h' = DropSock(r)
  BY DEF DeleteReq
<1>3. h.req[c].obj = "queued" /\ h.req \in [Conn -> Request] /\ h.req[c] \in Request
  BY <1>1 DEF Links, TaskValid, Heap
<1>4. /\ r.vec = h.vec /\ r.wsc = h.wsc /\ r.sock = h.sock
      /\ r.mainReq = h.mainReq /\ r.mainWsc = h.mainWsc /\ r.xptr = h.xptr
      /\ r.resp = h.resp /\ r.lost = h.lost
      /\ r.req = [h.req EXCEPT ![c] = new]
  BY <1>1 DEF Heap
<1>5. new \in Request /\ new.handle = h.req[c].handle /\ new.wsc = h.req[c].wsc
  BY <1>3 DEF Request
<1>6. r \in Heap
  <2>1. r.req \in [Conn -> Request]
    <3> HIDE DEF r, new, c
    <3> QED BY <1>1, <1>3, <1>4, <1>5
  <2> QED BY <1>1, <1>4, <2>1 DEF Heap
<1>7. r.req[c] = new /\ \A d \in Conn \ {c} : r.req[d] = h.req[d]
  BY <1>1, <1>3, <1>4
<1>8. ASSUME NEW t \in Range(bgq'), t.op = "deleteReq" PROVE t.c # c
  <2>1. t = Task("deleteReq", t.c) /\ Head(bgq) = Task("deleteReq", c)
    <3>1. bgq \in Seq(Tasks)
      BY DEF IInv, TypeOK
    <3> QED BY <1>1, <1>8, <3>1, TaskFacts
  <2> QED BY <1>1, <2>1
<1> HIDE DEF r, new, c
<1>9. \A d \in Conn : Linked(r, d)
  <2>1. \A d \in Conn : Linked(h, d)
    BY <1>1 DEF Links
  <2>2. Linked(r, c)
    BY <1>1, <1>3, <1>4, <1>5, <1>7, <2>1 DEF Linked
  <2>3. \A d \in Conn \ {c} : Linked(r, d)
    BY <1>4, <1>7, <2>1 DEF Linked
  <2> QED BY <2>2, <2>3
<1>10. ASSUME NEW t \in Range(bgq') PROVE TaskValid(r, t)
  <2>1. TaskValid(h, t) /\ (t.op # "freeServer" => t.c \in Conn)
    BY <1>1, TaskFacts DEF Links
  <2>2. t.op = "task" => t.c # c
    BY <1>3, <2>1 DEF TaskValid
  <2> QED BY <1>4, <1>7, <1>8, <2>1, <2>2 DEF TaskValid
<1>11. Links(r, bgq')
  BY <1>9, <1>10 DEF Links
<1>12. h' \in Heap /\ SameLinks(r, h') /\ SockKept(r, h')
  BY <1>2, <1>6, DropSockKeeps
<1>13. Links(h', bgq') /\ h'.vec = h.vec /\ SockKept(h, h')
  <2>1. Links(h', bgq')
    BY <1>11, <1>12, SameLinksKeep
  <2> QED BY <1>4, <1>12, <2>1 DEF SameLinks, SockKept
<1> QED BY <1>1, <1>2, <1>12, <1>13, QuietStep

\* auto_deleter_background<WebSocketConnection>
LEMMA DeleteWscStep ==
  ASSUME IInv, DeleteWsc
  PROVE  IInv'
<1> DEFINE c == Head(bgq).c
           r == [h EXCEPT !.wsc[c] = "deleted"]
<1>1. /\ loop = 0 /\ c \in Conn /\ bgq' \in Seq(Tasks) /\ TasksOnce(bgq')
      /\ Head(bgq) \in Range(bgq) /\ Head(bgq).op = "deleteWsc"
      /\ Range(bgq') \subseteq Range(bgq) /\ Head(bgq) \notin Range(bgq')
      /\ h \in Heap /\ IsInjective(h.vec) /\ Links(h, bgq) /\ Links(h, bgq')
  BY FlushFacts DEF DeleteWsc, Once
<1>2. loop' = loop /\ main' = main /\ h' = DropReq(r, bgq', c)
  BY DEF DeleteWsc
<1>3. h.wsc[c] = "queued"
  BY <1>1 DEF Links, TaskValid
<1>4. /\ r.vec = h.vec /\ r.req = h.req /\ r.sock = h.sock
      /\ r.mainReq = h.mainReq /\ r.mainWsc = h.mainWsc /\ r.xptr = h.xptr
      /\ r.resp = h.resp /\ r.lost = h.lost
      /\ r.wsc = [h.wsc EXCEPT ![c] = "deleted"] /\ r \in Heap
  BY <1>1 DEF Heap
<1>5. r.wsc[c] = "deleted" /\ \A d \in Conn \ {c} : r.wsc[d] = h.wsc[d]
  BY <1>1, <1>4 DEF Heap
<1>6. ASSUME NEW t \in Range(bgq'), t.op = "deleteWsc" PROVE t.c # c
  <2>1. t = Task("deleteWsc", t.c) /\ Head(bgq) = Task("deleteWsc", c)
    <3>1. bgq \in Seq(Tasks)
      BY DEF IInv, TypeOK
    <3> QED BY <1>1, <1>6, <3>1, TaskFacts
  <2> QED BY <1>1, <2>1
<1> HIDE DEF r, c
<1>7. \A d \in Conn : Linked(r, d)
  <2>1. \A d \in Conn : Linked(h, d)
    BY <1>1 DEF Links
  <2> QED BY <1>3, <1>4, <1>5, <2>1 DEF Linked, Exists
<1>8. ASSUME NEW t \in Range(bgq') PROVE TaskValid(r, t)
  <2>1. TaskValid(h, t) /\ (t.op # "freeServer" => t.c \in Conn)
    BY <1>1, TaskFacts DEF Links
  <2>2. t.op \in {"wsTask", "dropXptr"} => t.c # c
    BY <1>3, <2>1 DEF TaskValid
  <2> QED BY <1>4, <1>5, <1>6, <2>1, <2>2 DEF TaskValid
<1>9. Links(r, bgq')
  BY <1>7, <1>8 DEF Links
<1>10. h' \in Heap /\ Links(h', bgq') /\ h'.vec = h.vec /\ SockKept(h, h')
  BY <1>1, <1>2, <1>4, <1>9, DropReqKeeps DEF SockKept
<1> QED BY <1>1, <1>2, <1>10, QuietStep

\* The loop of Socket::close, from freeServer to the close of the listener.
LEMMA SocketCloseStep ==
  ASSUME IInv, FreeServer \/ CloseConnection
  PROVE  IInv'
<1>1. ASSUME NEW s \in Heap
      PROVE  /\ CloseListener(s) \in Heap /\ SameLinks(s, CloseListener(s))
             /\ CloseListener(s).sock.handle = "closing"
             /\ CloseListener(s).sock.obj = s.sock.obj
  BY DEF CloseListener, Heap, SameLinks
<1>2. CASE FreeServer
  <2>1. /\ loop = 0 /\ bgq' \in Seq(Tasks) /\ TasksOnce(bgq')
        /\ Head(bgq) \in Range(bgq) /\ Head(bgq).op = "freeServer" /\ Head(bgq) \in Tasks
        /\ Range(bgq') \subseteq Range(bgq) /\ Head(bgq) \notin Range(bgq')
        /\ h \in Heap /\ IsInjective(h.vec) /\ Links(h, bgq')
    BY <1>2, FlushFacts DEF FreeServer, Once
  <2>2. ~main.running /\ h.sock.handle = "open" /\ h.sock.obj = "alive"
    BY <2>1 DEF IInv, Listener
  <2>3. \A t \in Range(bgq') : t.op # "freeServer"
    <3> SUFFICES ASSUME NEW t \in Range(bgq'), t.op = "freeServer" PROVE FALSE
      OBVIOUS
    <3>1. t \in Tasks
      BY <2>1, TaskFacts
    <3>2. t = [op |-> "freeServer"] /\ Head(bgq) = [op |-> "freeServer"]
      BY <2>1, <3>1 DEF Tasks
    <3> QED BY <2>1, <3>2
  <2>4. /\ loop' = Len(h.vec) /\ main' = main
        /\ h' = IF h.vec = <<>> THEN CloseListener(h) ELSE h
    BY <1>2 DEF FreeServer
  <2>5. h.vec \in Seq(Conn) /\ Len(h.vec) \in Nat
    BY <2>1, LenProperties DEF Heap
  <2>6. /\ h' \in Heap /\ SameLinks(h, h') /\ h'.sock.obj = h.sock.obj
        /\ h'.sock.handle = IF h.vec = <<>> THEN "closing" ELSE "open"
    BY <1>1, <2>1, <2>2, <2>4 DEF SameLinks
  <2>7. Links(h', bgq')
    BY <2>1, <2>6, SameLinksKeep
  <2>8. TypeOK' /\ IsInjective(h'.vec)
    BY <2>1, <2>4, <2>5, <2>6 DEF IInv, TypeOK, SameLinks
  <2>9. Listener'
    <3>1. h.vec = <<>> => Len(h.vec) = 0
      BY EmptySeq
    <3>2. h'.vec = h.vec
      BY <2>6 DEF SameLinks
    <3> QED BY <2>2, <2>3, <2>4, <2>5, <2>6, <3>1, <3>2 DEF Listener
  <2> QED BY <2>1, <2>7, <2>8, <2>9 DEF IInv
<1>3. CASE CloseConnection
  <2> DEFINE c == h.vec[loop]
  <2>1. PICK ws \in BOOLEAN :
          h' = IF loop = 1 THEN CloseListener(Close(h, c, ws)) ELSE Close(h, c, ws)
    BY <1>3 DEF CloseConnection
  <2>2. loop > 0 /\ loop' = loop - 1 /\ bgq' = bgq /\ main' = main
    BY <1>3 DEF CloseConnection
  <2>3. /\ h \in Heap /\ bgq \in Seq(Tasks) /\ IsInjective(h.vec) /\ Links(h, bgq)
        /\ TasksOnce(bgq) /\ loop \in Nat
    BY DEF IInv, TypeOK
  <2>4. /\ loop = Len(h.vec) /\ h.sock.handle = "open" /\ h.sock.obj = "alive"
        /\ ~main.running /\ \A t \in Range(bgq) : t.op # "freeServer"
    BY <2>2 DEF IInv, Listener
  <2>5. h.vec \in Seq(Conn) /\ c \in Conn /\ c \in Range(h.vec)
    <3>1. h.vec \in Seq(Conn)
      BY <2>3 DEF Heap
    <3>2. loop \in 1..Len(h.vec)
      BY <2>2, <2>3, <2>4
    <3> QED BY <3>1, <3>2, ElementOfSeq, InRange
  <2> DEFINE s == Close(h, c, ws)
  <2>6. /\ s \in Heap /\ Links(s, bgq) /\ IsInjective(s.vec) /\ s.sock = h.sock
        /\ s.vec = RemoveFirst(h.vec, c)
    BY <2>3, <2>5, CloseKeeps
  <2>7. s.vec \in Seq(Conn) /\ Len(s.vec) = loop - 1
    BY <2>3, <2>4, <2>5, <2>6, RemoveFirstRange
  <2> HIDE DEF s
  <2>8. /\ h' \in Heap /\ SameLinks(s, h') /\ h'.sock.obj = "alive"
        /\ h'.sock.handle = IF loop = 1 THEN "closing" ELSE "open"
    BY <1>1, <2>1, <2>4, <2>6 DEF SameLinks, s
  <2>9. Links(h', bgq') /\ IsInjective(h'.vec) /\ h'.vec = s.vec
    <3>1. Links(h', bgq)
      BY <2>6, <2>8, SameLinksKeep
    <3> QED BY <2>2, <2>6, <2>8, <3>1 DEF SameLinks
  <2>10. TypeOK'
    BY <2>2, <2>3, <2>8 DEF IInv, TypeOK
  <2>11. Listener'
    <3>1. loop = 1 => s.vec = <<>>
      BY <2>7, EmptySeq
    <3> QED BY <2>2, <2>3, <2>4, <2>7, <2>8, <2>9, <3>1 DEF Listener
  <2> QED BY <2>2, <2>3, <2>9, <2>10, <2>11 DEF IInv
<1> QED BY <1>2, <1>3

\* delete_ppsocket
LEMMA OnSocketClosedStep ==
  ASSUME IInv, OnSocketClosed
  PROVE  IInv'
<1> DEFINE s == [h EXCEPT !.sock.handle = "closed"]
<1>1. /\ loop = 0 /\ h.sock.handle = "closing" /\ h' = DropSock(s)
      /\ bgq' = bgq /\ loop' = loop /\ main' = main
  BY DEF OnSocketClosed, Idle
<1>2. h \in Heap
  BY DEF IInv, TypeOK
<1>3. /\ s \in Heap /\ SameLinks(h, s) /\ s.sock.handle = "closed"
      /\ s.sock.obj = h.sock.obj
  BY <1>2 DEF Heap, SameLinks
<1> HIDE DEF s
<1>4. h' \in Heap /\ SameLinks(s, h') /\ SockKept(s, h')
  BY <1>1, <1>3, DropSockKeeps
<1>5. SameLinks(h, h') /\ Links(h', bgq')
  <2>1. SameLinks(h, h')
    BY <1>3, <1>4 DEF SameLinks
  <2> QED BY <1>1, <2>1, SameLinksKeep DEF IInv
<1>6. TypeOK' /\ IsInjective(h'.vec) /\ TasksOnce(bgq')
  BY <1>1, <1>4, <1>5 DEF IInv, TypeOK, SameLinks
<1>7. Listener'
  <2>1. h'.vec = h.vec
    BY <1>5 DEF SameLinks
  <2>2. h.sock.obj = "alive" /\ ~main.running /\ h.vec = <<>>
        /\ \A t \in Range(bgq) : t.op # "freeServer"
    BY <1>1 DEF IInv, Listener
  <2>3. h'.sock.handle = "closed" /\ (h'.sock.obj = "alive" \/ ~main.static)
    BY <1>3, <1>4, <2>2 DEF SockKept
  <2> QED BY <1>1, <2>1, <2>2, <2>3 DEF Listener
<1> QED BY <1>5, <1>6, <1>7 DEF IInv

-------------------------------------------------------------------------------
(* The main thread. *)

\* A task that holds an object somebody holds already: PushTask, PushWsTask.
LEMMA PushStep ==
  ASSUME IInv, NEW c \in Conn, PushTask(c) \/ PushWsTask(c)
  PROVE  IInv'
<1>1. PICK t \in {Task("task", c), Task("wsTask", c)} :
        bgq' = Append(bgq, t) /\ TaskValid(h, t)
  <2>1. CASE PushTask(c)
    <3>1. c \in h.mainReq /\ bgq' = Append(bgq, Task("task", c))
      BY <2>1 DEF PushTask
    <3>2. TaskValid(h, Task("task", c))
      BY <3>1 DEF IInv, Links, Linked, TaskValid, Task
    <3> QED BY <3>1, <3>2
  <2>2. CASE PushWsTask(c)
    <3>1. c \in h.xptr /\ bgq' = Append(bgq, Task("wsTask", c))
      BY <2>2 DEF PushWsTask
    <3>2. TaskValid(h, Task("wsTask", c))
      BY <3>1 DEF IInv, Links, Linked, TaskValid, Task
    <3> QED BY <3>1, <3>2
  <2> QED BY <2>1, <2>2
<1>2. h' = h /\ loop' = loop /\ main' = main
  BY DEF PushTask, PushWsTask
<1>3. t \in Tasks /\ t.op \notin Once
  BY DEF Tasks, Task, Once
<1>4. /\ bgq' \in Seq(Tasks) /\ TasksOnce(bgq') /\ Range(bgq') = Range(bgq) \cup {t}
  BY <1>1, <1>3, PushKeeps DEF IInv, TypeOK
<1>5. Links(h', bgq')
  BY <1>1, <1>2, <1>4, LinksPush DEF IInv
<1>6. Listener'
  BY <1>2, <1>3, <1>4 DEF IInv, Listener, Once
<1> QED BY <1>2, <1>4, <1>5, <1>6 DEF IInv, TypeOK

\* The main thread gives up its copy of an HttpRequest: the last one hands the
\* deletion over.
LEMMA MainDropsReqStep ==
  ASSUME IInv, NEW c \in Conn, MainDropsReq(c)
  PROVE  IInv'
<1> DEFINE s == [h EXCEPT !.mainReq = h.mainReq \ {c}]
           r == [s EXCEPT !.req[c].obj = "queued"]
           new == [h.req[c] EXCEPT !.obj = "queued"]
           t == Task("deleteReq", c)
<1>1. /\ c \in h.mainReq /\ loop' = loop /\ main' = main
      /\ IF ReqOwned(s, bgq, c) THEN h' = s /\ bgq' = bgq
                                ELSE h' = r /\ bgq' = Append(bgq, t)
  BY DEF MainDropsReq
<1>2. /\ h \in Heap /\ bgq \in Seq(Tasks) /\ IsInjective(h.vec) /\ Links(h, bgq)
      /\ TasksOnce(bgq) /\ h.req \in [Conn -> Request] /\ h.req[c] \in Request
  BY DEF IInv, TypeOK, Heap
<1>3. /\ s \in Heap /\ s.vec = h.vec /\ s.req = h.req /\ s.wsc = h.wsc /\ s.sock = h.sock
      /\ s.mainReq = h.mainReq \ {c} /\ s.mainWsc = h.mainWsc /\ s.xptr = h.xptr
      /\ s.resp = h.resp /\ s.lost = h.lost
  BY <1>2 DEF Heap
<1>4. \A d \in Conn : Linked(h, d) /\ Linked(s, d)
  BY <1>2, <1>3 DEF Links, Linked
<1>5. \A x \in Range(bgq) : TaskValid(h, x) /\ TaskValid(s, x)
  BY <1>2, <1>3 DEF Links, TaskValid
<1>6. CASE ReqOwned(s, bgq, c)
  <2>1. h' = s /\ bgq' = bgq
    BY <1>1, <1>6
  <2> HIDE DEF s
  <2>2. Links(h', bgq')
    BY <1>4, <1>5, <2>1 DEF Links
  <2>3. Listener'
    BY <1>1, <1>3, <2>1 DEF IInv, Listener
  <2> QED BY <1>1, <1>2, <1>3, <2>1, <2>2, <2>3 DEF IInv, TypeOK
<1>7. CASE ~ReqOwned(s, bgq, c)
  <2>1. h' = r /\ bgq' = Append(bgq, t)
    BY <1>1, <1>7
  <2>2. /\ r.vec = h.vec /\ r.wsc = h.wsc /\ r.sock = h.sock
        /\ r.mainReq = h.mainReq \ {c} /\ r.mainWsc = h.mainWsc /\ r.xptr = h.xptr
        /\ r.resp = h.resp /\ r.lost = h.lost
        /\ r.req = [h.req EXCEPT ![c] = new]
    BY <1>3 DEF Heap
  <2>3. /\ new \in Request /\ new.obj = "queued" /\ new.handle = h.req[c].handle
        /\ new.wsc = h.req[c].wsc
    BY <1>2 DEF Request
  <2>4. r \in Heap
    <3>1. r.req \in [Conn -> Request]
      BY <1>2, <2>2, <2>3
    <3> HIDE DEF s
    <3> QED BY <1>3, <2>2, <3>1 DEF Heap
  <2>5. r.req[c] = new /\ \A d \in Conn \ {c} : r.req[d] = h.req[d]
    BY <1>2, <2>2
  <2>6. /\ c \notin Range(h.vec) /\ ~Exists(h.wsc[c]) /\ ~Queued(bgq, "task", c)
        /\ c \notin h.resp \cup h.lost
    BY <1>3, <1>7 DEF ReqOwned
  <2>7. t \in Tasks /\ t.op = "deleteReq" /\ t.c = c
    BY DEF Task, Tasks
  <2> HIDE DEF s, r, new
  <2>8. h.req[c].obj = "alive"
    BY <1>1, <1>4 DEF Linked
  <2>9. t \notin Range(bgq)
    BY <1>5, <2>7, <2>8 DEF TaskValid
  <2>10. \A d \in Conn : Linked(r, d)
    <3>1. Linked(r, c)
      BY <1>4, <2>2, <2>3, <2>5, <2>6 DEF Linked
    <3>2. \A d \in Conn \ {c} : Linked(r, d)
      BY <1>4, <2>2, <2>5 DEF Linked
    <3> QED BY <3>1, <3>2
  <2>11. ASSUME NEW x \in Range(bgq) PROVE TaskValid(r, x)
    <3>1. x.op # "freeServer" => x.c \in Conn /\ x = Task(x.op, x.c)
      BY <1>2, TaskFacts
    <3>2. x.op \in {"task", "deleteReq"} => x.c # c
      BY <1>5, <2>6, <2>8, <3>1 DEF TaskValid, Queued
    <3> QED BY <1>5, <2>2, <2>5, <3>1, <3>2 DEF TaskValid
  <2>12. TaskValid(r, t)
    BY <2>3, <2>5, <2>7 DEF TaskValid
  <2> HIDE DEF t
  <2>13. bgq' \in Seq(Tasks) /\ TasksOnce(bgq') /\ Range(bgq') = Range(bgq) \cup {t}
    BY <1>2, <2>1, <2>7, <2>9, PushKeeps
  <2>14. Links(h', bgq')
    BY <2>1, <2>10, <2>11, <2>12, <2>13 DEF Links
  <2>15. Listener'
    BY <1>1, <2>1, <2>2, <2>7, <2>13 DEF IInv, Listener
  <2>16. TypeOK' /\ IsInjective(h'.vec)
    BY <1>1, <1>2, <2>1, <2>2, <2>4, <2>13 DEF IInv, TypeOK
  <2> QED BY <2>13, <2>14, <2>15, <2>16 DEF IInv
<1> QED BY <1>6, <1>7

\* The same for a WebSocketConnection, which keeps its HttpRequest until it is
\* deleted.
LEMMA MainDropsWscStep ==
  ASSUME IInv, NEW c \in Conn, MainDropsWsc(c)
  PROVE  IInv'
<1> DEFINE s == [h EXCEPT !.mainWsc = h.mainWsc \ {c}]
           r == [s EXCEPT !.wsc[c] = "queued"]
           t == Task("deleteWsc", c)
<1>1. /\ c \in h.mainWsc /\ loop' = loop /\ main' = main
      /\ IF WscOwned(s, bgq, c) THEN h' = s /\ bgq' = bgq
                                ELSE h' = r /\ bgq' = Append(bgq, t)
  BY DEF MainDropsWsc
<1>2. /\ h \in Heap /\ bgq \in Seq(Tasks) /\ IsInjective(h.vec) /\ Links(h, bgq)
      /\ TasksOnce(bgq)
  BY DEF IInv, TypeOK
<1>3. /\ s \in Heap /\ s.vec = h.vec /\ s.req = h.req /\ s.wsc = h.wsc /\ s.sock = h.sock
      /\ s.mainWsc = h.mainWsc \ {c} /\ s.mainReq = h.mainReq /\ s.xptr = h.xptr
      /\ s.resp = h.resp /\ s.lost = h.lost
  BY <1>2 DEF Heap
<1>4. \A d \in Conn : Linked(h, d) /\ Linked(s, d)
  BY <1>2, <1>3 DEF Links, Linked
<1>5. \A x \in Range(bgq) : TaskValid(h, x) /\ TaskValid(s, x)
  BY <1>2, <1>3 DEF Links, TaskValid
<1>6. CASE WscOwned(s, bgq, c)
  <2>1. h' = s /\ bgq' = bgq
    BY <1>1, <1>6
  <2> HIDE DEF s
  <2>2. Links(h', bgq')
    BY <1>4, <1>5, <2>1 DEF Links
  <2>3. Listener'
    BY <1>1, <1>3, <2>1 DEF IInv, Listener
  <2> QED BY <1>1, <1>2, <1>3, <2>1, <2>2, <2>3 DEF IInv, TypeOK
<1>7. CASE ~WscOwned(s, bgq, c)
  <2>1. h' = r /\ bgq' = Append(bgq, t)
    BY <1>1, <1>7
  <2>2. /\ r.vec = h.vec /\ r.req = h.req /\ r.sock = h.sock /\ r \in Heap
        /\ r.mainReq = h.mainReq /\ r.mainWsc = h.mainWsc \ {c} /\ r.xptr = h.xptr
        /\ r.resp = h.resp /\ r.lost = h.lost
        /\ r.wsc = [h.wsc EXCEPT ![c] = "queued"]
    BY <1>3 DEF Heap
  <2>3. r.wsc[c] = "queued" /\ \A d \in Conn \ {c} : r.wsc[d] = h.wsc[d]
    BY <1>2, <2>2 DEF Heap
  <2>4. /\ ~h.req[c].wsc /\ c \notin h.xptr
        /\ ~Queued(bgq, "dropXptr", c) /\ ~Queued(bgq, "wsTask", c)
    BY <1>3, <1>7 DEF WscOwned
  <2>5. t \in Tasks /\ t.op = "deleteWsc" /\ t.c = c
    BY DEF Task, Tasks
  <2> HIDE DEF s, r
  <2>6. h.wsc[c] = "alive"
    BY <1>1, <1>4 DEF Linked
  <2>7. t \notin Range(bgq)
    BY <1>5, <2>5, <2>6 DEF TaskValid
  <2>8. \A d \in Conn : Linked(r, d)
    <3>1. Linked(r, c)
      BY <1>4, <2>2, <2>3, <2>4, <2>6 DEF Linked, Exists
    <3>2. \A d \in Conn \ {c} : Linked(r, d)
      BY <1>4, <2>2, <2>3 DEF Linked
    <3> QED BY <3>1, <3>2
  <2>9. ASSUME NEW x \in Range(bgq) PROVE TaskValid(r, x)
    <3>1. x.op # "freeServer" => x.c \in Conn /\ x = Task(x.op, x.c)
      BY <1>2, TaskFacts
    <3>2. x.op \in {"wsTask", "dropXptr", "deleteWsc"} => x.c # c
      BY <1>5, <2>4, <2>6, <3>1 DEF TaskValid, Queued
    <3> QED BY <1>5, <2>2, <2>3, <3>1, <3>2 DEF TaskValid
  <2>10. TaskValid(r, t)
    BY <2>3, <2>5 DEF TaskValid
  <2> HIDE DEF t
  <2>11. bgq' \in Seq(Tasks) /\ TasksOnce(bgq') /\ Range(bgq') = Range(bgq) \cup {t}
    BY <1>2, <2>1, <2>5, <2>7, PushKeeps
  <2>12. Links(h', bgq')
    BY <2>1, <2>8, <2>9, <2>10, <2>11 DEF Links
  <2>13. Listener'
    BY <1>1, <2>1, <2>2, <2>5, <2>11 DEF IInv, Listener
  <2>14. TypeOK' /\ IsInjective(h'.vec)
    BY <1>1, <1>2, <2>1, <2>2, <2>11 DEF IInv, TypeOK
  <2> QED BY <2>11, <2>12, <2>13, <2>14 DEF IInv
<1> QED BY <1>6, <1>7

\* R gets a handle, from a copy in hand or by raising the count, or one of its
\* handles is collected.
LEMMA HandleStep ==
  ASSUME IInv, NEW c \in Conn, Externalize(c) \/ CopyWsc(c) \/ CountWsc(c) \/ CollectHandle(c)
  PROVE  IInv'
<1>1. /\ h \in Heap /\ bgq \in Seq(Tasks) /\ IsInjective(h.vec) /\ Links(h, bgq)
      /\ TasksOnce(bgq)
      /\ main \in [running : BOOLEAN, static : BOOLEAN, copying : SUBSET Conn, wild : BOOLEAN]
  BY DEF IInv, TypeOK
<1>2. ASSUME NEW X \in SUBSET Conn, NEW q, h' = [h EXCEPT !.xptr = X], X \subseteq h.xptr \cup {c},
             c \in X => h.wsc[c] = "alive"
      PROVE  /\ h' \in Heap /\ h'.vec = h.vec /\ h'.sock = h.sock /\ h'.wsc = h.wsc
             /\ Links(h, q) => Links(h', q)
  <2>1. /\ h' \in Heap /\ h'.vec = h.vec /\ h'.req = h.req /\ h'.wsc = h.wsc /\ h'.sock = h.sock
        /\ h'.mainWsc = h.mainWsc /\ h'.mainReq = h.mainReq /\ h'.xptr = X
        /\ h'.resp = h.resp /\ h'.lost = h.lost
    BY <1>1, <1>2 DEF Heap
  <2>2. ASSUME Links(h, q) PROVE Links(h', q)
    <3>1. \A d \in Conn : Linked(h', d)
      BY <1>2, <2>1, <2>2 DEF Links, Linked
    <3>2. \A t \in Range(q) : TaskValid(h', t)
      BY <2>1, <2>2 DEF Links, TaskValid
    <3> QED BY <3>1, <3>2 DEF Links
  <2> QED BY <2>1, <2>2
<1>3. CASE Externalize(c)
  <2>1. /\ c \in h.mainWsc /\ h' = [h EXCEPT !.xptr = h.xptr \cup {c}]
        /\ bgq' = bgq /\ loop' = loop /\ main' = main
    BY <1>3 DEF Externalize
  <2>2. h.wsc[c] = "alive" /\ h.xptr \cup {c} \in SUBSET Conn
    BY <1>1, <2>1 DEF Links, Linked, Heap
  <2>3. h' \in Heap /\ h'.vec = h.vec /\ h'.sock = h.sock /\ Links(h', bgq')
    BY <1>1, <1>2, <2>1, <2>2
  <2>4. Listener'
    BY <2>1, <2>3 DEF IInv, Listener
  <2> QED BY <1>1, <2>1, <2>3, <2>4 DEF IInv, TypeOK
<1>4. CASE CopyWsc(c)
  <2>1. main' = [main EXCEPT !.copying = {c}] /\ h' = h /\ bgq' = bgq /\ loop' = loop
    BY <1>4 DEF CopyWsc
  <2>2. /\ main' \in [running : BOOLEAN, static : BOOLEAN, copying : SUBSET Conn, wild : BOOLEAN]
        /\ main'.running = main.running /\ main'.static = main.static
    BY <1>1, <2>1
  <2>3. Listener'
    BY <2>1, <2>2 DEF IInv, Listener
  <2> QED BY <1>1, <2>1, <2>2, <2>3 DEF IInv, TypeOK
<1>5. CASE CountWsc(c)
  <2>1. /\ main' = [main EXCEPT !.copying = {}, !.wild = main.wild \/ h.wsc[c] # "alive"]
        /\ h' = IF h.wsc[c] = "alive" THEN [h EXCEPT !.xptr = h.xptr \cup {c}] ELSE h
        /\ bgq' = bgq /\ loop' = loop
    BY <1>5 DEF CountWsc
  <2>2. /\ main' \in [running : BOOLEAN, static : BOOLEAN, copying : SUBSET Conn, wild : BOOLEAN]
        /\ main'.running = main.running /\ main'.static = main.static
    BY <1>1, <2>1
  <2>3. h' \in Heap /\ h'.vec = h.vec /\ h'.sock = h.sock /\ Links(h', bgq')
    <3>1. CASE h.wsc[c] = "alive"
      <4>1. h.xptr \cup {c} \in SUBSET Conn /\ h' = [h EXCEPT !.xptr = h.xptr \cup {c}]
        BY <1>1, <2>1, <3>1 DEF Heap
      <4> QED BY <1>1, <1>2, <2>1, <3>1, <4>1
    <3>2. CASE h.wsc[c] # "alive"
      BY <1>1, <2>1, <3>2
    <3> QED BY <3>1, <3>2
  <2>4. Listener'
    BY <2>1, <2>2, <2>3 DEF IInv, Listener
  <2> QED BY <1>1, <2>1, <2>2, <2>3, <2>4 DEF IInv, TypeOK
<1>6. CASE CollectHandle(c)
  <2> DEFINE t == Task("dropXptr", c)
  <2>1. /\ c \in h.xptr /\ h' = [h EXCEPT !.xptr = h.xptr \ {c}]
        /\ bgq' = Append(bgq, t) /\ loop' = loop /\ main' = main
    BY <1>6 DEF CollectHandle
  <2>2. t \in Tasks /\ t.op = "dropXptr" /\ t.c = c
    BY DEF Task, Tasks
  <2>3. h.wsc[c] = "alive" /\ h.xptr \ {c} \in SUBSET Conn
    BY <1>1, <2>1 DEF Links, Linked, Heap
  <2>4. TaskValid(h, t)
    BY <2>2, <2>3 DEF TaskValid
  <2> HIDE DEF t
  <2>5. bgq' \in Seq(Tasks) /\ TasksOnce(bgq') /\ Range(bgq') = Range(bgq) \cup {t}
    BY <1>1, <2>1, <2>2, PushKeeps DEF Once
  <2>6. Links(h, bgq')
    BY <1>1, <2>4, <2>5, LinksPush
  <2>7. h' \in Heap /\ h'.vec = h.vec /\ h'.sock = h.sock /\ Links(h', bgq')
    BY <1>2, <2>1, <2>3, <2>6
  <2>8. Listener'
    BY <2>1, <2>2, <2>5, <2>7 DEF IInv, Listener
  <2> QED BY <1>1, <2>1, <2>5, <2>7, <2>8 DEF IInv, TypeOK
<1> QED BY <1>3, <1>4, <1>5, <1>6

\* Server$stop, and calls that use the server's handle.
LEMMA ServerStep ==
  ASSUME IInv, StopServer \/ UseServer \/ UseServerReturns
  PROVE  IInv'
<1>1. /\ h \in Heap /\ bgq \in Seq(Tasks) /\ IsInjective(h.vec) /\ Links(h, bgq)
      /\ TasksOnce(bgq)
      /\ main \in [running : BOOLEAN, static : BOOLEAN, copying : SUBSET Conn, wild : BOOLEAN]
  BY DEF IInv, TypeOK
<1>2. CASE StopServer
  <2> DEFINE t == [op |-> "freeServer"]
  <2>1. /\ main.running /\ ~main.static /\ main' = [main EXCEPT !.running = FALSE]
        /\ bgq' = Append(bgq, t) /\ h' = h /\ loop' = loop
    BY <1>2 DEF StopServer, MainIdle
  <2>2. t \in Tasks /\ t.op = "freeServer"
    BY DEF Tasks
  <2>3. h.sock.handle = "open" /\ loop = 0 /\ t \notin Range(bgq)
    BY <2>1, <2>2 DEF IInv, Listener
  <2> HIDE DEF t
  <2>4. bgq' \in Seq(Tasks) /\ TasksOnce(bgq') /\ Range(bgq') = Range(bgq) \cup {t}
    BY <1>1, <2>1, <2>2, <2>3, PushKeeps
  <2>5. TaskValid(h, t)
    BY <2>2 DEF TaskValid
  <2>6. Links(h', bgq')
    BY <1>1, <2>1, <2>4, <2>5, LinksPush
  <2>7. /\ main' \in [running : BOOLEAN, static : BOOLEAN, copying : SUBSET Conn, wild : BOOLEAN]
        /\ ~main'.running /\ main'.static = main.static
    BY <1>1, <2>1
  <2>8. Listener'
    BY <2>1, <2>3, <2>4, <2>7 DEF IInv, Listener
  <2> QED BY <1>1, <2>1, <2>4, <2>6, <2>7, <2>8 DEF IInv, TypeOK
<1>3. CASE UseServer
  <2>1. /\ main.running /\ main' = [main EXCEPT !.static = TRUE]
        /\ h' = h /\ bgq' = bgq /\ loop' = loop
    BY <1>3 DEF UseServer
  <2>2. /\ main' \in [running : BOOLEAN, static : BOOLEAN, copying : SUBSET Conn, wild : BOOLEAN]
        /\ main'.running = main.running
    BY <1>1, <2>1
  <2>3. Listener'
    BY <2>1, <2>2 DEF IInv, Listener
  <2> QED BY <1>1, <2>1, <2>2, <2>3 DEF IInv, TypeOK
<1>4. CASE UseServerReturns
  <2>1. main' = [main EXCEPT !.static = FALSE] /\ h' = h /\ bgq' = bgq /\ loop' = loop
    BY <1>4 DEF UseServerReturns
  <2>2. /\ main' \in [running : BOOLEAN, static : BOOLEAN, copying : SUBSET Conn, wild : BOOLEAN]
        /\ main'.running = main.running /\ ~main'.static
    BY <1>1, <2>1
  <2>3. Listener'
    BY <2>1, <2>2 DEF IInv, Listener
  <2> QED BY <1>1, <2>1, <2>2, <2>3 DEF IInv, TypeOK
<1> QED BY <1>2, <1>3, <1>4

-------------------------------------------------------------------------------
(* The theorems. *)

LEMMA InitInvariant == Init => IInv
<1> SUFFICES ASSUME Init PROVE IInv
  OBVIOUS
<1>1. /\ <<>> \in Seq(Conn) /\ <<>> \in Seq(Tasks)
      /\ Range(<<>>) = {} /\ IsInjective(<<>>) /\ DOMAIN <<>> = {}
  BY EmptySeq DEF Range, IsInjective
<1>2. /\ h.vec = <<>> /\ h.sock = [obj |-> "alive", handle |-> "open"]
      /\ h.req = [c \in Conn |-> [obj |-> "none", handle |-> "none", wsc |-> FALSE]]
      /\ h.wsc = [c \in Conn |-> "none"] /\ h.resp = {} /\ h.lost = {}
      /\ h.mainReq = {} /\ h.mainWsc = {} /\ h.xptr = {}
      /\ bgq = <<>> /\ loop = 0
      /\ main = [running |-> TRUE, static |-> FALSE, copying |-> {}, wild |-> FALSE]
  BY DEF Init
<1>3. h = [vec |-> h.vec, sock |-> h.sock, req |-> h.req, wsc |-> h.wsc,
           resp |-> h.resp, lost |-> h.lost,
           mainReq |-> h.mainReq, mainWsc |-> h.mainWsc, xptr |-> h.xptr]
  BY DEF Init
<1>4. h.req \in [Conn -> Request]
  <2>1. [obj |-> "none", handle |-> "none", wsc |-> FALSE] \in Request
    BY Zenon DEF Request
  <2> QED BY <1>2, <2>1
<1>5. h \in Heap
  <2>1. /\ h.vec \in Seq(Conn) /\ h.wsc \in [Conn -> {"none", "alive", "queued", "deleted"}]
        /\ h.sock \in [obj : {"alive", "deleted"}, handle : {"open", "closing", "closed"}]
        /\ h.resp \in SUBSET Conn /\ h.lost \in SUBSET Conn
        /\ h.mainReq \in SUBSET Conn /\ h.mainWsc \in SUBSET Conn /\ h.xptr \in SUBSET Conn
    BY <1>1, <1>2
  <2> QED BY <1>3, <1>4, <2>1, Zenon DEF Heap
<1>6. main \in [running : BOOLEAN, static : BOOLEAN, copying : SUBSET Conn, wild : BOOLEAN]
  BY <1>2, Zenon
<1>7. TypeOK /\ IsInjective(h.vec) /\ TasksOnce(bgq)
  BY <1>1, <1>2, <1>5, <1>6 DEF TypeOK, TasksOnce
<1>8. Links(h, bgq) /\ Listener
  BY <1>1, <1>2 DEF Links, Linked, Exists, Listener
<1> QED BY <1>7, <1>8 DEF IInv

LEMMA NextInvariant == IInv /\ [Next]_vars => IInv'
<1> SUFFICES ASSUME IInv, [Next]_vars PROVE IInv'
  OBVIOUS
<1>1. CASE Background
  BY <1>1, SocketCloseStep, RunTasksStep, DeleteReqStep, DeleteWscStep, OnSocketClosedStep
     DEF Background
<1>2. CASE Main
  BY <1>2, ServerStep, PushStep, MainDropsReqStep, MainDropsWscStep, HandleStep DEF Main
<1>3. CASE \E c \in Conn : \/ OnRequest(c) \/ InvokeLater(c) \/ ConnectionEnds(c)
                           \/ WriteResponse(c) \/ ResponseDone(c) \/ LoseResponse(c)
                           \/ OnClosed(c)
  BY <1>3, OnRequestStep, InvokeLaterStep, ConnectionEndsStep, ResponseStep, OnClosedStep
<1>4. CASE UNCHANGED vars
  BY <1>4 DEF vars, IInv, TypeOK, Listener
<1> QED BY <1>1, <1>2, <1>3, <1>4 DEF Next

LEMMA Invariant == Spec => []IInv
BY InitInvariant, NextInvariant, PTL DEF Spec

\* Every variable keeps its type.
THEOREM TypeCorrect == Spec => []TypeOK
<1>1. IInv => TypeOK
  BY DEF IInv
<1> QED BY <1>1, Invariant, PTL

\* No HttpRequest, WebSocketConnection or Socket goes while a uv handle lies in
\* it or the main thread uses it, and none is deleted twice, for any number of
\* connections and tasks.
THEOREM MemorySafeHolds == Spec => []MemorySafe
<1>1. IInv => MemorySafe
  <2> SUFFICES ASSUME IInv PROVE MemorySafe
    OBVIOUS
  <2>1. \A c \in Conn : Linked(h, c)
    BY DEF IInv, Links
  <2>2. HandlesInLiveMemory /\ MainUsesLiveSocket
    BY <2>1 DEF IInv, Listener, HandlesInLiveMemory, MainUsesLiveSocket, Linked, Exists
  <2>3. ASSUME NEW c \in Conn, h.req[c].obj = "queued" PROVE ~ReqOwned(h, bgq, c)
    <3>1. ~Queued(bgq, "task", c)
      BY <2>3 DEF IInv, Links, TaskValid, Queued, Task
    <3> QED BY <2>1, <2>3, <3>1 DEF ReqOwned, Linked, Exists
  <2>4. ASSUME NEW c \in Conn, h.wsc[c] = "queued" PROVE ~WscOwned(h, bgq, c)
    <3>1. ~Queued(bgq, "dropXptr", c) /\ ~Queued(bgq, "wsTask", c)
      BY <2>4 DEF IInv, Links, TaskValid, Queued, Task
    <3> QED BY <2>1, <2>4, <3>1 DEF WscOwned, Linked
  <2>5. DeletedOnce
    BY <2>3, <2>4 DEF DeletedOnce, IInv, TasksOnce, Once
  <2> QED BY <2>2, <2>5 DEF MemorySafe
<1> QED BY <1>1, Invariant, PTL

\* The loop of Socket::close stays inside the vector, and a listening handle is
\* closed only when no connection is left open.
THEOREM StopClosesAllHolds == Spec => []StopClosesAll
<1>1. IInv => StopClosesAll
  <2> SUFFICES ASSUME IInv PROVE StopClosesAll
    OBVIOUS
  <2>1. loop <= Len(h.vec)
    <3>1. h.vec \in Seq(Conn) /\ loop \in Nat
      BY DEF IInv, TypeOK, Heap
    <3>2. Len(h.vec) \in Nat
      BY <3>1, LenProperties
    <3> QED BY <3>1, <3>2 DEF IInv, Listener
  <2>2. ASSUME h.sock.handle # "open", NEW c \in Conn PROVE h.req[c].handle \notin {"idle", "open"}
    <3>1. Range(h.vec) = {}
      <4>1. h.vec = <<>>
        BY <2>2 DEF IInv, Listener
      <4> QED BY <4>1 DEF Range
    <3> QED BY <3>1 DEF IInv, Links, Linked
  <2> QED BY <2>1, <2>2 DEF StopClosesAll
<1> QED BY <1>1, Invariant, PTL
===============================================================================
