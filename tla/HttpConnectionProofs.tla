------------------------- MODULE HttpConnectionProofs -------------------------
(***************************************************************************)
(* Proofs about HttpConnection for any shapes of requests, any number of   *)
(* requests, WebSocket data and chunks, and every application: the types,  *)
(* the wait of the parser for R, the bytes kept meanwhile, and the         *)
(* environment that R sees.                                                *)
(***************************************************************************)
EXTENDS HttpConnection, SequencesExt, SequenceTheorems, FiniteSetTheorems,
        FunctionTheorems, WellFoundedInduction, TLAPS

(* Facts about sequences that the proofs below use.                         *)

\* A nonempty set of natural numbers has a least element.
LEMMA LeastElement ==
  ASSUME NEW T, T \subseteq Nat, T # {}
  PROVE  \E x \in T : \A y \in T : x <= y
<1> DEFINE R == OpToRel(<, Nat)
<1>1. \A x, y \in Nat : <<x, y>> \in R <=> x < y
  BY DEF OpToRel
<1>2. IsWellFoundedOn(R, Nat)
  BY NatLessThanWellFounded
<1> HIDE DEF R
<1>3. PICK x \in T : \A y \in T : ~(<<y, x>> \in R)
  BY <1>2, WFMin
<1>4. ASSUME NEW y \in T PROVE x <= y
  <2>1. x \in Nat /\ y \in Nat
    OBVIOUS
  <2>2. ~(y < x)
    BY <1>1, <1>3, <2>1
  <2> QED BY <2>1, <2>2
<1> QED BY <1>4

\* A function on the first n numbers is a sequence of length n.
LEMMA FunctionIsSeq ==
  ASSUME NEW S, NEW n \in Nat, NEW f \in [1..n -> S]
  PROVE  f \in Seq(S) /\ Len(f) = n
<1>1. Seq(S) = UNION {[1..m -> S] : m \in Nat}
  BY SeqDef, Zenon
<1>2. [1..n -> S] \in {[1..m -> S] : m \in Nat}
  BY Zenon
<1>3. f \in Seq(S)
  BY <1>1, <1>2, Zenon
<1>4. Len(f) \in Nat /\ DOMAIN f = 1..Len(f) /\ DOMAIN f = 1..n
  BY <1>3, LenProperties
<1>5. 1..Len(f) = 1..n
  BY <1>4
<1> QED BY <1>3, <1>4, <1>5

\* Popping the front keeps the order and brings in nothing new.
LEMMA TailRange ==
  ASSUME NEW S, NEW s \in Seq(S), s # <<>>
  PROVE  /\ Head(s) \in S /\ Tail(s) \in Seq(S) /\ Head(s) = s[1]
         /\ Len(s) \in Nat \ {0} /\ Len(Tail(s)) = Len(s) - 1
         /\ \A i \in 1..Len(Tail(s)) : Tail(s)[i] = s[i + 1]
         /\ Range(s) = {Head(s)} \cup Range(Tail(s))
<1>1. /\ Head(s) \in S /\ Tail(s) \in Seq(S) /\ Head(s) = s[1]
      /\ Len(s) \in Nat \ {0} /\ Len(Tail(s)) = Len(s) - 1
      /\ \A i \in 1..Len(Tail(s)) : Tail(s)[i] = s[i + 1]
  BY HeadTailProperties, EmptySeq
<1>2. Range(s) = {Head(s)} \cup Range(Tail(s))
  <2> DEFINE t == Tail(s)
  <2>1. Range(s) = {s[i] : i \in 1..Len(s)} /\ Range(t) = {t[i] : i \in 1..Len(t)}
    BY <1>1, RangeEquality, ZenonT(40)
  <2> HIDE DEF t
  <2>2. ASSUME NEW x \in Range(s) PROVE x \in {Head(s)} \cup Range(t)
    <3>1. PICK i \in 1..Len(s) : s[i] = x
      BY <2>1
    <3>2. CASE i = 1
      BY <1>1, <3>1, <3>2
    <3>3. CASE i # 1
      <4>1. i - 1 \in 1..Len(t) /\ t[i - 1] = s[i]
        BY <1>1, <3>3 DEF t
      <4> QED BY <2>1, <3>1, <4>1
    <3> QED BY <3>2, <3>3
  <2>3. ASSUME NEW x \in {Head(s)} \cup Range(t) PROVE x \in Range(s)
    <3>1. CASE x = Head(s)
      BY <1>1, <2>1, <3>1
    <3>2. CASE x \in Range(t)
      <4>1. PICK i \in 1..Len(t) : t[i] = x
        BY <2>1, <3>2
      <4>2. i + 1 \in 1..Len(s) /\ s[i + 1] = x
        BY <1>1, <4>1 DEF t
      <4> QED BY <2>1, <4>2
    <3> QED BY <3>1, <3>2
  <2> QED BY <2>2, <2>3 DEF t
<1> QED BY <1>1, <1>2

(* How many elements of a queue are in a set.                               *)
CountIn(s, S) == Cardinality({i \in DOMAIN s : s[i] \in S})

\* The count is a number, and nothing is in the empty queue.
LEMMA CountType ==
  ASSUME NEW T, NEW s \in Seq(T), NEW S
  PROVE  /\ IsFiniteSet({i \in DOMAIN s : s[i] \in S})
         /\ CountIn(s, S) \in Nat
         /\ CountIn(<<>>, S) = 0
<1> DEFINE P == {i \in DOMAIN s : s[i] \in S}
<1>1. DOMAIN s = 1..Len(s) /\ Len(s) \in Nat
  BY LenProperties
<1>2. IsFiniteSet(1..Len(s))
  BY <1>1, FS_Interval
<1>3. P \in SUBSET (1..Len(s))
  BY <1>1
<1>4. IsFiniteSet(P)
  BY <1>2, <1>3, FS_Subset
<1>5. CountIn(s, S) \in Nat
  BY <1>4, FS_CardinalityType DEF CountIn
<1>6. {i \in DOMAIN <<>> : (<<>>)[i] \in S} = {}
  OBVIOUS
<1> QED BY <1>4, <1>5, <1>6, FS_EmptySet DEF CountIn

\* Two queues put together have the elements of both.
LEMMA CountConcat ==
  ASSUME NEW T, NEW s \in Seq(T), NEW t \in Seq(T), NEW S
  PROVE  CountIn(s \o t, S) = CountIn(s, S) + CountIn(t, S)
<1> DEFINE st == s \o t
           m == Len(s)
           n == Len(t)
           A == {i \in DOMAIN s : s[i] \in S}
           B == {i \in DOMAIN t : t[i] \in S}
           B2 == {i \in m + 1 .. m + n : st[i] \in S}
           C == {i \in DOMAIN st : st[i] \in S}
           f == [i \in B |-> m + i]
<1>1. /\ st \in Seq(T) /\ Len(st) = m + n /\ m \in Nat /\ n \in Nat
      /\ \A i \in 1..m + n : st[i] = IF i <= m THEN s[i] ELSE t[i - m]
      /\ DOMAIN s = 1..m /\ DOMAIN t = 1..n
  BY ConcatProperties, LenProperties
<1>2. DOMAIN st = 1..m + n
  BY <1>1, LenProperties
<1>3. IsFiniteSet(A) /\ IsFiniteSet(B) /\ IsFiniteSet(C)
  BY <1>1, CountType
<1> HIDE DEF st, m, n
<1>4. C = A \cup B2 /\ A \cap B2 = {}
  BY <1>1, <1>2
<1>5. f \in Bijection(B, B2)
  <2>1. \A i \in B : m + i \in B2
    BY <1>1
  <2>2. f \in [B -> B2]
    BY <2>1
  <2>3. \A i, j \in B : f[i] = f[j] => i = j
    BY <1>1
  <2>4. ASSUME NEW k \in B2 PROVE \E i \in B : f[i] = k
    <3>1. k - m \in B /\ f[k - m] = k
      BY <1>1
    <3> QED BY <3>1
  <2> HIDE DEF f
  <2> QED BY <2>2, <2>3, <2>4, Fun_IsBij
<1>6. IsFiniteSet(B2) /\ Cardinality(B2) = Cardinality(B)
  BY <1>3, <1>5, FS_Bijection DEF ExistsBijection
<1> HIDE DEF A, B, B2, C, f
<1>7. Cardinality(C) = Cardinality(A) + Cardinality(B2) - Cardinality(A \cap B2)
  BY <1>3, <1>4, <1>6, FS_Union
<1>8. Cardinality(A \cap B2) = 0 /\ Cardinality(A) \in Nat /\ Cardinality(B) \in Nat
  BY <1>3, <1>4, FS_EmptySet, FS_CardinalityType
<1>9. Cardinality(C) = Cardinality(A) + Cardinality(B)
  BY <1>6, <1>7, <1>8
<1> QED BY <1>9 DEF A, B, C, st, CountIn

\* An element that is appended counts if it is in the set.
LEMMA CountAppend ==
  ASSUME NEW T, NEW s \in Seq(T), NEW e \in T, NEW S
  PROVE  CountIn(Append(s, e), S) = CountIn(s, S) + IF e \in S THEN 1 ELSE 0
<1> DEFINE one == <<e>>
<1>1. one \in Seq(T) /\ Append(s, e) = s \o one
  BY AppendIsConcat
<1>2. CountIn(one, S) = IF e \in S THEN 1 ELSE 0
  <2>1. {i \in DOMAIN one : one[i] \in S} = IF e \in S THEN {1} ELSE {}
    OBVIOUS
  <2> QED BY <2>1, FS_EmptySet, FS_Singleton DEF CountIn
<1> HIDE DEF one
<1>3. CountIn(s \o one, S) = CountIn(s, S) + CountIn(one, S)
  BY <1>1, CountConcat
<1> QED BY <1>1, <1>2, <1>3

\* An element that is taken from the front no longer counts.
LEMMA CountTail ==
  ASSUME NEW T, NEW s \in Seq(T), s # <<>>, NEW S
  PROVE  CountIn(s, S) = CountIn(Tail(s), S) + IF Head(s) \in S THEN 1 ELSE 0
<1> DEFINE h == Head(s)
           t == Tail(s)
           none == <<>>
           one == Append(none, h)
<1>1. h \in T /\ t \in Seq(T) /\ s = <<h>> \o t
  BY HeadTailProperties
<1>2. none \in Seq(T) /\ CountIn(none, S) = 0 /\ CountIn(t, S) \in Nat
  <2>1. CountIn(<<>>, S) = 0
    BY CountType, Zenon
  <2>2. CountIn(t, S) \in Nat
    BY <1>1, CountType, Zenon
  <2>3. none \in Seq(T)
    OBVIOUS
  <2> QED BY <2>1, <2>2, <2>3
<1>3. one \in Seq(T) /\ s = one \o t
  BY <1>1
<1> HIDE DEF h, t, none
<1>4. CountIn(one, S) = CountIn(none, S) + IF h \in S THEN 1 ELSE 0
  BY <1>1, <1>2, CountAppend
<1> HIDE DEF one
<1>5. CountIn(one \o t, S) = CountIn(one, S) + CountIn(t, S)
  BY <1>1, <1>3, CountConcat
<1>6. CountIn(s, S) = CountIn(t, S) + IF h \in S THEN 1 ELSE 0
  BY <1>2, <1>3, <1>4, <1>5
<1> QED BY <1>6 DEF h, t

\* Elements may be replaced by others of the same kind.
LEMMA CountAlike ==
  ASSUME NEW T, NEW s \in Seq(T), NEW t \in Seq(T), NEW S, Len(s) = Len(t),
         \A i \in 1..Len(s) : s[i] \in S <=> t[i] \in S
  PROVE  CountIn(s, S) = CountIn(t, S)
<1>1. DOMAIN s = 1..Len(s) /\ DOMAIN t = 1..Len(s)
  BY LenProperties
<1>2. {i \in DOMAIN s : s[i] \in S} = {i \in DOMAIN t : t[i] \in S}
  BY <1>1
<1> QED BY <1>2 DEF CountIn

-----------------------------------------------------------------------------
(* The inductive invariant. *)

\* Between two handlers the parser has no data; a connection that is closing, as
\* it is when it has no WebSocketConnection, is not read from; a WebSocket's
\* bytes do not go to the parser, and R hears of a WebSocket only after the
\* upgrade; a request that asks for an upgrade has been sent.
HandedOver ==
  /\ parser.exec = "no" => parser.data = <<>>
  /\ req.isClosing => ~req.reading
  /\ ~req.wsc => req.isClosing
  /\ req.protocol = "WebSockets" => parser.exec = "no" /\ parser.st # "wait"
  /\ \A i \in 1..Len(later) : later[i].op \in {"wsOpen", "wsOpened"} => req.protocol = "WebSockets"
  /\ req.isUpgrade => parser.cur # 0

\* ParserResumedOnce, without cardinalities.
Waits ==
  /\ \A i \in 1..Len(later) : later[i].op = "onHeaders" =>
       /\ parser.st = "wait" /\ later[i].k = parser.cur
       /\ \A j \in 1..Len(later) : later[j].op = "onHeaders" => j = i
       /\ \A j \in 1..Len(bgq) : bgq[j].op # "headersDone"
  /\ \A i \in 1..Len(bgq) : bgq[i].op = "headersDone" =>
       /\ parser.st = "wait" /\ bgq[i].k = parser.cur
       /\ \A j \in 1..Len(bgq) : bgq[j].op = "headersDone" => j = i
  /\ parser.st = "wait" => \/ \E i \in 1..Len(later) : later[i].op = "onHeaders"
                           \/ \E i \in 1..Len(bgq) : bgq[i].op = "headersDone"

\* Bytes that come from now on will be parsed.
Alive == req.reading /\ ~req.ignoreNewData

\* What the parser has yet to see: what was kept, what it is looking at, and
\* what is under way to a connection that takes it.
Stream == (req.requestBuffer \o parser.data) \o (IF Alive THEN client.net ELSE <<>>)

\* In the stream s every head is followed by its LF, except at the end of a
\* stream that nothing is added to.
Paired(s, alive) ==
  \A i \in 1..Len(s) : s[i].t = "H" =>
    \/ i + 1 \in 1..Len(s) /\ s[i + 1] = Token("L", s[i].k)
    \/ i = Len(s) /\ ~alive

\* The stream s begins with the LF of request k, or is at its end.
StartsAtLF(s, alive, k) == IF s = <<>> THEN ~alive ELSE s[1] = Token("L", k)

\* The parser and the stream are in step.
InStep ==
  req.protocol = "HTTP" =>
    /\ parser.st # "wait" => req.requestBuffer = <<>>
    /\ parser.st = "wait" => /\ req.requestBuffer \o parser.data # <<>>
                             /\ (req.requestBuffer \o parser.data)[1] = Token("L", parser.cur)
    /\ Paired(Stream, Alive)
    /\ parser.st = "headers" => StartsAtLF(Stream, Alive, parser.cur)

\* When R has run the first i tasks of the queue q, its environment, now that of
\* request env, is that of request k.
EnvAt(q, env, i, k) ==
  \/ k = env /\ \A j \in 1..i : q[j].op # "initEnv"
  \/ \E j \in 1..i : /\ q[j].op = "initEnv" /\ q[j].k = k
                     /\ \A n \in (j + 1)..i : q[n].op # "initEnv"

NeedsEnv == {"onHeaders", "onBodyData", "getResponse"}

\* Every task finds the environment of its request; the tasks to come will find
\* that of the request the parser stands at.
EnvOK(q, env, cur) ==
  /\ \A i \in 1..Len(q) : q[i].op \in NeedsEnv => EnvAt(q, env, i, q[i].k)
  /\ EnvAt(q, env, Len(q), cur)

Environments == EnvOK(later, app.env, parser.cur)

IInv == TypeOK /\ HandedOver /\ Waits /\ InStep /\ Environments

-------------------------------------------------------------------------------
(* Types of the operators. *)

OutWrite == [r : Nat, part : Nat, st : {"queued", "sent", "failed"}]
WsEvent == [ev : {"open", "message", "close"}, n : Nat]
AnyToken == [t : {"H", "L", "B", "W"}, k : Nat]

\* The sets of tokens and objects depend on nothing but the requests sent.
LEMMA SameShapes ==
  ASSUME client'.shape = client.shape
  PROVE  Tokens' = Tokens /\ Client' = Client /\ Request' = Request /\ Parser' = Parser
<1>1. Tokens' = Tokens
  BY DEF Tokens
<1> QED BY <1>1 DEF Client, Request, Parser

\* What a step that sends no request has to show.
LEMMA TypesKept ==
  ASSUME client'.shape = client.shape, Len(client.shape) <= MaxReq, client' \in Client,
         req' \in Request, parser' \in Parser, parser'.st # "start" => parser'.cur # 0,
         later' \in Seq(LaterTask), bgq' \in Seq(BgTask), resp' \in Seq(Response),
         app' \in Application, outq' \in Seq(OutWrite), wire' \in Seq(Nat \X Nat)
  PROVE  TypeOK'
BY SameShapes DEF TypeOK, LaterTask, BgTask, Response, Application, OutWrite, ReqNo

LEMMA Types ==
  ASSUME TypeOK
  PROVE  /\ client \in Client /\ Len(client.shape) <= MaxReq /\ client.shape \in Seq(Shapes)
         /\ Len(client.shape) \in Nat
         /\ req \in Request /\ parser \in Parser /\ (parser.st # "start" => parser.cur # 0)
         /\ later \in Seq(LaterTask) /\ bgq \in Seq(BgTask) /\ resp \in Seq(Response)
         /\ app \in Application /\ outq \in Seq(OutWrite) /\ wire \in Seq(Nat \X Nat)
         /\ MaxReq \in Nat
<1>1. client.shape \in Seq(Shapes)
  BY DEF TypeOK, Client
<1>2. Len(client.shape) \in Nat
  BY <1>1, LenProperties
<1> QED BY <1>1, <1>2, ConstantsAssumption DEF TypeOK, OutWrite

LEMMA RequestTypes ==
  ASSUME NEW c \in Request
  PROVE  /\ Closed(c) \in Request /\ RequestCompleted(c) \in Request
         /\ StopReading(c) \in Request
         /\ c.isClosing \in BOOLEAN /\ c.wsc \in BOOLEAN /\ c.reading \in BOOLEAN
         /\ c.ignoreNewData \in BOOLEAN /\ c.protocol \in {"HTTP", "WebSockets"}
         /\ c.requestBuffer \in Seq(Tokens) /\ c.isUpgrade \in BOOLEAN
BY DEF Request, Closed, RequestCompleted, StopReading

LEMMA RequestBuffer ==
  ASSUME NEW c \in Request, NEW b \in Seq(Tokens), NEW u \in BOOLEAN,
         NEW p \in {"HTTP", "WebSockets"}
  PROVE  /\ [c EXCEPT !.requestBuffer = b] \in Request
         /\ [c EXCEPT !.isUpgrade = u] \in Request
         /\ [c EXCEPT !.responseScheduled = TRUE] \in Request
         /\ [c EXCEPT !.handlingRequest = TRUE, !.responseScheduled = FALSE] \in Request
         /\ [c EXCEPT !.protocol = p, !.requestBuffer = b] \in Request
         /\ [c EXCEPT !.onClosed = TRUE, !.wsc = FALSE] \in Request
BY DEF Request

LEMMA ParserTypes ==
  ASSUME TypeOK
  PROVE  /\ parser.st \in {"start", "headers", "wait", "ready", "body", "dead"}
         /\ parser.status \in {0, 3} /\ parser.cur \in 0..Len(client.shape) /\ parser.cur \in Nat
         /\ parser.need \in Nat /\ parser.errno \in BOOLEAN
         /\ parser.exec \in {"no", "run", "return"} /\ parser.data \in Seq(Tokens)
         /\ AfterExecute \in Parser
         /\ parser.st # "start" => /\ parser.cur \in 1..Len(client.shape) /\ parser.cur \in ReqNo
                                   /\ Cur \in Shapes /\ Cur \in Shape
<1>1. /\ parser \in Parser /\ Len(client.shape) \in Nat /\ client.shape \in Seq(Shapes)
      /\ MaxReq \in Nat /\ Len(client.shape) <= MaxReq
      /\ parser.st # "start" => parser.cur # 0
  BY Types
<1>2. /\ parser.st \in {"start", "headers", "wait", "ready", "body", "dead"}
      /\ parser.status \in {0, 3} /\ parser.cur \in 0..Len(client.shape)
      /\ parser.need \in Nat /\ parser.errno \in BOOLEAN
      /\ parser.exec \in {"no", "run", "return"} /\ parser.data \in Seq(Tokens)
  BY <1>1 DEF Parser
<1>3. AfterExecute \in Parser
  <2>1. <<>> \in Seq(Tokens)
    BY EmptySeq
  <2> QED BY <1>1, <2>1 DEF Parser, AfterExecute
<1>4. ASSUME parser.st # "start"
      PROVE  /\ parser.cur \in 1..Len(client.shape) /\ parser.cur \in ReqNo
             /\ Cur \in Shapes /\ Cur \in Shape
  <2>1. parser.cur \in 1..Len(client.shape) /\ parser.cur \in ReqNo
    BY <1>1, <1>2, <1>4 DEF ReqNo
  <2>2. client.shape[parser.cur] \in Shapes
    BY <1>1, <2>1, ElementOfSeq
  <2> QED BY <2>1, <2>2, ConstantsAssumption DEF Cur
<1>5. parser.cur \in Nat
  BY <1>1, <1>2
<1> QED BY <1>2, <1>3, <1>4, <1>5

\* The parser after a step of http_parser_execute.
LEMMA ParserUpdate ==
  ASSUME NEW p \in Parser, NEW d \in Seq(Tokens),
         NEW st \in {"start", "headers", "wait", "ready", "body", "dead"},
         NEW status \in {0, 3}, NEW k \in 0..Len(client.shape), NEW n \in Nat
  PROVE  /\ [p EXCEPT !.st = st, !.cur = k, !.data = d] \in Parser
         /\ [p EXCEPT !.st = st, !.exec = "return"] \in Parser
         /\ [p EXCEPT !.exec = "return"] \in Parser
         /\ [p EXCEPT !.data = d] \in Parser
         /\ [p EXCEPT !.st = st] \in Parser
         /\ [p EXCEPT !.st = st, !.need = n] \in Parser
         /\ [p EXCEPT !.data = d, !.need = n] \in Parser
         /\ [p EXCEPT !.errno = TRUE, !.exec = "return"] \in Parser
         /\ [p EXCEPT !.errno = TRUE] \in Parser
         /\ [p EXCEPT !.st = st, !.status = status] \in Parser
         /\ Execute(p, d) \in Parser
BY DEF Parser, Execute

\* A task of the main thread that came with a request, and one of a WebSocket.
LEMMA LaterTasks ==
  ASSUME NEW k \in ReqNo, NEW n \in Nat
  PROVE  /\ [op |-> "initEnv", k |-> k] \in LaterTask
         /\ [op |-> "onHeaders", k |-> k] \in LaterTask
         /\ [op |-> "onBodyData", k |-> k] \in LaterTask
         /\ [op |-> "getResponse", k |-> k] \in LaterTask
         /\ [op |-> "wsMessage", n |-> n] \in LaterTask
BY DEF LaterTask

LEMMA WsTasks ==
  /\ [op |-> "wsOpen"] \in LaterTask /\ [op |-> "wsOpened"] \in LaterTask
  /\ [op |-> "wsClose"] \in LaterTask /\ [op |-> "close"] \in BgTask
BY DEF LaterTask, BgTask

LEMMA BgTasks ==
  ASSUME NEW k \in ReqNo, NEW r \in Nat, NEW d \in Seq(AnyToken)
  PROVE  /\ [op |-> "headersDone", k |-> k, r |-> r] \in BgTask
         /\ [op |-> "bodyError", k |-> k, r |-> r] \in BgTask
         /\ [op |-> "messageDone", k |-> k, r |-> r] \in BgTask
         /\ [op |-> "wsRead", d |-> d] \in BgTask
BY DEF BgTask, AnyToken

\* What the tasks carry.
LEMMA TaskFields ==
  /\ \A e \in LaterTask :
       /\ e.op \in {"initEnv", "onHeaders", "onBodyData", "getResponse"} => e.k \in ReqNo
       /\ e.op = "wsMessage" => e.n \in Nat
  /\ \A e \in BgTask :
       /\ e.op \in {"headersDone", "bodyError", "messageDone"} => e.k \in ReqNo /\ e.r \in Nat
       /\ e.op = "wsRead" => e.d \in Seq(AnyToken)
BY DEF LaterTask, BgTask, AnyToken

LEMMA TokenFields ==
  ASSUME TypeOK, NEW e \in Tokens
  PROVE  /\ e \in AnyToken /\ e.t \in {"H", "L", "B", "W"} /\ e.k \in Nat
         /\ e.t # "W" => e.k \in 1..Len(client.shape)
<1>1. Len(client.shape) \in Nat
  BY Types
<1> QED BY <1>1 DEF Tokens, AnyToken

LEMMA TokenSeqs ==
  ASSUME TypeOK, NEW s \in Seq(Tokens)
  PROVE  s \in Seq(AnyToken)
<1>1. Tokens \subseteq AnyToken
  BY TokenFields
<1> QED BY <1>1, SeqMonotonic

\* What a close reports, and the messages that a WebSocket's bytes give: tasks
\* of a WebSocket only.
Quiet(q) == /\ q \in Seq(LaterTask)
            /\ \A i \in 1..Len(q) : q[i].op \in {"wsMessage", "wsClose"}

LEMMA CloseTasksQuiet ==
  ASSUME NEW c
  PROVE  Quiet(CloseTasks(c))
<1>1. Quiet(<<>>)
  BY EmptySeq DEF Quiet
<1>2. Quiet(<<[op |-> "wsClose"]>>)
  BY WsTasks DEF Quiet
<1> QED BY <1>1, <1>2 DEF CloseTasks

LEMMA WsMessagesQuiet ==
  ASSUME NEW d \in Seq(AnyToken)
  PROVE  Quiet(WsMessages(d))
<1>1. Quiet(<<>>)
  BY EmptySeq DEF Quiet
<1> DEFINE q == [i \in 1..Len(d) |-> [op |-> "wsMessage", n |-> d[i].k]]
<1>2. Len(d) \in Nat /\ DOMAIN d = 1..Len(d) /\ \A i \in 1..Len(d) : d[i] \in AnyToken
  BY LenProperties, ElementOfSeq
<1>3. ASSUME NEW i \in 1..Len(d) PROVE [op |-> "wsMessage", n |-> d[i].k] \in LaterTask
  <2>1. d[i].k \in Nat
    BY <1>2 DEF AnyToken
  <2> QED BY <2>1 DEF LaterTask
<1>4. q \in [1..Len(d) -> LaterTask]
  BY <1>3
<1>5. q \in Seq(LaterTask)
  BY <1>2, <1>4, SeqDef
<1>6. DOMAIN q = 1..Len(d) /\ DOMAIN q = 1..Len(q)
  BY <1>5, LenProperties
<1>7. \A i \in 1..Len(q) : q[i].op = "wsMessage"
  BY <1>6
<1>8. WsMessages(d) = q \/ WsMessages(d) = <<>>
  BY <1>2 DEF WsMessages
<1> HIDE DEF q
<1>9. Quiet(q)
  BY <1>5, <1>7 DEF Quiet
<1> QED BY <1>1, <1>8, <1>9

LEMMA ConcatTypes ==
  ASSUME NEW S, NEW a \in Seq(S), NEW b \in Seq(S)
  PROVE  /\ a \o b \in Seq(S) /\ Len(a) \in Nat /\ Len(b) \in Nat
         /\ Len(a \o b) = Len(a) + Len(b)
         /\ \A i \in 1..Len(a) : (a \o b)[i] = a[i]
         /\ \A i \in 1..Len(b) : (a \o b)[Len(a) + i] = b[i]
<1> DEFINE r == a \o b
<1>1. /\ r \in Seq(S) /\ Len(r) = Len(a) + Len(b)
      /\ \A i \in 1..Len(a) + Len(b) : r[i] = IF i <= Len(a) THEN a[i] ELSE b[i - Len(a)]
  BY ConcatProperties
<1>2. Len(a) \in Nat /\ Len(b) \in Nat
  BY LenProperties
<1> HIDE DEF r
<1>3. ASSUME NEW i \in 1..Len(a) PROVE r[i] = a[i]
  <2>1. i \in 1..Len(a) + Len(b) /\ i <= Len(a)
    BY <1>2
  <2> QED BY <1>1, <2>1
<1>4. ASSUME NEW i \in 1..Len(b) PROVE r[Len(a) + i] = b[i]
  <2>1. Len(a) + i \in 1..Len(a) + Len(b) /\ ~(Len(a) + i <= Len(a)) /\ Len(a) + i - Len(a) = i
    BY <1>2
  <2> QED BY <1>1, <2>1
<1> QED BY <1>1, <1>2, <1>3, <1>4 DEF r

LEMMA ResponseUpdate ==
  ASSUME NEW s \in Seq(Response), NEW r, NEW close,
         r \in DOMAIN s => close \in BOOLEAN, NEW st \in {"made", "head", "body", "gone"}
  PROVE  /\ [s EXCEPT ![r].closeAfter = close, ![r].st = st] \in Seq(Response)
         /\ [s EXCEPT ![r].st = st, ![r].closeAfter = close] \in Seq(Response)
         /\ [s EXCEPT ![r].st = st] \in Seq(Response)
<1>1. Len(s) \in Nat /\ DOMAIN s = 1..Len(s) /\ s \in [1..Len(s) -> Response]
  BY LenProperties
<1>2. CASE r \notin DOMAIN s
  <2>1. /\ [s EXCEPT ![r].closeAfter = close, ![r].st = st] = s
        /\ [s EXCEPT ![r].st = st, ![r].closeAfter = close] = s
        /\ [s EXCEPT ![r].st = st] = s
    BY <1>1, <1>2
  <2> QED BY <2>1
<1>3. CASE r \in DOMAIN s
  <2>1. s[r] \in Response
    BY <1>1, <1>3
  <2> DEFINE e1 == [[s[r] EXCEPT !.closeAfter = close] EXCEPT !.st = st]
             e2 == [[s[r] EXCEPT !.st = st] EXCEPT !.closeAfter = close]
             e3 == [s[r] EXCEPT !.st = st]
  <2>2. e1 \in Response /\ e2 \in Response /\ e3 \in Response
    BY <1>3, <2>1 DEF Response
  <2>3. /\ [s EXCEPT ![r].closeAfter = close, ![r].st = st] = [s EXCEPT ![r] = e1]
        /\ [s EXCEPT ![r].st = st, ![r].closeAfter = close] = [s EXCEPT ![r] = e2]
        /\ [s EXCEPT ![r].st = st] = [s EXCEPT ![r] = e3]
    BY <1>1, <1>3
  <2> HIDE DEF e1, e2, e3
  <2>4. /\ [s EXCEPT ![r] = e1] \in [1..Len(s) -> Response]
        /\ [s EXCEPT ![r] = e2] \in [1..Len(s) -> Response]
        /\ [s EXCEPT ![r] = e3] \in [1..Len(s) -> Response]
    BY <1>1, <2>2
  <2> QED BY <1>1, <2>3, <2>4, SeqDef
<1> QED BY <1>2, <1>3

LEMMA NewResponseType ==
  ASSUME NEW k \in ReqNo, NEW kind \in {"final", "continue", "switch"}, NEW b \in Nat, NEW c
  PROVE  /\ NewResponse(k, kind, b) \in Response
         /\ [NewResponse(k, kind, b) EXCEPT !.st = HeadState(c)] \in Response
         /\ HeadState(c) \in {"made", "head", "body", "gone"}
BY DEF NewResponse, Response, HeadState

LEMMA UvWriteType ==
  ASSUME TypeOK, NEW c, NEW r \in Nat, NEW i \in Nat
  PROVE  /\ UvWrite(c, r, i) \in Seq(OutWrite)
         /\ outq # <<>> => UvWrite(c, r, i) # <<>>
<1>1. outq \in Seq(OutWrite)
  BY Types
<1>2. Write(r, i) \in OutWrite
  BY DEF Write, OutWrite
<1>3. Append(outq, Write(r, i)) \in Seq(OutWrite) /\ Append(outq, Write(r, i)) # <<>>
  BY <1>1, <1>2, AppendProperties
<1> QED BY <1>1, <1>3 DEF UvWrite

LEMMA OldestType ==
  ASSUME TypeOK, \E i \in DOMAIN outq : outq[i].st = "queued"
  PROVE  Oldest \in DOMAIN outq
<1>1. outq \in Seq(OutWrite) /\ DOMAIN outq = 1..Len(outq) /\ Len(outq) \in Nat
  BY Types, LenProperties
<1> DEFINE T == {i \in DOMAIN outq : outq[i].st = "queued"}
<1>2. T \subseteq Nat /\ T # {}
  BY <1>1
<1>3. PICK x \in T : \A y \in T : x <= y
  BY <1>2, LeastElement
<1>4. \A j \in 1..(x - 1) : outq[j].st # "queued"
  <2> SUFFICES ASSUME NEW j \in 1..(x - 1), outq[j].st = "queued" PROVE FALSE
    OBVIOUS
  <2>1. j \in T /\ j < x
    BY <1>1, <1>3
  <2> QED BY <1>3, <2>1, <1>1
<1> QED BY <1>3, <1>4 DEF Oldest

LEMMA OutUpdate ==
  ASSUME NEW s \in Seq(OutWrite), NEW i \in DOMAIN s, NEW st \in {"queued", "sent", "failed"}
  PROVE  [s EXCEPT ![i].st = st] \in Seq(OutWrite) /\ <<s[i].r, s[i].part>> \in Nat \X Nat
<1>1. Len(s) \in Nat /\ DOMAIN s = 1..Len(s) /\ s \in [1..Len(s) -> OutWrite]
  BY LenProperties
<1>2. s[i] \in OutWrite
  BY <1>1
<1> DEFINE e == [s[i] EXCEPT !.st = st]
<1>3. e \in OutWrite /\ <<s[i].r, s[i].part>> \in Nat \X Nat
  BY <1>2 DEF OutWrite
<1>4. [s EXCEPT ![i].st = st] = [s EXCEPT ![i] = e]
  BY <1>1
<1> HIDE DEF e
<1>5. [s EXCEPT ![i] = e] \in [1..Len(s) -> OutWrite]
  BY <1>1, <1>3
<1> QED BY <1>1, <1>3, <1>4, <1>5, SeqDef

TokensUpTo(n) == [t : {"H", "L", "B"}, k : 1..n] \cup [t : {"W"}, k : Nat]

LEMMA TokensGrow ==
  ASSUME NEW m \in Nat, NEW n \in Nat, m <= n
  PROVE  Seq(TokensUpTo(m)) \subseteq Seq(TokensUpTo(n))
<1>1. TokensUpTo(m) \subseteq TokensUpTo(n)
  BY DEF TokensUpTo
<1>2. ASSUME NEW s \in Seq(TokensUpTo(m)) PROVE s \in Seq(TokensUpTo(n))
  BY <1>1, SeqMonotonic
<1> QED BY <1>2

\* A head, its LF and the pieces of a body.
LEMMA TokensOfType ==
  ASSUME NEW s \in Shapes, NEW n \in Nat, NEW k \in 1..n
  PROVE  /\ TokensOf(s, k) \in Seq(TokensUpTo(n)) /\ Len(TokensOf(s, k)) >= 2
         /\ Len(TokensOf(s, k)) \in Nat
         /\ TokensOf(s, k)[1] = Token("H", k) /\ TokensOf(s, k)[2] = Token("L", k)
         /\ \A i \in 1..Len(TokensOf(s, k)) : TokensOf(s, k)[i].t = "H" => i = 1
<1> DEFINE a == <<Token("H", k), Token("L", k)>>
           b == [i \in 1..s.body |-> Token("B", k)]
           S == TokensUpTo(n)
<1>1. s.body \in Nat
  BY ConstantsAssumption DEF Shape
<1>2. \A t \in {"H", "L", "B"} : Token(t, k) \in S /\ Token(t, k).t = t
  BY DEF Token, TokensUpTo
<1>3. a \in Seq(S) /\ Len(a) = 2 /\ a[1] = Token("H", k) /\ a[2] = Token("L", k)
  BY <1>2
<1>4. b \in [1..s.body -> S]
  BY <1>2
<1>5. b \in Seq(S) /\ Len(b) \in Nat /\ DOMAIN b = 1..Len(b)
  BY <1>1, <1>4, SeqDef, LenProperties
<1>6. \A i \in 1..Len(b) : b[i] = Token("B", k)
  BY <1>5
<1>7. TokensOf(s, k) = a \o b
  BY DEF TokensOf
<1> HIDE DEF a, b, S
<1> DEFINE r == a \o b
<1>8. /\ r \in Seq(S) /\ Len(r) = 2 + Len(b)
      /\ \A i \in 1..2 : r[i] = a[i]
      /\ \A i \in 1..Len(b) : r[2 + i] = b[i]
  <2>1. a \in Seq(S) /\ b \in Seq(S)
    BY <1>3, <1>5
  <2>2. /\ r \in Seq(S) /\ Len(r) = Len(a) + Len(b)
        /\ \A i \in 1..Len(a) : r[i] = a[i]
        /\ \A i \in 1..Len(b) : r[Len(a) + i] = b[i]
    BY <2>1, ConcatTypes
  <2> HIDE DEF r
  <2> QED BY <1>3, <2>2
<1> HIDE DEF r
<1>9. ASSUME NEW i \in 1..Len(r), r[i].t = "H" PROVE i = 1
  <2>1. i = 1 \/ i = 2 \/ i - 2 \in 1..Len(b)
    BY <1>5, <1>8
  <2>2. CASE i = 2
    BY <1>2, <1>3, <1>8, <1>9, <2>2
  <2>3. CASE i - 2 \in 1..Len(b)
    <3>1. 2 + (i - 2) = i
      BY <1>8, <1>5
    <3>2. r[i] = Token("B", k)
      BY <1>6, <1>8, <2>3, <3>1
    <3> QED BY <1>2, <1>9, <3>2
  <2> QED BY <2>1, <2>2, <2>3
<1>10. r[1] = Token("H", k) /\ r[2] = Token("L", k) /\ Len(r) >= 2 /\ Len(r) \in Nat
  BY <1>3, <1>5, <1>8
<1> QED BY <1>7, <1>8, <1>9, <1>10 DEF r, S

LEMMA ClientSendTypes ==
  ASSUME TypeOK, NEW s \in Shapes, ClientSend(s)
  PROVE  /\ TypeOK'
         /\ client'.net = client.net \o TokensOf(s, Len(client.shape) + 1)
         /\ TokensOf(s, Len(client.shape) + 1) \in Seq(AnyToken)
<1> DEFINE m == Len(client.shape)
           n == m + 1
           new == TokensOf(s, n)
<1>1. /\ client \in Client /\ m \in Nat /\ client.shape \in Seq(Shapes) /\ MaxReq \in Nat
      /\ m < MaxReq
  BY Types DEF ClientSend
<1>2. /\ client'.shape = Append(client.shape, s) /\ client'.net = client.net \o new
      /\ client'.ws = client.ws /\ client'.eof = client.eof /\ client'.broken = client.broken
      /\ client'.piped \in BOOLEAN
      /\ client' = [shape |-> client'.shape, net |-> client'.net, ws |-> client'.ws,
                    eof |-> client'.eof, broken |-> client'.broken, piped |-> client'.piped]
  BY <1>1 DEF ClientSend, Client
<1>3. client'.shape \in Seq(Shapes) /\ Len(client'.shape) = n
  BY <1>1, <1>2, AppendProperties
<1>4. /\ Tokens = TokensUpTo(m) /\ Tokens' = TokensUpTo(n)
      /\ Seq(Tokens) \subseteq Seq(TokensUpTo(n))
  BY <1>1, <1>3, TokensGrow DEF Tokens, TokensUpTo
<1>5. new \in Seq(TokensUpTo(n))
  BY <1>1, TokensOfType
<1>6. client'.net \in Seq(TokensUpTo(n))
  <2>1. client.net \in Seq(TokensUpTo(n))
    BY <1>1, <1>4 DEF Client
  <2> QED BY <1>2, <1>5, <2>1, ConcatTypes
<1>7. client' \in Client'
  <2>1. client'.ws \in 0..MaxWs /\ client'.eof \in BOOLEAN /\ client'.broken \in BOOLEAN
    BY <1>1, <1>2 DEF Client
  <2> QED BY <1>2, <1>3, <1>4, <1>6, <2>1 DEF Client
<1>8. req' \in Request'
  BY <1>4, Types DEF Request, ClientSend
<1>9. parser' \in Parser' /\ (parser'.st # "start" => parser'.cur # 0)
  <2>1. parser \in Parser /\ parser' = parser /\ (parser.st # "start" => parser.cur # 0)
    BY Types DEF ClientSend
  <2>2. 0..m \subseteq 0..n
    BY <1>1
  <2> QED BY <1>3, <1>4, <2>1, <2>2 DEF Parser
<1>10. new \in Seq(AnyToken)
  <2>1. TokensUpTo(n) \subseteq AnyToken
    BY <1>1 DEF TokensUpTo, AnyToken
  <2> QED BY <1>5, <2>1, SeqMonotonic
<1>11. UNCHANGED <<wire, later, bgq, resp, outq, app>>
  BY DEF ClientSend
<1>12. Len(client'.shape) <= MaxReq
  BY <1>1, <1>3
<1> QED BY <1>2, <1>7, <1>8, <1>9, <1>10, <1>11, <1>12, Types
        DEF TypeOK, OutWrite, LaterTask, BgTask, Response, Application, ReqNo

-------------------------------------------------------------------------------
(* The types are kept. *)

LEMMA QuietAppended ==
  ASSUME TypeOK, NEW q, Quiet(q)
  PROVE  later \o q \in Seq(LaterTask)
BY Types, ConcatTypes DEF Quiet

LEMMA ReadTypes ==
  ASSUME TypeOK, OnRead
  PROVE  TypeOK'
<1>0. /\ client \in Client /\ client.net \in Seq(Tokens) /\ req \in Request /\ parser \in Parser
      /\ Len(client.net) \in Nat
  BY Types, LenProperties DEF Client
<1>1. PICK n \in 1..Len(client.net) :
        LET chunk == SubSeq(client.net, 1, n) IN
        /\ client' = [client EXCEPT !.net = SubSeq(@, n + 1, Len(@))]
        /\ \/ /\ req.protocol = "HTTP"
              /\ parser' = IF req.ignoreNewData THEN parser ELSE Execute(parser, chunk)
              /\ UNCHANGED later
           \/ /\ req.protocol = "WebSockets"
              /\ later' = later \o (IF req.ignoreNewData THEN <<>> ELSE WsMessages(chunk))
              /\ UNCHANGED parser
  BY DEF OnRead
<1> DEFINE a == SubSeq(client.net, 1, n)
           b == SubSeq(client.net, n + 1, Len(client.net))
<1>2. a \in Seq(Tokens) /\ b \in Seq(Tokens)
  <2>1. \A i \in 1..Len(client.net) : client.net[i] \in Tokens
    BY <1>0, ElementOfSeq
  <2>2. \A i \in 1..n : client.net[i] \in Tokens
    BY <1>0, <2>1
  <2>3. \A i \in n + 1..Len(client.net) : client.net[i] \in Tokens
    BY <1>0, <2>1
  <2>4. n \in Int /\ n + 1 \in Int /\ Len(client.net) \in Int
    BY <1>0
  <2> QED BY <2>2, <2>3, <2>4, SubSeqProperties
<1>3. client' = [client EXCEPT !.net = b]
  BY <1>1
<1> HIDE DEF b
<1>4. client' \in Client /\ client'.shape = client.shape
  BY <1>0, <1>2, <1>3 DEF Client
<1>5. parser' \in Parser /\ (parser'.st # "start" => parser'.cur # 0)
  <2>1. Execute(parser, a) \in Parser
    <3> HIDE DEF a
    <3> QED BY <1>0, <1>2 DEF Execute, Parser
  <2>2. parser' = parser \/ parser' = Execute(parser, a)
    BY <1>1
  <2>3. Execute(parser, a).st = parser.st /\ Execute(parser, a).cur = parser.cur
    <3> HIDE DEF a
    <3> QED BY <1>0 DEF Execute, Parser
  <2> HIDE DEF a
  <2> QED BY <1>0, <2>1, <2>2, <2>3, Types
<1>6. later' \in Seq(LaterTask)
  <2>1. Quiet(WsMessages(a)) /\ Quiet(<<>>)
    <3> HIDE DEF a
    <3> QED BY <1>2, TokenSeqs, WsMessagesQuiet, EmptySeq DEF Quiet
  <2>2. later' = later \/ later' = later \o WsMessages(a) \/ later' = later \o <<>>
    BY <1>1
  <2> HIDE DEF a
  <2> QED BY <2>1, <2>2, Types, QuietAppended
<1>7. UNCHANGED <<wire, req, bgq, resp, outq, app>>
  BY DEF OnRead
<1> QED BY <1>4, <1>5, <1>6, <1>7, Types, TypesKept

LEMMA ClientStepTypes ==
  ASSUME TypeOK, ClientSendWs \/ ClientLeaves
  PROVE  TypeOK'
<1>0. client \in Client
  BY Types
<1>1. CASE ClientSendWs
  <2>1. Token("W", client.ws + 1) \in Tokens /\ client.ws + 1 \in 0..MaxWs
    <3>1. client.ws \in 0..MaxWs /\ client.ws < MaxWs /\ MaxWs \in Nat
      BY <1>0, <1>1, ConstantsAssumption DEF ClientSendWs, Client
    <3>2. client.ws + 1 \in Nat /\ client.ws + 1 \in 0..MaxWs
      BY <3>1
    <3> QED BY <3>2 DEF Token, Tokens
  <2>2. Append(client.net, Token("W", client.ws + 1)) \in Seq(Tokens)
    BY <1>0, <2>1, AppendProperties DEF Client
  <2>3. client' \in Client /\ client'.shape = client.shape
    BY <1>0, <1>1, <2>1, <2>2 DEF ClientSendWs, Client
  <2> QED BY <1>1, <2>3, Types, TypesKept DEF ClientSendWs
<1>2. CASE ClientLeaves
  <2>1. client' \in Client /\ client'.shape = client.shape
    BY <1>0, <1>2 DEF ClientLeaves, Client
  <2> QED BY <1>2, <2>1, Types, TypesKept DEF ClientLeaves
<1> QED BY <1>1, <1>2

LEMMA CloseTypes ==
  ASSUME TypeOK, OnReadError \/ ServerStops \/ OnClosed
  PROVE  TypeOK'
<1>0. req \in Request /\ later \in Seq(LaterTask) /\ Quiet(CloseTasks(req))
  BY Types, CloseTasksQuiet
<1>1. Closed(req) \in Request /\ later \o CloseTasks(req) \in Seq(LaterTask)
      /\ [req EXCEPT !.onClosed = TRUE, !.wsc = FALSE] \in Request
  <2>1. [req EXCEPT !.onClosed = TRUE, !.wsc = FALSE] \in Request
    BY <1>0 DEF Request
  <2> QED BY <1>0, <2>1, RequestTypes, QuietAppended
<1>2. CASE OnReadError
  BY <1>1, <1>2, Types, TypesKept DEF OnReadError
<1>3. CASE ServerStops
  BY <1>1, <1>3, Types, TypesKept DEF ServerStops
<1>4. CASE OnClosed
  BY <1>1, <1>4, Types, TypesKept DEF OnClosed
<1> QED BY <1>2, <1>3, <1>4

\* The next token, for the steps of http_parser_execute.
LEMMA NextToken ==
  ASSUME TypeOK, parser.data # <<>>
  PROVE  /\ Head(parser.data) \in Tokens /\ Tail(parser.data) \in Seq(Tokens)
         /\ parser.data[1] = Head(parser.data)
         /\ Head(parser.data).t # "W" => /\ Head(parser.data).k \in 1..Len(client.shape)
                                         /\ Head(parser.data).k \in ReqNo
<1>1. parser.data \in Seq(Tokens)
  BY ParserTypes
<1>2. /\ Head(parser.data) \in Tokens /\ Tail(parser.data) \in Seq(Tokens)
      /\ parser.data[1] = Head(parser.data)
  BY <1>1, TailRange
<1>3. MaxReq \in Nat /\ Len(client.shape) \in Nat /\ Len(client.shape) <= MaxReq
  BY Types
<1> QED BY <1>2, <1>3, TokenFields DEF ReqNo

LEMMA ParseTypes ==
  ASSUME TypeOK,
         \/ ParseMessageBegin \/ ParseHeadersComplete \/ ParseWaiting
         \/ ParseHeadersDone \/ ParseBody \/ ParseRefuses
  PROVE  TypeOK'
<1>0. /\ req \in Request /\ parser \in Parser /\ later \in Seq(LaterTask) /\ client \in Client
      /\ bgq \in Seq(BgTask) /\ resp \in Seq(Response) /\ Len(resp) \in Nat
  BY Types, LenProperties
<1>a. UNCHANGED <<client, wire, outq, app>>
  BY DEF ParseMessageBegin, ParseHeadersComplete, ParseWaiting, ParseHeadersDone, ParseBody,
         ParseRefuses
<1>b. parser.data # <<>> /\ parser.data \in Seq(Tokens)
  BY ParserTypes DEF ParseMessageBegin, ParseHeadersComplete, ParseWaiting, ParseHeadersDone,
         ParseBody, ParseRefuses, Executing
<1>c. Tail(parser.data) \in Seq(Tokens)
  BY <1>b, NextToken
<1>1. CASE ParseMessageBegin
  <2> DEFINE k == Head(parser.data).k
             c == IF req.handlingRequest THEN Closed(req) ELSE req
  <2>1. k \in 1..Len(client.shape) /\ k \in ReqNo
    BY <1>1, <1>b, NextToken DEF ParseMessageBegin, Executing
  <2>2. /\ req' = [c EXCEPT !.handlingRequest = TRUE, !.responseScheduled = FALSE]
        /\ later' = Append(later, [op |-> "initEnv", k |-> k])
        /\ parser' = [parser EXCEPT !.st = "headers", !.cur = k, !.data = Tail(parser.data)]
        /\ UNCHANGED <<bgq, resp>>
    BY <1>1 DEF ParseMessageBegin
  <2>3. c \in Request
    BY <1>0, RequestTypes
  <2> HIDE DEF k, c
  <2>4. req' \in Request
    BY <2>2, <2>3 DEF Request
  <2>5. parser' \in Parser /\ parser'.cur # 0
    <3>1. k \in 0..Len(client.shape) /\ k # 0
      BY <2>1, Types
    <3> QED BY <1>0, <1>c, <2>2, <3>1 DEF Parser
  <2>6. later' \in Seq(LaterTask)
    BY <1>0, <2>1, <2>2, AppendProperties, LaterTasks
  <2> QED BY <1>0, <1>a, <2>2, <2>4, <2>5, <2>6, Types, TypesKept
<1>2. CASE ParseHeadersComplete
  <2>1. parser.cur \in ReqNo /\ parser.cur # 0 /\ Len(resp) + 1 \in Nat
    BY <1>0, <1>2, ParserTypes DEF ParseHeadersComplete, Executing
  <2>2. parser' \in Parser /\ parser'.cur # 0
    <3>1. parser' = [parser EXCEPT !.st = "wait", !.exec = "return"]
      BY <1>2 DEF ParseHeadersComplete
    <3> QED BY <1>0, <2>1, <3>1 DEF Parser
  <2>3. req' \in Request
    <3> DEFINE u == req.isUpgrade \/ Cur.upgrade # "no"
    <3>1. req' = [req EXCEPT !.isUpgrade = u]
      BY <1>2 DEF ParseHeadersComplete
    <3>2. u \in BOOLEAN
      OBVIOUS
    <3> HIDE DEF u
    <3> QED BY <1>0, <3>1, <3>2 DEF Request
  <2>4. /\ later' \in Seq(LaterTask) /\ bgq' \in Seq(BgTask) /\ resp' \in Seq(Response)
    <3>1. CASE /\ \E b \in Bodies : resp' = Append(resp, NewResponse(parser.cur, "final", b))
               /\ bgq' = Append(bgq, [op |-> "headersDone", k |-> parser.cur, r |-> Len(resp) + 1])
               /\ UNCHANGED later
      <4>1. bgq' \in Seq(BgTask)
        <5>1. [op |-> "headersDone", k |-> parser.cur, r |-> Len(resp) + 1] \in BgTask
          BY <2>1 DEF BgTask
        <5> QED BY <1>0, <3>1, <5>1, AppendProperties
      <4>2. PICK b \in Bodies : resp' = Append(resp, NewResponse(parser.cur, "final", b))
        BY <3>1
      <4>3. b \in Nat
        BY ConstantsAssumption
      <4>4. resp' \in Seq(Response)
        BY <1>0, <2>1, <4>2, <4>3, NewResponseType, AppendProperties
      <4> QED BY <1>0, <3>1, <4>1, <4>4
    <3>2. CASE /\ later' = Append(later, [op |-> "onHeaders", k |-> parser.cur])
               /\ UNCHANGED <<bgq, resp>>
      BY <1>0, <2>1, <3>2, LaterTasks, AppendProperties
    <3> QED BY <1>2, <3>1, <3>2 DEF ParseHeadersComplete
  <2> QED BY <1>0, <1>a, <2>2, <2>3, <2>4, Types, TypesKept
<1>3. CASE ParseWaiting
  <2>1. parser' \in Parser /\ parser'.st = parser.st /\ parser'.cur = parser.cur
    BY <1>0, <1>3 DEF ParseWaiting, Parser
  <2> QED BY <1>0, <1>3, <1>a, <2>1, Types, TypesKept DEF ParseWaiting
<1>4. CASE ParseRefuses
  <2>1. parser' \in Parser /\ parser'.st = parser.st /\ parser'.cur = parser.cur
    BY <1>0, <1>4 DEF ParseRefuses, Parser
  <2> QED BY <1>0, <1>4, <1>a, <2>1, Types, TypesKept DEF ParseRefuses
<1>5. CASE ParseHeadersDone
  <2>1. /\ parser.cur \in ReqNo /\ parser.cur # 0 /\ Cur.body \in Nat
        /\ NewMessage \in {"start", "headers", "wait", "ready", "body", "dead"}
    <3>1. parser.cur \in ReqNo /\ parser.cur # 0 /\ Cur \in Shape
      BY <1>5, ParserTypes, Types DEF ParseHeadersDone, Executing
    <3> QED BY <3>1 DEF Shape, NewMessage
  <2> DEFINE p == [parser EXCEPT !.data = Tail(parser.data)]
  <2>2. p \in Parser /\ p.cur = parser.cur
    BY <1>0, <1>c DEF Parser
  <2>3. \/ parser' = [p EXCEPT !.st = NewMessage, !.exec = "return"]
        \/ parser' = [p EXCEPT !.st = NewMessage]
        \/ parser' = [p EXCEPT !.st = "body", !.need = Cur.body]
    BY <1>5 DEF ParseHeadersDone
  <2> HIDE DEF p
  <2>4. parser' \in Parser /\ parser'.cur # 0
    BY <2>1, <2>2, <2>3 DEF Parser
  <2>5. later' = later \/ later' = Append(later, [op |-> "getResponse", k |-> parser.cur])
    BY <1>5 DEF ParseHeadersDone, MessageComplete
  <2>6. later' \in Seq(LaterTask)
    <3>1. [op |-> "getResponse", k |-> parser.cur] \in LaterTask
      BY <2>1, LaterTasks
    <3>2. Append(later, [op |-> "getResponse", k |-> parser.cur]) \in Seq(LaterTask)
      BY <1>0, <3>1, AppendProperties
    <3> QED BY <1>0, <2>5, <3>2, Zenon
  <2> QED BY <1>0, <1>5, <1>a, <2>4, <2>6, Types, TypesKept DEF ParseHeadersDone
<1>6. CASE ParseBody
  <2>1. /\ parser.cur \in ReqNo /\ parser.cur # 0 /\ parser.need - 1 \in Nat
        /\ NewMessage \in {"start", "headers", "wait", "ready", "body", "dead"}
    BY <1>6, ParserTypes, Types, SMTT(40) DEF ParseBody, Executing, NewMessage
  <2> DEFINE p == [parser EXCEPT !.data = Tail(parser.data), !.need = parser.need - 1]
             e == [op |-> "onBodyData", k |-> parser.cur]
             g == [op |-> "getResponse", k |-> parser.cur]
  <2>2. p \in Parser /\ p.cur = parser.cur
    BY <1>0, <1>c, <2>1 DEF Parser
  <2>3. parser' = p \/ parser' = [p EXCEPT !.st = NewMessage]
    BY <1>6 DEF ParseBody
  <2>4. later' = Append(later, e) \/ later' = Append(Append(later, e), g)
    BY <1>6 DEF ParseBody
  <2>5. e \in LaterTask /\ g \in LaterTask
    BY <2>1, LaterTasks
  <2> HIDE DEF p, e, g
  <2>6. parser' \in Parser /\ parser'.cur # 0
    BY <2>1, <2>2, <2>3 DEF Parser
  <2>7. later' \in Seq(LaterTask)
    <3>1. Append(later, e) \in Seq(LaterTask)
      BY <1>0, <2>5, AppendProperties
    <3>2. Append(Append(later, e), g) \in Seq(LaterTask)
      BY <3>1, <2>5, AppendProperties
    <3> QED BY <2>4, <3>1, <3>2
  <2> QED BY <1>0, <1>6, <1>a, <2>6, <2>7, Types, TypesKept DEF ParseBody
<1> QED BY <1>1, <1>2, <1>3, <1>4, <1>5, <1>6

LEMMA AfterExecuteTypes ==
  ASSUME TypeOK, HandedOver, KeepForLater \/ UpgradeConnection \/ ParseDone
  PROVE  TypeOK'
<1>0. /\ req \in Request /\ parser \in Parser /\ later \in Seq(LaterTask) /\ client \in Client
      /\ resp \in Seq(Response) /\ Len(resp) + 1 \in Nat /\ AfterExecute \in Parser
      /\ parser.data \in Seq(Tokens) /\ req.requestBuffer \in Seq(Tokens)
      /\ parser' = AfterExecute
  <2>1. Len(resp) \in Nat
    BY Types, LenProperties
  <2>2. parser' = AfterExecute
    BY DEF KeepForLater, UpgradeConnection, ParseDone
  <2>3. req \in Request /\ req.requestBuffer \in Seq(Tokens)
    BY Types, RequestTypes
  <2> QED BY <2>1, <2>2, <2>3, Types, ParserTypes
<1>1. /\ parser' \in Parser /\ (parser'.st # "start" => parser'.cur # 0)
  <2>1. parser'.st = parser.st /\ parser'.cur = parser.cur
    BY <1>0 DEF AfterExecute, Parser
  <2> QED BY <1>0, <2>1, Types
<1>2. req.requestBuffer \o parser.data \in Seq(Tokens)
  BY <1>0, ConcatTypes
<1>3. CASE KeepForLater
  <2>1. req' \in Request
    <3> DEFINE b == req.requestBuffer \o parser.data
    <3>1. req' = [req EXCEPT !.requestBuffer = b] /\ b \in Seq(Tokens)
      BY <1>2, <1>3 DEF KeepForLater
    <3> HIDE DEF b
    <3> QED BY <1>0, <3>1 DEF Request
  <2> QED BY <1>1, <1>3, <2>1, Types, TypesKept DEF KeepForLater
<1>4. CASE ParseDone
  <2>1. req' \in Request
    BY <1>0, <1>4, RequestTypes DEF ParseDone
  <2> QED BY <1>1, <1>4, <2>1, Types, TypesKept DEF ParseDone
<1>5. CASE UpgradeConnection
  <2>1. CASE req' \in Request /\ UNCHANGED <<later, resp, outq>>
    BY <1>1, <1>5, <2>1, Types, TypesKept DEF UpgradeConnection
  <2>2. CASE /\ req.wsc /\ Cur.upgrade = "ws"
             /\ LET r == Len(resp) + 1 IN
                /\ resp' = Append(resp, [NewResponse(parser.cur, "switch", 0)
                                           EXCEPT !.st = HeadState(req)])
                /\ outq' = UvWrite(req, r, 0)
             /\ req' = [RequestCompleted(req) EXCEPT !.protocol = "WebSockets",
                                                     !.requestBuffer = @ \o parser.data]
             /\ later' = Append(later, [op |-> "wsOpen"])
    <3>1. later' \in Seq(LaterTask)
      BY <1>0, <2>2, WsTasks, AppendProperties
    <3>2. outq' \in Seq(OutWrite)
      BY <1>0, <2>2, UvWriteType
    <3>3. req' \in Request
      <4> DEFINE c == RequestCompleted(req)
                 b == c.requestBuffer \o parser.data
      <4>1. c \in Request /\ c.requestBuffer = req.requestBuffer
        <5>1. c.requestBuffer = req.requestBuffer
          BY <1>0 DEF Request, RequestCompleted
        <5> QED BY <1>0, <5>1, RequestTypes
      <4>2. req' = [c EXCEPT !.protocol = "WebSockets", !.requestBuffer = b]
        BY <2>2
      <4>3. b \in Seq(Tokens)
        BY <1>2, <4>1
      <4> HIDE DEF c, b
      <4> QED BY <4>1, <4>2, <4>3 DEF Request
    <3>4. resp' \in Seq(Response)
      <4>1. parser.cur \in ReqNo
        <5>1. parser.cur # 0 /\ parser.cur \in 0..Len(client.shape)
          BY <1>5, ParserTypes DEF UpgradeConnection, HandedOver
        <5> QED BY <5>1, Types DEF ReqNo
      <4> QED BY <1>0, <2>2, <4>1, NewResponseType, AppendProperties
    <3> QED BY <1>1, <1>5, <3>1, <3>2, <3>3, <3>4, Types, TypesKept DEF UpgradeConnection
  <2> QED BY <1>0, <1>5, <2>1, <2>2, RequestTypes DEF UpgradeConnection
<1> QED BY <1>3, <1>4, <1>5

\* The front of the background queue.
LEMMA BgFront ==
  ASSUME TypeOK, bgq # <<>>
  PROVE  /\ Head(bgq) \in BgTask /\ Tail(bgq) \in Seq(BgTask) /\ Head(bgq) = bgq[1]
         /\ Len(bgq) \in Nat \ {0} /\ Len(Tail(bgq)) = Len(bgq) - 1
         /\ \A i \in 1..Len(bgq) - 1 : Tail(bgq)[i] = bgq[i + 1]
BY Types, TailRange

LEMMA LaterFront ==
  ASSUME TypeOK, later # <<>>
  PROVE  /\ Head(later) \in LaterTask /\ Tail(later) \in Seq(LaterTask) /\ Head(later) = later[1]
         /\ Len(later) \in Nat \ {0} /\ Len(Tail(later)) = Len(later) - 1
         /\ \A i \in 1..Len(later) - 1 : Tail(later)[i] = later[i + 1]
BY Types, TailRange

LEMMA FlushTypes ==
  ASSUME TypeOK, Waits,
         \/ HeadersCompleteComplete \/ BodyError \/ MessageCompleteComplete
         \/ ScheduledClose \/ ScheduledWsRead
  PROVE  TypeOK'
<1>0. /\ req \in Request /\ parser \in Parser /\ later \in Seq(LaterTask) /\ client \in Client
      /\ resp \in Seq(Response) /\ outq \in Seq(OutWrite)
  BY Types
<1>a. UNCHANGED <<client, wire, app>> /\ bgq # <<>> /\ bgq' = Tail(bgq)
  BY DEF HeadersCompleteComplete, BodyError, MessageCompleteComplete, ScheduledClose,
         ScheduledWsRead, Flush
<1>b. bgq' \in Seq(BgTask) /\ Head(bgq) \in BgTask /\ Len(resp) + 1 \in Nat
  <2>1. Len(resp) \in Nat
    BY <1>0, LenProperties
  <2> QED BY <1>a, <2>1, BgFront
<1>c. /\ Closed(req) \in Request /\ RequestCompleted(req) \in Request
      /\ StopReading(RequestCompleted(req)) \in Request
      /\ req.requestBuffer \in Seq(Tokens) /\ <<>> \in Seq(Tokens)
  <2>1. RequestCompleted(req) \in Request
    BY <1>0, RequestTypes
  <2> QED BY <1>0, <2>1, RequestTypes, EmptySeq
<1>1. CASE HeadersCompleteComplete
  <2>1. Head(bgq).r \in Nat /\ Head(bgq).k \in ReqNo
    BY <1>1, <1>b, TaskFields DEF HeadersCompleteComplete, Flush
  <2> DEFINE close == Cur.length \/ ~Cur.keep
             resume(st) == Execute([parser EXCEPT !.st = "ready", !.status = st],
                                   req.requestBuffer)
             c1 == IF close THEN StopReading(RequestCompleted(req)) ELSE RequestCompleted(req)
  <2>2. close \in BOOLEAN /\ c1 \in Request
    BY <1>c
  <2>3. \A c \in Request : [c EXCEPT !.requestBuffer = <<>>] \in Request
    BY <1>c DEF Request
  <2>4. \A st \in {0, 3} : resume(st) \in Parser /\ resume(st).cur = parser.cur
    BY <1>0, <1>c DEF Execute, Parser
  <2>5. /\ \/ req' = [c1 EXCEPT !.requestBuffer = <<>>]
           \/ req' = [RequestCompleted(req) EXCEPT !.requestBuffer = <<>>]
           \/ req' = [req EXCEPT !.requestBuffer = <<>>]
        /\ parser' = resume(3) \/ parser' = resume(0)
        /\ \/ resp' = [resp EXCEPT ![Head(bgq).r].closeAfter = close,
                                   ![Head(bgq).r].st = HeadState(req)]
           \/ resp' = Append(resp, [NewResponse(parser.cur, "continue", 0)
                                      EXCEPT !.st = HeadState(req)]) /\ client.shape[parser.cur].expect
           \/ resp' = resp
        /\ \/ outq' = UvWrite(req, Head(bgq).r, 0)
           \/ outq' = UvWrite(req, Len(resp) + 1, 0)
           \/ outq' = outq
        /\ later' = later
    BY <1>1, Zenon DEF HeadersCompleteComplete, WriteResponse, Cur
  <2> HIDE DEF close, resume, c1
  <2>6. req' \in Request
    BY <1>0, <1>c, <2>2, <2>3, <2>5
  <2>7. parser' \in Parser /\ parser'.cur = parser.cur
    BY <2>4, <2>5
  <2>8. outq' \in Seq(OutWrite)
    BY <1>0, <1>b, <2>1, <2>5, UvWriteType
  <2>9. parser.cur # 0
    <3>1. Head(bgq).op = "headersDone" /\ Head(bgq) = bgq[1] /\ 1 \in 1..Len(bgq)
      BY <1>1, <1>a, BgFront DEF HeadersCompleteComplete, Flush
    <3>2. Head(bgq).k = parser.cur
      BY <3>1 DEF Waits
    <3>3. MaxReq \in Nat
      BY Types
    <3> QED BY <2>1, <3>2, <3>3 DEF ReqNo
  <2>10. resp' \in Seq(Response)
    <3>1. parser.cur \in ReqNo
      BY <2>9, ParserTypes, Types DEF ReqNo
    <3>2. HeadState(req) \in {"made", "head", "body", "gone"}
      BY DEF HeadState
    <3>3. [resp EXCEPT ![Head(bgq).r].closeAfter = close, ![Head(bgq).r].st = HeadState(req)]
            \in Seq(Response)
      BY <1>0, <2>2, <3>2, ResponseUpdate
    <3> DEFINE e == [NewResponse(parser.cur, "continue", 0) EXCEPT !.st = HeadState(req)]
    <3>4. e \in Response
      BY <3>1, NewResponseType
    <3> HIDE DEF e
    <3>5. Append(resp, e) \in Seq(Response)
      BY <1>0, <3>4, AppendProperties
    <3> QED BY <1>0, <2>5, <3>3, <3>5 DEF e
  <2> QED BY <1>0, <1>a, <1>b, <2>5, <2>6, <2>7, <2>8, <2>9, <2>10, Types, TypesKept
<1>2. CASE BodyError
  <2>1. Head(bgq).r \in Nat
    BY <1>2, <1>b, TaskFields DEF BodyError, Flush
  <2>2. /\ resp' = [resp EXCEPT ![Head(bgq).r].closeAfter = TRUE,
                                ![Head(bgq).r].st = HeadState(req)]
        /\ outq' = UvWrite(req, Head(bgq).r, 0)
        /\ req' = StopReading(RequestCompleted(req))
        /\ parser' = [parser EXCEPT !.errno = TRUE] /\ later' = later
    BY <1>2 DEF BodyError, WriteResponse
  <2>3. parser' \in Parser /\ parser'.cur = parser.cur /\ parser'.st = parser.st
    BY <1>0, <2>2 DEF Parser
  <2>4. outq' \in Seq(OutWrite)
    BY <2>1, <2>2, UvWriteType
  <2>5. resp' \in Seq(Response)
    <3>1. HeadState(req) \in {"made", "head", "body", "gone"}
      BY DEF HeadState
    <3> QED BY <1>0, <2>2, <3>1, ResponseUpdate
  <2> QED BY <1>0, <1>a, <1>b, <1>c, <2>2, <2>3, <2>4, <2>5, Types, TypesKept
<1>3. CASE MessageCompleteComplete
  <2>1. Head(bgq).r \in Nat
    BY <1>3, <1>b, TaskFields DEF MessageCompleteComplete, Flush
  <2> DEFINE close == ~Cur.keep
  <2>2. /\ \/ resp' = [resp EXCEPT ![Head(bgq).r].closeAfter = close,
                                   ![Head(bgq).r].st = HeadState(req)]
           \/ resp' = [resp EXCEPT ![Head(bgq).r].st = "gone"]
           \/ resp' = resp
        /\ outq' = UvWrite(req, Head(bgq).r, 0) \/ outq' = outq
        /\ \/ req' = req \/ req' = RequestCompleted(req)
           \/ req' = StopReading(RequestCompleted(req))
        /\ UNCHANGED <<parser, later>>
    BY <1>3 DEF MessageCompleteComplete, WriteResponse
  <2>3. close \in BOOLEAN
    OBVIOUS
  <2> HIDE DEF close
  <2>4. outq' \in Seq(OutWrite)
    BY <1>0, <2>1, <2>2, UvWriteType
  <2>5. resp' \in Seq(Response)
    <3>1. HeadState(req) \in {"made", "head", "body", "gone"}
      BY DEF HeadState
    <3>2. [resp EXCEPT ![Head(bgq).r].closeAfter = close, ![Head(bgq).r].st = HeadState(req)]
            \in Seq(Response)
      BY <1>0, <2>3, <3>1, ResponseUpdate
    <3>3. [resp EXCEPT ![Head(bgq).r].st = "gone"] \in Seq(Response)
      BY <1>0, <2>3, ResponseUpdate
    <3> QED BY <1>0, <2>2, <3>2, <3>3
  <2>6. req' \in Request
    BY <1>0, <1>c, <2>2
  <2> QED BY <1>0, <1>a, <1>b, <2>2, <2>4, <2>5, <2>6, Types, TypesKept
<1>4. CASE ScheduledClose
  <2>1. later' \in Seq(LaterTask)
    BY <1>4, CloseTasksQuiet, QuietAppended DEF ScheduledClose
  <2> QED BY <1>4, <1>a, <1>b, <1>c, <2>1, Types, TypesKept DEF ScheduledClose
<1>5. CASE ScheduledWsRead
  <2>1. Head(bgq).d \in Seq(AnyToken)
    BY <1>5, <1>b, TaskFields DEF ScheduledWsRead, Flush
  <2>2. [i \in DOMAIN Head(bgq).d |-> Token("W", 0)] \in Seq(AnyToken)
    <3>1. DOMAIN Head(bgq).d = 1..Len(Head(bgq).d) /\ Len(Head(bgq).d) \in Nat
      BY <2>1, LenProperties
    <3>2. Token("W", 0) \in AnyToken
      BY DEF Token, AnyToken
    <3> QED BY <3>1, <3>2, SeqDef
  <2>3. later' \in Seq(LaterTask)
    BY <1>5, <2>1, <2>2, WsMessagesQuiet, QuietAppended DEF ScheduledWsRead
  <2> QED BY <1>0, <1>5, <1>a, <1>b, <2>3, Types, TypesKept DEF ScheduledWsRead
<1> QED BY <1>1, <1>2, <1>3, <1>4, <1>5

\* A response is let go of, or a chunk of it written.
LEMMA ReleaseTypes ==
  ASSUME TypeOK, outq # <<>>, NEW r \in Nat, NEW i \in Nat, NEW close,
         r \in DOMAIN resp => close \in BOOLEAN,
         Release(r, close) \/ NextChunk(r, i)
  PROVE  /\ req' \in Request /\ later' \in Seq(LaterTask) /\ resp' \in Seq(Response)
         /\ outq' \in Seq(OutWrite)
<1>0. /\ req \in Request /\ later \in Seq(LaterTask) /\ resp \in Seq(Response)
      /\ outq \in Seq(OutWrite) /\ Closed(req) \in Request
  BY Types, RequestTypes
<1>1. CASE Release(r, close)
  <2>1. /\ resp' = [resp EXCEPT ![r].st = "gone", ![r].closeAfter = close]
        /\ req' = Closed(req) \/ req' = req
        /\ later' = later \o CloseTasks(req) \/ later' = later
        /\ outq' = Tail(outq)
    BY <1>1 DEF Release
  <2>2. resp' \in Seq(Response)
    BY <1>0, <2>1, ResponseUpdate
  <2>3. outq' \in Seq(OutWrite)
    BY <1>0, <2>1, TailRange
  <2>4. later \o CloseTasks(req) \in Seq(LaterTask)
    BY QuietAppended, CloseTasksQuiet
  <2> QED BY <1>0, <2>1, <2>2, <2>3, <2>4
<1>2. CASE NextChunk(r, i)
  <2>1. resp' = [resp EXCEPT ![r].st = "body"] /\ outq' = Tail(UvWrite(req, r, i))
        /\ req' = req /\ later' = later
    BY <1>2 DEF NextChunk
  <2>2. resp' \in Seq(Response)
    BY <1>0, <2>1, ResponseUpdate
  <2>3. UvWrite(req, r, i) \in Seq(OutWrite) /\ UvWrite(req, r, i) # <<>>
    BY UvWriteType
  <2>4. outq' \in Seq(OutWrite)
    BY <2>1, <2>3, TailRange
  <2> QED BY <1>0, <2>1, <2>2, <2>4
<1> QED BY <1>1, <1>2

LEMMA WriteTypes ==
  ASSUME TypeOK, WriteOut \/ WriteFails \/ OnResponseWritten \/ OnChunkWritten
  PROVE  TypeOK'
<1>0. outq \in Seq(OutWrite) /\ client \in Client /\ wire \in Seq(Nat \X Nat)
      /\ resp \in Seq(Response)
  BY Types
<1>1. CASE WriteOut
  <2>1. Oldest \in DOMAIN outq
    BY <1>1, OldestType DEF WriteOut
  <2> DEFINE o == Oldest
             w == <<outq[o].r, outq[o].part>>
  <2>2. outq' = [outq EXCEPT ![o].st = "sent"] /\ wire' = Append(wire, w)
    BY <1>1 DEF WriteOut
  <2> HIDE DEF o
  <2>3. outq' \in Seq(OutWrite) /\ w \in Nat \X Nat
    BY <1>0, <2>1, <2>2, OutUpdate DEF o
  <2> HIDE DEF w
  <2>4. wire' \in Seq(Nat \X Nat)
    BY <1>0, <2>2, <2>3, AppendProperties
  <2> QED BY <1>1, <2>3, <2>4, Types, TypesKept DEF WriteOut
<1>2. CASE WriteFails
  <2>1. Oldest \in DOMAIN outq
    BY <1>2, OldestType DEF WriteFails
  <2> DEFINE o == Oldest
  <2>2. outq' = [outq EXCEPT ![o].st = "failed"] /\ client' = [client EXCEPT !.broken = TRUE]
    BY <1>2 DEF WriteFails
  <2> HIDE DEF o
  <2>3. outq' \in Seq(OutWrite)
    BY <1>0, <2>1, <2>2, OutUpdate DEF o
  <2>4. client' \in Client /\ client'.shape = client.shape
    BY <1>0, <2>2 DEF Client
  <2> QED BY <1>2, <2>3, <2>4, Types, TypesKept DEF WriteFails
<1>3. CASE OnResponseWritten \/ OnChunkWritten
  <2> DEFINE r == outq[1].r
             i == outq[1].part
  <2>1. outq # <<>>
    BY <1>3 DEF OnResponseWritten, OnChunkWritten, WriteDone
  <2>2. r \in Nat /\ i \in Nat /\ Tail(outq) \in Seq(OutWrite)
    <3>1. outq[1] \in OutWrite /\ Tail(outq) \in Seq(OutWrite)
      BY <1>0, <2>1, TailRange
    <3> QED BY <3>1 DEF OutWrite
  <2>3. /\ \/ Release(r, TRUE) \/ Release(r, resp[r].closeAfter)
           \/ NextChunk(r, 1) \/ NextChunk(r, i + 1)
           \/ outq' = Tail(outq) /\ UNCHANGED <<req, later, resp>>
        /\ UNCHANGED <<client, wire, parser, bgq, app>>
    BY <1>3 DEF OnResponseWritten, OnChunkWritten
  <2>4. r \in DOMAIN resp => resp[r].closeAfter \in BOOLEAN
    <3> SUFFICES ASSUME r \in DOMAIN resp PROVE resp[r].closeAfter \in BOOLEAN
      OBVIOUS
    <3>1. r \in 1..Len(resp)
      BY <1>0, LenProperties
    <3>2. resp[r] \in Response
      BY <1>0, <3>1, ElementOfSeq
    <3> QED BY <3>2 DEF Response
  <2>5. i + 1 \in Nat
    BY <2>2
  <2> HIDE DEF r, i
  <2>6. req' \in Request /\ later' \in Seq(LaterTask) /\ resp' \in Seq(Response)
        /\ outq' \in Seq(OutWrite)
    <3>1. CASE Release(r, TRUE)
      BY <2>1, <2>2, <3>1, ReleaseTypes
    <3>2. CASE Release(r, resp[r].closeAfter)
      BY <2>1, <2>2, <2>4, <3>2, ReleaseTypes
    <3>3. CASE NextChunk(r, 1)
      BY <2>1, <2>2, <3>3, ReleaseTypes
    <3>4. CASE NextChunk(r, i + 1)
      BY <2>1, <2>2, <2>5, <3>4, ReleaseTypes
    <3>5. CASE outq' = Tail(outq) /\ UNCHANGED <<req, later, resp>>
      BY <2>2, <3>5, Types
    <3> QED BY <2>3, <3>1, <3>2, <3>3, <3>4, <3>5
  <2> QED BY <2>3, <2>6, Types, TypesKept
<1> QED BY <1>1, <1>2, <1>3

\* An answer of the application.
LEMMA RespondTypes ==
  ASSUME TypeOK, NEW k \in ReqNo, NEW op \in {"headersDone", "bodyError", "messageDone"},
         NEW b \in Nat, Respond(k, op, "final", b)
  PROVE  resp' \in Seq(Response) /\ req' \in Request /\ bgq' \in Seq(BgTask)
<1>0. /\ req \in Request /\ resp \in Seq(Response) /\ bgq \in Seq(BgTask) /\ Len(resp) + 1 \in Nat
  <2>1. Len(resp) \in Nat
    BY Types, LenProperties
  <2> QED BY <2>1, Types
<1>1. req' \in Request
  BY <1>0 DEF Respond, Request
<1>2. resp' \in Seq(Response)
  BY <1>0, NewResponseType, AppendProperties DEF Respond
<1>3. [op |-> op, k |-> k, r |-> Len(resp) + 1] \in BgTask
  BY <1>0 DEF BgTask
<1> QED BY <1>0, <1>1, <1>2, <1>3, AppendProperties DEF Respond

LEMMA ApplicationTypes ==
  ASSUME NEW a \in Application, NEW k \in ReqNo, NEW e \in WsEvent, NEW k0 \in 0..MaxReq
  PROVE  /\ [a EXCEPT !.env = k0] \in Application
         /\ [a EXCEPT !.got[k] = @ + 1] \in Application
         /\ [a EXCEPT !.failed[k] = TRUE] \in Application
         /\ [a EXCEPT !.called[k] = @ + 1] \in Application
         /\ [a EXCEPT !.promised = @ \cup {k}] \in Application
         /\ [a EXCEPT !.promised = @ \ {k}] \in Application
         /\ [a EXCEPT !.declined = @ \cup {k}] \in Application
         /\ [a EXCEPT !.ws = Append(@, e)] \in Application
<1>1. Append(a.ws, e) \in Seq(WsEvent)
  BY AppendProperties DEF Application, WsEvent
<1>2. /\ [a.got EXCEPT ![k] = @ + 1] \in [ReqNo -> Nat]
      /\ [a.called EXCEPT ![k] = @ + 1] \in [ReqNo -> Nat]
      /\ [a.failed EXCEPT ![k] = TRUE] \in [ReqNo -> BOOLEAN]
  BY DEF Application
<1> QED BY <1>1, <1>2 DEF Application, WsEvent

LEMMA MainTypes ==
  ASSUME TypeOK, MainTask
  PROVE  TypeOK'
<1>0. /\ req \in Request /\ later \in Seq(LaterTask) /\ bgq \in Seq(BgTask) /\ app \in Application
      /\ resp \in Seq(Response) /\ MaxReq \in Nat
  BY Types
<1>1. UNCHANGED <<client, wire, parser, outq>> /\ later # <<>>
  BY DEF MainTask, InitializeEnv, CallOnHeaders, CallOnBodyData, CallGetResponse, CallWsOpen,
         PassRequestBuffer, CallWsMessage, CallWsClose, RunLater
<1>2. Head(later) \in LaterTask /\ Tail(later) \in Seq(LaterTask)
  BY <1>1, LaterFront
<1>3. \A b \in Bodies : b \in Nat
  BY ConstantsAssumption
<1>4. [op |-> "close"] \in BgTask /\ Append(bgq, [op |-> "close"]) \in Seq(BgTask)
  BY <1>0, WsTasks, AppendProperties
<1>5. CASE InitializeEnv
  <2>1. Head(later).k \in 0..MaxReq
    BY <1>0, <1>2, <1>5, TaskFields DEF InitializeEnv, RunLater, ReqNo
  <2>2. app' \in Application
    BY <1>0, <1>5, <2>1 DEF InitializeEnv, Application
  <2> QED BY <1>1, <1>2, <1>5, <2>2, Types, TypesKept DEF InitializeEnv, RunLater
<1>6. CASE CallOnHeaders
  <2> DEFINE k == Head(later).k
  <2>1. k \in ReqNo
    BY <1>2, <1>6, TaskFields DEF CallOnHeaders, RunLater
  <2>2. /\ \/ /\ bgq' = Append(bgq, [op |-> "headersDone", k |-> k, r |-> 0])
              /\ UNCHANGED <<req, resp>>
           \/ \E b \in Bodies : Respond(k, "headersDone", "final", b)
        /\ later' = Tail(later) /\ app' = app
    BY <1>6 DEF CallOnHeaders, RunLater
  <2> HIDE DEF k
  <2>3. [op |-> "headersDone", k |-> k, r |-> 0] \in BgTask
    BY <2>1 DEF BgTask
  <2>4. resp' \in Seq(Response) /\ req' \in Request /\ bgq' \in Seq(BgTask)
    <3>1. CASE /\ bgq' = Append(bgq, [op |-> "headersDone", k |-> k, r |-> 0])
               /\ UNCHANGED <<req, resp>>
      BY <1>0, <1>3, <2>3, <3>1, AppendProperties
    <3>2. CASE \E b \in Bodies : Respond(k, "headersDone", "final", b)
      BY <1>0, <1>3, <2>1, <3>2, RespondTypes
    <3> QED BY <2>2, <3>1, <3>2, Zenon
  <2> QED BY <1>1, <1>2, <2>2, <2>4, Types, TypesKept
<1>7. CASE CallOnBodyData
  <2> DEFINE k == Head(later).k
  <2>1. k \in ReqNo
    BY <1>2, <1>7, TaskFields DEF CallOnBodyData, RunLater
  <2>2. /\ \/ UNCHANGED <<req, bgq, resp>> /\ (app' = app \/ app' = [app EXCEPT !.got[k] = @ + 1])
           \/ app' = [app EXCEPT !.failed[k] = TRUE] /\ Respond(k, "bodyError", "final", 1)
        /\ later' = Tail(later)
    BY <1>7 DEF CallOnBodyData, RunLater
  <2> HIDE DEF k
  <2>3. /\ [app EXCEPT !.got[k] = @ + 1] \in Application
        /\ [app EXCEPT !.failed[k] = TRUE] \in Application
    <3>1. [ev |-> "open", n |-> 0] \in WsEvent /\ 0 \in 0..MaxReq
      BY <1>0 DEF WsEvent
    <3> QED BY <1>0, <2>1, <3>1, ApplicationTypes
  <2>4. resp' \in Seq(Response) /\ req' \in Request /\ bgq' \in Seq(BgTask)
    BY <1>0, <2>1, <2>2, RespondTypes
  <2> QED BY <1>0, <1>1, <1>2, <2>2, <2>3, <2>4, Types, TypesKept
<1>8. CASE CallGetResponse
  <2> DEFINE k == Head(later).k
             call == [app EXCEPT !.called[k] = @ + 1]
  <2>1. k \in ReqNo
    BY <1>2, <1>8, TaskFields DEF CallGetResponse, RunLater
  <2>2. /\ \/ \E b \in Bodies : Respond(k, "messageDone", "final", b)
           \/ /\ req' = [req EXCEPT !.responseScheduled = TRUE]
              /\ bgq' = Append(bgq, [op |-> "messageDone", k |-> k, r |-> 0])
              /\ UNCHANGED resp
           \/ UNCHANGED <<req, bgq, resp>>
        /\ \/ app' = app \/ app' = call \/ app' = [call EXCEPT !.promised = @ \cup {k}]
           \/ app' = [call EXCEPT !.declined = @ \cup {k}]
        /\ later' = Tail(later)
    BY <1>8 DEF CallGetResponse, RunLater
  <2>3. \A a \in Application : /\ [a EXCEPT !.called[k] = @ + 1] \in Application
                               /\ [a EXCEPT !.promised = @ \cup {k}] \in Application
                               /\ [a EXCEPT !.declined = @ \cup {k}] \in Application
    <3> HIDE DEF k
    <3>1. [ev |-> "open", n |-> 0] \in WsEvent /\ 0 \in 0..MaxReq
      BY <1>0 DEF WsEvent
    <3> QED BY <1>0, <2>1, <3>1, ApplicationTypes
  <2>4. app' \in Application
    <3>1. call \in Application
      BY <1>0, <2>3
    <3> HIDE DEF k, call
    <3> QED BY <1>0, <2>2, <2>3, <3>1
  <2> HIDE DEF k, call
  <2>5. [op |-> "messageDone", k |-> k, r |-> 0] \in BgTask
    BY <2>1 DEF BgTask
  <2>6. resp' \in Seq(Response) /\ req' \in Request /\ bgq' \in Seq(BgTask)
    <3>1. CASE \E b \in Bodies : Respond(k, "messageDone", "final", b)
      BY <1>3, <2>1, <3>1, RespondTypes
    <3>2. CASE /\ req' = [req EXCEPT !.responseScheduled = TRUE]
               /\ bgq' = Append(bgq, [op |-> "messageDone", k |-> k, r |-> 0])
               /\ UNCHANGED resp
      <4>1. req' \in Request
        BY <1>0, <3>2 DEF Request
      <4> QED BY <1>0, <2>5, <3>2, <4>1, AppendProperties
    <3> QED BY <1>0, <2>2, <3>1, <3>2
  <2> QED BY <1>0, <1>1, <1>2, <2>2, <2>4, <2>6, Types, TypesKept
<1>9. CASE CallWsOpen
  <2> DEFINE e == [op |-> "wsOpened"]
             a == <<e>>
  <2>1. later' = a \o Tail(later)
    BY <1>9 DEF CallWsOpen
  <2>2. e \in LaterTask
    BY WsTasks
  <2> HIDE DEF e
  <2>3. a \in Seq(LaterTask)
    BY <2>2
  <2> HIDE DEF a
  <2>4. later' \in Seq(LaterTask)
    BY <1>2, <2>1, <2>3, ConcatTypes
  <2>5. app' \in Application
    <3> DEFINE o == [ev |-> "open", n |-> 0]
    <3>1. o \in WsEvent
      BY DEF WsEvent
    <3>2. app' = app \/ app' = [app EXCEPT !.ws = Append(@, o)]
      BY <1>9 DEF CallWsOpen
    <3> HIDE DEF o
    <3>3. Append(app.ws, o) \in Seq(WsEvent)
      BY <1>0, <3>1, AppendProperties DEF Application, WsEvent
    <3> QED BY <1>0, <3>2, <3>3 DEF Application, WsEvent
  <2>6. bgq' \in Seq(BgTask) /\ UNCHANGED <<req, resp>>
    BY <1>0, <1>4, <1>9 DEF CallWsOpen
  <2> QED BY <1>0, <1>1, <2>4, <2>5, <2>6, Types, TypesKept
<1>10. CASE PassRequestBuffer
  <2> DEFINE e == [op |-> "wsRead", d |-> req.requestBuffer]
  <2>1. req.requestBuffer \in Seq(AnyToken) /\ <<>> \in Seq(Tokens)
    BY <1>0, RequestTypes, TokenSeqs, EmptySeq
  <2>2. e \in BgTask
    BY <2>1 DEF BgTask, AnyToken
  <2>3. /\ UNCHANGED <<req, bgq>> \/ /\ bgq' = Append(bgq, e)
                                     /\ req' = [req EXCEPT !.requestBuffer = <<>>]
        /\ later' = Tail(later) /\ UNCHANGED <<resp, app>>
    BY <1>10 DEF PassRequestBuffer, RunLater
  <2>4. [req EXCEPT !.requestBuffer = <<>>] \in Request
    BY <1>0, <2>1 DEF Request
  <2> HIDE DEF e
  <2>5. Append(bgq, e) \in Seq(BgTask)
    BY <1>0, <2>2, AppendProperties
  <2> QED BY <1>0, <1>1, <1>2, <2>3, <2>4, <2>5, Types, TypesKept
<1>11. CASE CallWsMessage
  <2> DEFINE o == [ev |-> "message", n |-> Head(later).n]
  <2>1. o \in WsEvent
    BY <1>2, <1>11, TaskFields DEF CallWsMessage, RunLater, WsEvent
  <2>2. app' = [app EXCEPT !.ws = Append(@, o)]
    BY <1>11 DEF CallWsMessage
  <2> HIDE DEF o
  <2>3. Append(app.ws, o) \in Seq(WsEvent)
    BY <1>0, <2>1, AppendProperties DEF Application, WsEvent
  <2>4. app' \in Application
    BY <1>0, <2>2, <2>3 DEF Application, WsEvent
  <2>5. bgq' \in Seq(BgTask)
    BY <1>0, <1>4, <1>11 DEF CallWsMessage
  <2> QED BY <1>1, <1>2, <1>11, <2>4, <2>5, Types, TypesKept DEF CallWsMessage, RunLater
<1>12. CASE CallWsClose
  <2> DEFINE o == [ev |-> "close", n |-> 0]
  <2>1. o \in WsEvent
    BY DEF WsEvent
  <2>2. app' = [app EXCEPT !.ws = Append(@, o)]
    BY <1>12 DEF CallWsClose
  <2> HIDE DEF o
  <2>3. Append(app.ws, o) \in Seq(WsEvent)
    BY <1>0, <2>1, AppendProperties DEF Application, WsEvent
  <2>4. app' \in Application
    BY <1>0, <2>2, <2>3 DEF Application, WsEvent
  <2> QED BY <1>1, <1>2, <1>12, <2>4, Types, TypesKept DEF CallWsClose, RunLater
<1> QED BY <1>5, <1>6, <1>7, <1>8, <1>9, <1>10, <1>11, <1>12 DEF MainTask

LEMMA PromiseTypes ==
  ASSUME TypeOK, PromiseResolves
  PROVE  TypeOK'
<1>1. PICK k \in app.promised, b \in Bodies :
        /\ Respond(k, "messageDone", "final", b)
        /\ app' = [app EXCEPT !.promised = @ \ {k}]
  BY DEF PromiseResolves
<1>2. app \in Application /\ k \in ReqNo /\ b \in Nat
  BY Types, ConstantsAssumption DEF Application
<1>3. resp' \in Seq(Response) /\ req' \in Request /\ bgq' \in Seq(BgTask)
  BY <1>1, <1>2, RespondTypes
<1>4. app' \in Application
  BY <1>1, <1>2 DEF Application
<1> QED BY <1>3, <1>4, Types, TypesKept DEF PromiseResolves

LEMMA InitTypes ==
  ASSUME Init
  PROVE  TypeOK
<1>1. /\ <<>> \in Seq(Shapes) /\ <<>> \in Seq(Tokens) /\ <<>> \in Seq(LaterTask)
      /\ <<>> \in Seq(BgTask) /\ <<>> \in Seq(Response) /\ <<>> \in Seq(OutWrite)
      /\ <<>> \in Seq(WsEvent) /\ <<>> \in Seq(Nat \X Nat)
      /\ client.shape = <<>> /\ Len(<<>>) = 0 /\ MaxReq \in Nat /\ MaxWs \in Nat
  BY EmptySeq, ConstantsAssumption DEF Init
<1>2. client \in Client
  BY <1>1 DEF Init, Client
<1>3. req \in Request
  BY <1>1 DEF Init, Request
<1>4. parser \in Parser
  BY <1>1 DEF Init, Parser
<1>5. app \in Application
  BY <1>1 DEF Init, Application, WsEvent
<1> QED BY <1>1, <1>2, <1>3, <1>4, <1>5 DEF Init, TypeOK, OutWrite

LEMMA TypeStep ==
  ASSUME IInv, [Next]_vars
  PROVE  TypeOK'
<1> USE DEF IInv
<1>1. CASE ClientStep
  BY <1>1, ClientSendTypes, ClientStepTypes DEF ClientStep
<1>2. CASE OnRead \/ OnReadError \/ ServerStops \/ OnClosed
  BY <1>2, ReadTypes, CloseTypes
<1>3. CASE Parse
  BY <1>3, ParseTypes, AfterExecuteTypes DEF Parse
<1>4. CASE FlushTask
  BY <1>4, FlushTypes DEF FlushTask
<1>5. CASE WriteOut \/ WriteFails \/ WriteCallback
  BY <1>5, WriteTypes DEF WriteCallback
<1>6. CASE MainTask \/ PromiseResolves
  BY <1>6, MainTypes, PromiseTypes
<1>7. CASE UNCHANGED vars
  BY <1>7, SMTT(40) DEF vars, TypeOK, LaterTask, BgTask, Response, Application, Client, Request, Parser,
              Tokens, ReqNo
<1> QED BY <1>1, <1>2, <1>3, <1>4, <1>5, <1>6, <1>7 DEF Next

-------------------------------------------------------------------------------
(* What the steps do to the queues. *)

\* The tasks o of the queue r are those of the queue q, d places nearer to the
\* front.
Shift(q, r, d, o) ==
  /\ \A i \in 1..Len(r) : r[i].op = o => i + d \in 1..Len(q) /\ q[i + d] = r[i]
  /\ \A i \in 1..Len(q) : q[i].op = o => i - d \in 1..Len(r) /\ r[i - d] = q[i]

Shifted(q, r, o) == \E d \in Nat : Shift(q, r, d, o)

NoWsOpen(q) == \A i \in 1..Len(q) : q[i].op \notin {"wsOpen", "wsOpened"}

\* The environments found depend on the tasks before only.
LEMMA EnvAtSame ==
  ASSUME NEW q, NEW r, NEW i \in Nat, NEW env, NEW k,
         \A j \in 1..i : r[j] = q[j], EnvAt(q, env, i, k)
  PROVE  EnvAt(r, env, i, k)
<1>1. CASE k = env /\ \A j \in 1..i : q[j].op # "initEnv"
  BY <1>1 DEF EnvAt
<1>2. CASE \E j \in 1..i : /\ q[j].op = "initEnv" /\ q[j].k = k
                           /\ \A n \in (j + 1)..i : q[n].op # "initEnv"
  <2>1. PICK j \in 1..i : /\ q[j].op = "initEnv" /\ q[j].k = k
                          /\ \A n \in (j + 1)..i : q[n].op # "initEnv"
    BY <1>2
  <2>2. \A n \in (j + 1)..i : n \in 1..i
    OBVIOUS
  <2>3. r[j].op = "initEnv" /\ r[j].k = k /\ \A n \in (j + 1)..i : r[n].op # "initEnv"
    BY <2>1, <2>2
  <2> QED BY <2>3 DEF EnvAt
<1> QED BY <1>1, <1>2 DEF EnvAt

\* A task that needs no new environment is put in the queue.
LEMMA AppendTask ==
  ASSUME NEW q \in Seq(LaterTask), NEW e \in LaterTask, NEW env, NEW cur,
         EnvOK(q, env, cur), e.op # "initEnv", e.op \in NeedsEnv => e.k = cur
  PROVE  EnvOK(Append(q, e), env, cur)
<1> DEFINE r == Append(q, e)
           n == Len(q)
<1>1. /\ n \in Nat /\ Len(r) = n + 1 /\ r[n + 1] = e
      /\ \A i \in 1..n : r[i] = q[i]
  BY LenProperties, AppendProperties
<1> HIDE DEF r, n
<1>2. EnvAt(r, env, n, cur)
  <2>1. EnvAt(q, env, n, cur)
    BY DEF EnvOK, n
  <2> QED BY <1>1, <2>1, EnvAtSame
<1>3. EnvAt(r, env, n + 1, cur)
  <2>1. CASE cur = env /\ \A j \in 1..n : r[j].op # "initEnv"
    <3>1. \A j \in 1..n + 1 : j \in 1..n \/ j = n + 1
      BY <1>1
    <3>2. \A j \in 1..n + 1 : r[j].op # "initEnv"
      BY <1>1, <2>1, <3>1
    <3> QED BY <2>1, <3>2 DEF EnvAt
  <2>2. CASE \E j \in 1..n : /\ r[j].op = "initEnv" /\ r[j].k = cur
                             /\ \A m \in (j + 1)..n : r[m].op # "initEnv"
    <3>1. PICK j \in 1..n : /\ r[j].op = "initEnv" /\ r[j].k = cur
                            /\ \A m \in (j + 1)..n : r[m].op # "initEnv"
      BY <2>2
    <3>2. \A m \in (j + 1)..(n + 1) : m \in (j + 1)..n \/ m = n + 1
      BY <1>1
    <3>3. j \in 1..n + 1 /\ \A m \in (j + 1)..(n + 1) : r[m].op # "initEnv"
      BY <1>1, <3>1, <3>2
    <3> QED BY <3>1, <3>3 DEF EnvAt
  <2> QED BY <1>2, <2>1, <2>2 DEF EnvAt
<1>4. ASSUME NEW i \in 1..n + 1, r[i].op \in NeedsEnv PROVE EnvAt(r, env, i, r[i].k)
  <2>1. CASE i = n + 1
    BY <1>1, <1>3, <1>4, <2>1
  <2>2. CASE i \in 1..n
    <3>1. EnvAt(q, env, i, q[i].k) /\ r[i] = q[i]
      BY <1>1, <1>4, <2>2 DEF EnvOK, n
    <3>2. i \in Nat /\ \A j \in 1..i : r[j] = q[j]
      BY <1>1, <2>2
    <3> QED BY <3>1, <3>2, EnvAtSame
  <2> QED BY <1>1, <2>1, <2>2
<1>5. EnvOK(r, env, cur)
  BY <1>1, <1>3, <1>4 DEF EnvOK
<1> QED BY <1>5 DEF r

\* The environment of a new request is put in the queue.
LEMMA AppendInitEnv ==
  ASSUME NEW q \in Seq(LaterTask), NEW k \in ReqNo, NEW env, NEW cur, EnvOK(q, env, cur)
  PROVE  EnvOK(Append(q, [op |-> "initEnv", k |-> k]), env, k)
<1> DEFINE e == [op |-> "initEnv", k |-> k]
           r == Append(q, e)
           n == Len(q)
<1>0. e \in LaterTask /\ e.op = "initEnv" /\ e.k = k
  BY LaterTasks DEF LaterTask
<1> HIDE DEF e
<1>1. /\ n \in Nat /\ Len(r) = n + 1 /\ r[n + 1] = e
      /\ \A i \in 1..n : r[i] = q[i]
  BY <1>0, LenProperties, AppendProperties
<1> HIDE DEF r, n
<1>2. EnvAt(r, env, n + 1, k)
  <2>1. n + 1 \in 1..n + 1 /\ \A m \in (n + 1 + 1)..(n + 1) : FALSE
    BY <1>1
  <2> QED BY <1>0, <1>1, <2>1 DEF EnvAt
<1>3. ASSUME NEW i \in 1..n + 1, r[i].op \in NeedsEnv PROVE EnvAt(r, env, i, r[i].k)
  <2>1. i # n + 1
    BY <1>0, <1>1, <1>3 DEF NeedsEnv
  <2>2. i \in 1..n /\ i \in Nat /\ \A j \in 1..i : r[j] = q[j]
    BY <1>1, <2>1
  <2>3. EnvAt(q, env, i, q[i].k) /\ r[i] = q[i]
    BY <1>1, <1>3, <2>2 DEF EnvOK, n
  <2> QED BY <2>2, <2>3, EnvAtSame
<1>4. EnvOK(r, env, k)
  BY <1>1, <1>2, <1>3 DEF EnvOK
<1> QED BY <1>4 DEF r, e

\* Tasks of a WebSocket are put in the queue.
LEMMA AppendQuiet ==
  ASSUME NEW q \in Seq(LaterTask), NEW w, Quiet(w), NEW env, NEW cur, EnvOK(q, env, cur)
  PROVE  EnvOK(q \o w, env, cur)
<1> DEFINE r == q \o w
           n == Len(q)
           m == Len(w)
<1>1. /\ n \in Nat /\ m \in Nat /\ Len(r) = n + m
      /\ \A i \in 1..n : r[i] = q[i]
      /\ \A i \in 1..m : r[n + i] = w[i]
  BY ConcatTypes DEF Quiet
<1>2. \A i \in 1..m : r[n + i].op \in {"wsMessage", "wsClose"}
  BY <1>1 DEF Quiet
<1> HIDE DEF r, n, m
<1>3. \A i \in (n + 1)..(n + m) : r[i].op \in {"wsMessage", "wsClose"}
  <2> SUFFICES ASSUME NEW i \in (n + 1)..(n + m) PROVE r[i].op \in {"wsMessage", "wsClose"}
    OBVIOUS
  <2>1. i - n \in 1..m /\ n + (i - n) = i
    BY <1>1
  <2> QED BY <1>2, <2>1
<1>4. \A i \in 1..(n + m) : i \in 1..n \/ i \in (n + 1)..(n + m)
  BY <1>1
<1>5. EnvAt(r, env, n, cur)
  <2>1. EnvAt(q, env, n, cur)
    BY DEF EnvOK, n
  <2> QED BY <1>1, <2>1, EnvAtSame
<1>6. EnvAt(r, env, n + m, cur)
  <2>1. CASE cur = env /\ \A j \in 1..n : r[j].op # "initEnv"
    <3>1. \A j \in 1..n + m : r[j].op # "initEnv"
      BY <1>3, <1>4, <2>1
    <3> QED BY <2>1, <3>1 DEF EnvAt
  <2>2. CASE \E j \in 1..n : /\ r[j].op = "initEnv" /\ r[j].k = cur
                             /\ \A x \in (j + 1)..n : r[x].op # "initEnv"
    <3>1. PICK j \in 1..n : /\ r[j].op = "initEnv" /\ r[j].k = cur
                            /\ \A x \in (j + 1)..n : r[x].op # "initEnv"
      BY <2>2
    <3>2. \A x \in (j + 1)..(n + m) : x \in (j + 1)..n \/ x \in (n + 1)..(n + m)
      BY <1>1
    <3>3. j \in 1..n + m /\ \A x \in (j + 1)..(n + m) : r[x].op # "initEnv"
      BY <1>1, <1>3, <3>1, <3>2
    <3> QED BY <3>1, <3>3 DEF EnvAt
  <2> QED BY <1>5, <2>1, <2>2 DEF EnvAt
<1>7. ASSUME NEW i \in 1..n + m, r[i].op \in NeedsEnv PROVE EnvAt(r, env, i, r[i].k)
  <2>1. i \in 1..n
    BY <1>3, <1>4, <1>7 DEF NeedsEnv
  <2>2. EnvAt(q, env, i, q[i].k) /\ r[i] = q[i]
    BY <1>1, <1>7, <2>1 DEF EnvOK, n
  <2>3. i \in Nat /\ \A j \in 1..i : r[j] = q[j]
    BY <1>1, <2>1
  <2> QED BY <2>2, <2>3, EnvAtSame
<1>8. EnvOK(r, env, cur)
  BY <1>1, <1>6, <1>7 DEF EnvOK
<1> QED BY <1>8 DEF r

\* The first task is run.
LEMMA RunFirst ==
  ASSUME NEW q \in Seq(LaterTask), q # <<>>, NEW env, NEW cur, EnvOK(q, env, cur)
  PROVE  EnvOK(Tail(q), IF Head(q).op = "initEnv" THEN Head(q).k ELSE env, cur)
<1> DEFINE r == Tail(q)
           n == Len(q)
           env2 == IF Head(q).op = "initEnv" THEN Head(q).k ELSE env
<1>1. /\ n \in Nat \ {0} /\ Len(r) = n - 1 /\ Head(q) = q[1]
      /\ \A i \in 1..Len(r) : r[i] = q[i + 1]
  BY TailRange
<1>2. \A i \in 1..n - 1 : r[i] = q[i + 1]
  BY <1>1
<1>3. env2 = IF q[1].op = "initEnv" THEN q[1].k ELSE env
  BY <1>1
<1> HIDE DEF r, n, env2
<1>4. ASSUME NEW i \in 0..n - 1, NEW k, EnvAt(q, env, i + 1, k) PROVE EnvAt(r, env2, i, k)
  <2>0. 1 \in 1..i + 1 /\ \A j \in 1..i : j + 1 \in 1..i + 1 /\ r[j] = q[j + 1]
    BY <1>1, <1>2
  <2>1. CASE k = env /\ \A j \in 1..i + 1 : q[j].op # "initEnv"
    <3>1. env2 = k /\ \A j \in 1..i : r[j].op # "initEnv"
      BY <1>3, <2>0, <2>1
    <3> QED BY <3>1 DEF EnvAt
  <2>2. CASE \E j \in 1..i + 1 : /\ q[j].op = "initEnv" /\ q[j].k = k
                                 /\ \A x \in (j + 1)..(i + 1) : q[x].op # "initEnv"
    <3>1. PICK j \in 1..i + 1 : /\ q[j].op = "initEnv" /\ q[j].k = k
                                /\ \A x \in (j + 1)..(i + 1) : q[x].op # "initEnv"
      BY <2>2
    <3>2. CASE j = 1
      <4>1. \A x \in 1..i : x + 1 \in (j + 1)..(i + 1)
        BY <3>2
      <4>2. \A x \in 1..i : r[x].op # "initEnv"
        BY <2>0, <3>1, <4>1
      <4>3. env2 = k
        BY <1>3, <3>1, <3>2
      <4> QED BY <4>2, <4>3 DEF EnvAt
    <3>3. CASE j # 1
      <4>1. j - 1 \in 1..i /\ j - 1 + 1 = j
        BY <3>3
      <4>2. r[j - 1] = q[j]
        BY <2>0, <4>1
      <4>3. \A x \in (j - 1 + 1)..i : x \in 1..i /\ x + 1 \in (j + 1)..(i + 1)
        BY <3>3
      <4>4. \A x \in (j - 1 + 1)..i : r[x].op # "initEnv"
        BY <2>0, <3>1, <4>3
      <4> QED BY <3>1, <4>1, <4>2, <4>4 DEF EnvAt
    <3> QED BY <3>2, <3>3
  <2> QED BY <1>4, <2>1, <2>2 DEF EnvAt
<1>5. ASSUME NEW i \in 1..n - 1, r[i].op \in NeedsEnv PROVE EnvAt(r, env2, i, r[i].k)
  <2>1. i + 1 \in 1..n /\ i \in 0..n - 1 /\ r[i] = q[i + 1]
    BY <1>1, <1>2
  <2>2. EnvAt(q, env, i + 1, q[i + 1].k)
    BY <1>5, <2>1 DEF EnvOK, n
  <2> QED BY <1>4, <2>1, <2>2
<1>6. EnvAt(r, env2, n - 1, cur)
  <2>1. n - 1 \in 0..n - 1 /\ n - 1 + 1 = n
    BY <1>1
  <2>2. EnvAt(q, env, n, cur)
    BY DEF EnvOK, n
  <2> QED BY <1>4, <2>1, <2>2
<1>7. EnvOK(r, env2, cur)
  BY <1>1, <1>5, <1>6 DEF EnvOK
<1> QED BY <1>7 DEF r, env2

\* R's part of the opening of a WebSocket goes on with its second half.
LEMMA ReplaceFirst ==
  ASSUME NEW q \in Seq(LaterTask), q # <<>>, NEW e \in LaterTask, NEW env, NEW cur,
         EnvOK(q, env, cur), Head(q).op \notin NeedsEnv \cup {"initEnv"},
         e.op \notin NeedsEnv \cup {"initEnv"}
  PROVE  /\ EnvOK(<<e>> \o Tail(q), env, cur)
         /\ <<e>> \o Tail(q) \in Seq(LaterTask)
         /\ Len(<<e>> \o Tail(q)) = Len(q)
         /\ (<<e>> \o Tail(q))[1] = e
         /\ \A i \in 2..Len(q) : (<<e>> \o Tail(q))[i] = q[i]
<1> DEFINE a == <<e>>
           b == Tail(q)
           r == a \o b
           n == Len(q)
<1>0. a \in Seq(LaterTask) /\ Len(a) = 1 /\ a[1] = e
  OBVIOUS
<1>1. /\ n \in Nat \ {0} /\ b \in Seq(LaterTask) /\ Len(b) = n - 1 /\ Head(q) = q[1]
      /\ \A i \in 1..Len(b) : b[i] = q[i + 1]
  BY TailRange
<1> HIDE DEF a, b, n
<1>2. /\ r \in Seq(LaterTask) /\ Len(r) = Len(a) + Len(b)
      /\ \A i \in 1..Len(a) : r[i] = a[i]
      /\ \A i \in 1..Len(b) : r[Len(a) + i] = b[i]
  <2>1. a \in Seq(LaterTask) /\ b \in Seq(LaterTask)
    BY <1>0, <1>1
  <2> QED BY <2>1, ConcatTypes
<1> HIDE DEF r
<1>3. Len(r) = n /\ r[1] = e
  BY <1>0, <1>1, <1>2
<1>4. ASSUME NEW i \in 2..n PROVE r[i] = q[i]
  <2>1. i - 1 \in 1..Len(b) /\ 1 + (i - 1) = i /\ i - 1 + 1 = i
    BY <1>1
  <2>2. r[1 + (i - 1)] = b[i - 1] /\ b[i - 1] = q[i - 1 + 1]
    BY <1>0, <1>1, <1>2, <2>1
  <2> QED BY <2>1, <2>2
<1>5. ASSUME NEW i \in 1..n, NEW k, EnvAt(q, env, i, k) PROVE EnvAt(r, env, i, k)
  <2>0. \A j \in 1..i : j = 1 \/ j \in 2..n
    BY <1>1
  <2>1. CASE k = env /\ \A j \in 1..i : q[j].op # "initEnv"
    <3>1. \A j \in 1..i : r[j].op # "initEnv"
      BY <1>3, <1>4, <2>0, <2>1
    <3> QED BY <2>1, <3>1 DEF EnvAt
  <2>2. CASE \E j \in 1..i : /\ q[j].op = "initEnv" /\ q[j].k = k
                             /\ \A x \in (j + 1)..i : q[x].op # "initEnv"
    <3>1. PICK j \in 1..i : /\ q[j].op = "initEnv" /\ q[j].k = k
                            /\ \A x \in (j + 1)..i : q[x].op # "initEnv"
      BY <2>2
    <3>2. j # 1
      BY <1>1, <3>1
    <3>3. j \in 2..n /\ \A x \in (j + 1)..i : x \in 2..n
      BY <1>1, <3>2
    <3>4. r[j] = q[j] /\ \A x \in (j + 1)..i : r[x].op # "initEnv"
      BY <1>4, <3>1, <3>3
    <3> QED BY <3>1, <3>4 DEF EnvAt
  <2> QED BY <1>5, <2>1, <2>2 DEF EnvAt
<1>6. ASSUME NEW i \in 1..n, r[i].op \in NeedsEnv PROVE EnvAt(r, env, i, r[i].k)
  <2>1. i \in 2..n
    BY <1>1, <1>3, <1>6
  <2>2. r[i] = q[i]
    BY <1>4, <2>1
  <2>3. EnvAt(q, env, i, q[i].k)
    BY <1>6, <2>2 DEF EnvOK, n
  <2> QED BY <1>5, <2>2, <2>3
<1>7. EnvAt(r, env, n, cur)
  <2>1. EnvAt(q, env, n, cur) /\ n \in 1..n
    BY <1>1 DEF EnvOK, n
  <2> QED BY <1>5, <2>1
<1>8. EnvOK(r, env, cur)
  BY <1>3, <1>6, <1>7 DEF EnvOK
<1> QED BY <1>2, <1>3, <1>4, <1>8 DEF r, a, b, n

LEMMA ShiftSame ==
  ASSUME NEW S, NEW q \in Seq(S), NEW o
  PROVE  Shifted(q, q, o)
<1>1. 0 \in Nat /\ \A i \in 1..Len(q) : i + 0 = i /\ i - 0 = i
  BY LenProperties
<1>2. Shift(q, q, 0, o)
  BY <1>1 DEF Shift
<1> QED BY <1>1, <1>2 DEF Shifted

LEMMA ShiftConcat ==
  ASSUME NEW S, NEW q \in Seq(S), NEW w \in Seq(S), NEW o, \A i \in 1..Len(w) : w[i].op # o
  PROVE  Shifted(q, q \o w, o)
<1> DEFINE r == q \o w
           n == Len(q)
           m == Len(w)
<1>1. /\ n \in Nat /\ m \in Nat /\ Len(r) = n + m
      /\ \A i \in 1..n : r[i] = q[i]
      /\ \A i \in 1..m : r[n + i] = w[i]
  BY ConcatTypes
<1>2. \A i \in 1..m : r[n + i].op # o
  BY <1>1
<1> HIDE DEF r, n, m
<1>3. ASSUME NEW i \in 1..(n + m), r[i].op = o PROVE i \in 1..n
  <2> SUFFICES ASSUME i \notin 1..n PROVE FALSE
    OBVIOUS
  <2>1. i - n \in 1..m /\ n + (i - n) = i
    BY <1>1
  <2> QED BY <1>2, <1>3, <2>1
<1>4. /\ \A i \in 1..(n + m) : i + 0 = i
      /\ \A i \in 1..n : i - 0 = i /\ i \in 1..(n + m)
  BY <1>1
<1>5. Shift(q, r, 0, o)
  BY <1>1, <1>3, <1>4 DEF Shift, n
<1> QED BY <1>5 DEF Shifted, r

LEMMA ShiftAppend ==
  ASSUME NEW S, NEW q \in Seq(S), NEW e \in S, NEW o, e.op # o
  PROVE  Shifted(q, Append(q, e), o)
<1> DEFINE r == Append(q, e)
           n == Len(q)
<1>1. /\ n \in Nat /\ Len(r) = n + 1 /\ r[n + 1] = e
      /\ \A i \in 1..n : r[i] = q[i]
  BY LenProperties, AppendProperties
<1> HIDE DEF r, n
<1>2. ASSUME NEW i \in 1..(n + 1), r[i].op = o PROVE i \in 1..n
  <2>1. i = n + 1 \/ i \in 1..n
    BY <1>1
  <2> QED BY <1>1, <1>2, <2>1
<1>3. /\ \A i \in 1..(n + 1) : i + 0 = i
      /\ \A i \in 1..n : i - 0 = i /\ i \in 1..(n + 1)
  BY <1>1
<1>4. Shift(q, r, 0, o)
  BY <1>1, <1>2, <1>3 DEF Shift, n
<1> QED BY <1>4 DEF Shifted, r

LEMMA ShiftTail ==
  ASSUME NEW S, NEW q \in Seq(S), q # <<>>, NEW o, Head(q).op # o
  PROVE  Shifted(q, Tail(q), o)
<1> DEFINE r == Tail(q)
           n == Len(q)
<1>1. /\ n \in Nat \ {0} /\ Len(r) = n - 1 /\ Head(q) = q[1]
      /\ \A i \in 1..Len(r) : r[i] = q[i + 1]
  BY TailRange
<1> HIDE DEF r, n
<1>2. \A i \in 1..n - 1 : i + 1 \in 1..n /\ r[i] = q[i + 1]
  BY <1>1
<1>3. ASSUME NEW i \in 1..n, q[i].op = o PROVE i - 1 \in 1..n - 1 /\ r[i - 1] = q[i]
  <2>1. i # 1
    BY <1>1, <1>3
  <2>2. i - 1 \in 1..n - 1 /\ i - 1 + 1 = i
    BY <1>1, <2>1
  <2> QED BY <1>2, <2>2
<1>4. Shift(q, r, 1, o)
  BY <1>1, <1>2, <1>3 DEF Shift, n
<1> QED BY <1>4 DEF Shifted, r

LEMMA ShiftFirst ==
  ASSUME NEW q, NEW r, Len(r) = Len(q), Len(q) \in Nat, NEW o,
         q[1].op # o, r[1].op # o, \A i \in 2..Len(q) : r[i] = q[i]
  PROVE  Shifted(q, r, o)
<1>1. \A i \in 1..Len(q) : i + 0 = i /\ i - 0 = i /\ (i = 1 \/ i \in 2..Len(q))
  OBVIOUS
<1>2. Shift(q, r, 0, o)
  BY <1>1 DEF Shift
<1> QED BY <1>2 DEF Shifted

LEMMA ShiftTrans ==
  ASSUME NEW q, NEW r, NEW s, NEW o, Len(q) \in Nat, Len(r) \in Nat, Len(s) \in Nat,
         Shifted(q, r, o), Shifted(r, s, o)
  PROVE  Shifted(q, s, o)
<1>1. PICK c \in Nat : Shift(q, r, c, o)
  BY DEF Shifted
<1>2. PICK d \in Nat : Shift(r, s, d, o)
  BY DEF Shifted
<1>3. ASSUME NEW i \in 1..Len(s), s[i].op = o
      PROVE  i + (c + d) \in 1..Len(q) /\ q[i + (c + d)] = s[i]
  <2>1. i + d \in 1..Len(r) /\ r[i + d] = s[i]
    BY <1>2, <1>3 DEF Shift
  <2>2. i + d + c \in 1..Len(q) /\ q[i + d + c] = s[i]
    BY <1>1, <1>3, <2>1 DEF Shift
  <2>3. i + d + c = i + (c + d)
    OBVIOUS
  <2> QED BY <2>2, <2>3
<1>4. ASSUME NEW i \in 1..Len(q), q[i].op = o
      PROVE  i - (c + d) \in 1..Len(s) /\ s[i - (c + d)] = q[i]
  <2>1. i - c \in 1..Len(r) /\ r[i - c] = q[i]
    BY <1>1, <1>4 DEF Shift
  <2>2. i - c - d \in 1..Len(s) /\ s[i - c - d] = q[i]
    BY <1>2, <1>4, <2>1 DEF Shift
  <2>3. i - c - d = i - (c + d)
    OBVIOUS
  <2> QED BY <2>2, <2>3
<1>5. c + d \in Nat /\ Shift(q, s, c + d, o)
  BY <1>3, <1>4 DEF Shift
<1> QED BY <1>5 DEF Shifted

\* Unless R is shown headers, or has been, the onHeaders tasks stay.
LaterKept == /\ EnvOK(later', app'.env, parser'.cur)
             /\ Shifted(later, later', "onHeaders")
             /\ NoWsOpen(later) => NoWsOpen(later')

LEMMA SameLater ==
  ASSUME TypeOK, Environments, later' = later, app'.env = app.env, parser'.cur = parser.cur
  PROVE  LaterKept
<1>1. Shifted(later, later, "onHeaders")
  BY Types, ShiftSame
<1> QED BY <1>1 DEF LaterKept, Environments

LEMMA MoreQuiet ==
  ASSUME TypeOK, Environments, NEW w, Quiet(w), later' = later \o w,
         app'.env = app.env, parser'.cur = parser.cur
  PROVE  LaterKept
<1>1. later \in Seq(LaterTask) /\ w \in Seq(LaterTask) /\ \A i \in 1..Len(w) : w[i].op # "onHeaders"
  BY Types DEF Quiet
<1>2. Shifted(later, later \o w, "onHeaders")
  BY <1>1, ShiftConcat
<1>3. EnvOK(later \o w, app.env, parser.cur)
  BY <1>1, AppendQuiet DEF Environments
<1>4. NoWsOpen(later) => NoWsOpen(later \o w)
  <2> DEFINE r == later \o w
  <2>1. /\ Len(later) \in Nat /\ Len(w) \in Nat /\ Len(r) = Len(later) + Len(w)
        /\ \A i \in 1..Len(later) : r[i] = later[i]
        /\ \A i \in 1..Len(w) : r[Len(later) + i] = w[i]
    BY <1>1, ConcatTypes
  <2> HIDE DEF r
  <2> SUFFICES ASSUME NoWsOpen(later), NEW i \in 1..Len(r)
               PROVE  r[i].op \notin {"wsOpen", "wsOpened"}
    BY DEF NoWsOpen, r
  <2>2. CASE i \in 1..Len(later)
    BY <2>1, <2>2 DEF NoWsOpen
  <2>3. CASE i \notin 1..Len(later)
    <3>1. i - Len(later) \in 1..Len(w) /\ Len(later) + (i - Len(later)) = i
      BY <2>1, <2>3
    <3>2. r[i] = w[i - Len(later)]
      BY <2>1, <3>1
    <3> QED BY <3>1, <3>2 DEF Quiet
  <2> QED BY <2>2, <2>3
<1> QED BY <1>2, <1>3, <1>4 DEF LaterKept

LEMMA OneMore ==
  ASSUME TypeOK, NEW env, NEW cur, NEW q \in Seq(LaterTask), EnvOK(q, env, cur), NEW e \in LaterTask,
         e.op # "initEnv", e.op \in NeedsEnv => e.k = cur
  PROVE  /\ Append(q, e) \in Seq(LaterTask)
         /\ EnvOK(Append(q, e), env, cur)
         /\ e.op # "onHeaders" => Shifted(q, Append(q, e), "onHeaders")
         /\ e.op \notin {"wsOpen", "wsOpened"} /\ NoWsOpen(q) => NoWsOpen(Append(q, e))
<1>1. EnvOK(Append(q, e), env, cur)
  BY AppendTask
<1>2. e.op # "onHeaders" => Shifted(q, Append(q, e), "onHeaders")
  BY ShiftAppend
<1>3. /\ Append(q, e) \in Seq(LaterTask)
      /\ Len(q) \in Nat /\ Len(Append(q, e)) = Len(q) + 1 /\ Append(q, e)[Len(q) + 1] = e
      /\ \A i \in 1..Len(q) : Append(q, e)[i] = q[i]
  BY LenProperties, AppendProperties
<1>4. \A i \in 1..(Len(q) + 1) : i = Len(q) + 1 \/ i \in 1..Len(q)
  BY <1>3
<1>5. e.op \notin {"wsOpen", "wsOpened"} /\ NoWsOpen(q) => NoWsOpen(Append(q, e))
  BY <1>3, <1>4 DEF NoWsOpen
<1> QED BY <1>1, <1>2, <1>3, <1>5

LEMMA OneLess ==
  ASSUME TypeOK, Environments, later # <<>>, later' = Tail(later), parser'.cur = parser.cur,
         app'.env = IF Head(later).op = "initEnv" THEN Head(later).k ELSE app.env
  PROVE  /\ EnvOK(later', app'.env, parser'.cur)
         /\ Head(later).op # "onHeaders" => Shifted(later, later', "onHeaders")
         /\ NoWsOpen(later) => NoWsOpen(later')
<1>1. EnvOK(later', app'.env, parser'.cur)
  BY Types, RunFirst DEF Environments
<1>2. Head(later).op # "onHeaders" => Shifted(later, later', "onHeaders")
  BY Types, ShiftTail
<1>3. NoWsOpen(later) => NoWsOpen(later')
  <2>1. /\ Len(later) \in Nat /\ Len(Tail(later)) = Len(later) - 1
        /\ \A i \in 1..Len(later) - 1 : Tail(later)[i] = later[i + 1]
    BY LaterFront
  <2>2. \A i \in 1..Len(later) - 1 : i + 1 \in 1..Len(later)
    BY <2>1
  <2> QED BY <2>1, <2>2 DEF NoWsOpen
<1> QED BY <1>1, <1>2, <1>3

\* What each step does to the main thread's queue.
LEMMA LaterStep ==
  ASSUME TypeOK, HandedOver, Waits, Environments, [Next]_vars
  PROVE  /\ EnvOK(later', app'.env, parser'.cur)
         /\ Shifted(later, later', "onHeaders") \/ ParseHeadersComplete \/ CallOnHeaders
         /\ (NoWsOpen(later) => NoWsOpen(later')) \/ UpgradeConnection
<1>0. /\ parser \in Parser /\ later \in Seq(LaterTask) /\ app \in Application /\ bgq \in Seq(BgTask)
      /\ EnvOK(later, app.env, parser.cur) /\ NeedsEnv = {"onHeaders", "onBodyData", "getResponse"}
  BY Types DEF Environments, NeedsEnv
<1>1. CASE \/ \E s \in Shapes : ClientSend(s)
           \/ ClientSendWs \/ ClientLeaves \/ ParseWaiting \/ ParseRefuses \/ KeepForLater
           \/ ParseDone \/ HeadersCompleteComplete \/ BodyError \/ MessageCompleteComplete
           \/ WriteOut \/ WriteFails \/ OnClosed \/ UNCHANGED vars
  <2>1. later' = later /\ app' = app
    BY <1>1, ZenonT(40) DEF ClientSend, ClientSendWs, ClientLeaves, ParseWaiting, ParseRefuses, KeepForLater,
                ParseDone, HeadersCompleteComplete, BodyError, MessageCompleteComplete, WriteOut,
                WriteFails, OnClosed, vars
  <2>2. parser'.cur = parser.cur
    <3>1. CASE ParseWaiting \/ ParseRefuses \/ BodyError
      BY <1>0, <3>1 DEF ParseWaiting, ParseRefuses, BodyError, Parser
    <3>2. CASE KeepForLater \/ ParseDone
      BY <1>0, <3>2 DEF KeepForLater, ParseDone, AfterExecute, Parser
    <3>3. CASE HeadersCompleteComplete
      BY <1>0, <3>3 DEF HeadersCompleteComplete, Execute, Parser
    <3>4. CASE parser' = parser
      BY <3>4
    <3> QED BY <1>1, <3>1, <3>2, <3>3, <3>4
            DEF ClientSend, ClientSendWs, ClientLeaves, MessageCompleteComplete, WriteOut,
                WriteFails, OnClosed, vars
  <2> QED BY <2>1, <2>2, SameLater, SMTT(40) DEF LaterKept
<1>2. CASE PromiseResolves
  <2>1. later' = later /\ parser' = parser /\ app'.env = app.env
    BY <1>0, <1>2 DEF PromiseResolves, Application
  <2> QED BY <2>1, SameLater DEF LaterKept
<1>3. CASE OnRead \/ OnReadError \/ ServerStops \/ ScheduledClose \/ ScheduledWsRead
           \/ OnResponseWritten \/ OnChunkWritten
  <2>1. app' = app /\ parser'.cur = parser.cur
    <3>1. CASE OnRead
      BY <1>0, <3>1 DEF OnRead, Execute, Parser
    <3>2. CASE ~OnRead
      BY <1>3, <3>2 DEF OnReadError, ServerStops, ScheduledClose, ScheduledWsRead,
                        OnResponseWritten, OnChunkWritten
    <3> QED BY <3>1, <3>2
  <2>2. later' = later \/ \E w : Quiet(w) /\ later' = later \o w
    <3>1. CASE OnReadError \/ ServerStops \/ ScheduledClose
      BY <3>1, CloseTasksQuiet, SMTT(40) DEF OnReadError, ServerStops, ScheduledClose
    <3>2. CASE OnResponseWritten \/ OnChunkWritten
      BY <3>2, CloseTasksQuiet DEF OnResponseWritten, OnChunkWritten, Release, NextChunk
    <3>3. CASE ScheduledWsRead
      <4>1. bgq # <<>> /\ Head(bgq).op = "wsRead"
        BY <3>3 DEF ScheduledWsRead, Flush
      <4>2. Head(bgq).d \in Seq(AnyToken)
        BY <4>1, BgFront, TaskFields
      <4>3. [i \in DOMAIN Head(bgq).d |-> Token("W", 0)] \in Seq(AnyToken)
        <5>1. DOMAIN Head(bgq).d = 1..Len(Head(bgq).d) /\ Len(Head(bgq).d) \in Nat
          BY <4>2, LenProperties
        <5>2. Token("W", 0) \in AnyToken
          BY DEF Token, AnyToken
        <5> QED BY <5>1, <5>2, SeqDef
      <4> QED BY <3>3, <4>2, <4>3, WsMessagesQuiet DEF ScheduledWsRead
    <3>4. CASE OnRead
      <4>1. PICK n \in 1..Len(client.net) :
              later' = later \/ later' = later \o WsMessages(SubSeq(client.net, 1, n))
                \/ later' = later \o <<>>
        BY <3>4 DEF OnRead
      <4>2. SubSeq(client.net, 1, n) \in Seq(AnyToken)
        <5>1. client.net \in Seq(AnyToken)
          BY Types, TokenSeqs DEF Client
        <5>2. Len(client.net) \in Nat /\ \A i \in 1..Len(client.net) : client.net[i] \in AnyToken
          BY <5>1, LenProperties, ElementOfSeq
        <5>3. n \in Int /\ \A i \in 1..n : client.net[i] \in AnyToken
          BY <5>2
        <5> QED BY <5>3, SubSeqProperties
      <4>3. Quiet(<<>>)
        BY EmptySeq DEF Quiet
      <4> QED BY <4>1, <4>2, <4>3, WsMessagesQuiet
    <3> QED BY <1>3, <3>1, <3>2, <3>3, <3>4
  <2> QED BY <2>1, <2>2, SameLater, MoreQuiet DEF LaterKept
<1>4. CASE ParseMessageBegin
  <2> DEFINE k == Head(parser.data).k
             e == [op |-> "initEnv", k |-> k]
  <2>1. later' = Append(later, e) /\ app' = app
        /\ parser' = [parser EXCEPT !.st = "headers", !.cur = k, !.data = Tail(parser.data)]
    BY <1>4 DEF ParseMessageBegin
  <2>2. k \in ReqNo
    BY <1>4, NextToken DEF ParseMessageBegin, Executing
  <2> HIDE DEF k
  <2>3. parser'.cur = k
    BY <1>0, <2>1 DEF Parser
  <2>4. EnvOK(later', app'.env, parser'.cur)
    BY <1>0, <2>1, <2>2, <2>3, AppendInitEnv
  <2>5. e \in LaterTask /\ e.op = "initEnv"
    BY <2>2, LaterTasks
  <2> HIDE DEF e
  <2>6. Shifted(later, later', "onHeaders")
    BY <1>0, <2>1, <2>5, ShiftAppend
  <2>7. NoWsOpen(later) => NoWsOpen(later')
    <3>1. /\ Len(later) \in Nat /\ Len(Append(later, e)) = Len(later) + 1
          /\ Append(later, e)[Len(later) + 1] = e
          /\ \A i \in 1..Len(later) : Append(later, e)[i] = later[i]
      BY <1>0, LenProperties, AppendProperties
    <3>2. \A i \in 1..(Len(later) + 1) : i = Len(later) + 1 \/ i \in 1..Len(later)
      BY <3>1
    <3> QED BY <2>1, <2>5, <3>1, <3>2 DEF NoWsOpen
  <2> QED BY <2>4, <2>6, <2>7
<1>5. CASE ParseHeadersComplete \/ ParseHeadersDone
  <2> DEFINE k == parser.cur
             e == [op |-> "onHeaders", k |-> k]
             g == [op |-> "getResponse", k |-> k]
  <2>1. /\ app' = app
        /\ \/ later' = later
           \/ later' = Append(later, e) /\ ParseHeadersComplete
           \/ later' = Append(later, g)
    BY <1>5 DEF ParseHeadersComplete, ParseHeadersDone, MessageComplete
  <2>2. k \in ReqNo
    BY <1>5, ParserTypes DEF ParseHeadersComplete, ParseHeadersDone, Executing
  <2>3. parser'.cur = k
    BY <1>0, <1>5 DEF Parser, ParseHeadersComplete, ParseHeadersDone
  <2>4. /\ e \in LaterTask /\ e.op = "onHeaders" /\ e.k = k
        /\ g \in LaterTask /\ g.op = "getResponse" /\ g.k = k
    BY <2>2, LaterTasks
  <2>5. CASE later' = later
    BY <2>1, <2>3, <2>5, SameLater DEF LaterKept
  <2> HIDE DEF k, e, g
  <2>6. CASE later' = Append(later, e) /\ ParseHeadersComplete
    <3>1. EnvOK(Append(later, e), app.env, k) /\ (NoWsOpen(later) => NoWsOpen(Append(later, e)))
      BY <1>0, <2>4, OneMore DEF k
    <3> QED BY <2>1, <2>3, <2>6, <3>1
  <2>7. CASE later' = Append(later, g)
    <3>1. EnvOK(Append(later, g), app.env, k) /\ (NoWsOpen(later) => NoWsOpen(Append(later, g)))
          /\ Shifted(later, Append(later, g), "onHeaders")
      BY <1>0, <2>4, OneMore DEF k
    <3> QED BY <2>1, <2>3, <2>7, <3>1
  <2> QED BY <2>1, <2>5, <2>6, <2>7
<1>6. CASE ParseBody
  <2> DEFINE k == parser.cur
             e == [op |-> "onBodyData", k |-> k]
             g == [op |-> "getResponse", k |-> k]
             r == Append(later, e)
  <2>1. app' = app /\ (later' = r \/ later' = Append(r, g))
    BY <1>6 DEF ParseBody
  <2>2. k \in ReqNo
    BY <1>6, ParserTypes DEF ParseBody, Executing
  <2>3. parser'.cur = k
    BY <1>0, <1>6 DEF Parser, ParseBody
  <2>4. /\ e \in LaterTask /\ e.op = "onBodyData" /\ e.k = k
        /\ g \in LaterTask /\ g.op = "getResponse" /\ g.k = k
    BY <2>2, LaterTasks
  <2>5. EnvOK(later, app.env, k)
    BY <1>0
  <2> HIDE DEF k, e, g
  <2>6. r \in Seq(LaterTask) /\ EnvOK(r, app.env, k) /\ (NoWsOpen(later) => NoWsOpen(r))
        /\ Shifted(later, r, "onHeaders")
    BY <1>0, <2>4, <2>5, OneMore
  <2> HIDE DEF r
  <2>7. Append(r, g) \in Seq(LaterTask) /\ EnvOK(Append(r, g), app.env, k)
        /\ (NoWsOpen(r) => NoWsOpen(Append(r, g))) /\ Shifted(r, Append(r, g), "onHeaders")
    BY <2>4, <2>6, OneMore
  <2>8. Shifted(later, Append(r, g), "onHeaders")
    <3>1. Len(later) \in Nat /\ Len(r) \in Nat /\ Len(Append(r, g)) \in Nat
      BY <1>0, <2>6, <2>7, LenProperties
    <3> QED BY <2>6, <2>7, <3>1, ShiftTrans
  <2> QED BY <2>1, <2>3, <2>6, <2>7, <2>8
<1>7. CASE UpgradeConnection
  <2> DEFINE e == [op |-> "wsOpen"]
  <2>1. app' = app /\ (later' = later \/ later' = Append(later, e))
    BY <1>7 DEF UpgradeConnection
  <2>2. parser'.cur = parser.cur
    BY <1>0, <1>7 DEF UpgradeConnection, AfterExecute, Parser
  <2>3. e \in LaterTask /\ e.op = "wsOpen"
    BY WsTasks
  <2>4. CASE later' = later
    BY <2>1, <2>2, <2>4, SameLater DEF LaterKept
  <2> HIDE DEF e
  <2>5. CASE later' = Append(later, e)
    <3>1. EnvOK(Append(later, e), app.env, parser.cur) /\ Shifted(later, Append(later, e), "onHeaders")
      BY <1>0, <2>3, OneMore
    <3> QED BY <1>7, <2>1, <2>2, <2>5, <3>1
  <2> QED BY <2>1, <2>4, <2>5
<1>8. CASE InitializeEnv \/ CallOnHeaders \/ CallOnBodyData \/ CallGetResponse
           \/ PassRequestBuffer \/ CallWsMessage \/ CallWsClose
  <2>1. later # <<>> /\ later' = Tail(later) /\ parser' = parser
    BY <1>8 DEF InitializeEnv, CallOnHeaders, CallOnBodyData, CallGetResponse, PassRequestBuffer,
                CallWsMessage, CallWsClose, RunLater
  <2>2. Head(later).op = "onHeaders" => CallOnHeaders
    BY <1>8 DEF InitializeEnv, CallOnBodyData, CallGetResponse, PassRequestBuffer,
                CallWsMessage, CallWsClose, RunLater
  <2>3. app'.env = IF Head(later).op = "initEnv" THEN Head(later).k ELSE app.env
    <3>1. CASE InitializeEnv
      BY <1>0, <3>1 DEF InitializeEnv, RunLater, Application
    <3>2. CASE CallOnHeaders \/ PassRequestBuffer
      BY <3>2 DEF CallOnHeaders, PassRequestBuffer, RunLater
    <3>3. CASE CallOnBodyData
      BY <1>0, <3>3 DEF CallOnBodyData, RunLater, Application
    <3>4. CASE CallGetResponse
      BY <1>0, <3>4 DEF CallGetResponse, RunLater, Application
    <3>5. CASE CallWsMessage \/ CallWsClose
      BY <1>0, <3>5 DEF CallWsMessage, CallWsClose, RunLater, Application
    <3> QED BY <1>8, <3>1, <3>2, <3>3, <3>4, <3>5
  <2> QED BY <2>1, <2>2, <2>3, OneLess
<1>9. CASE CallWsOpen
  <2> DEFINE e == [op |-> "wsOpened"]
             r == <<e>> \o Tail(later)
  <2>1. later # <<>> /\ Head(later).op = "wsOpen" /\ later' = r
        /\ parser' = parser
    BY <1>9 DEF CallWsOpen
  <2>2. e \in LaterTask /\ e.op = "wsOpened"
    BY WsTasks
  <2> HIDE DEF e
  <2>3. /\ EnvOK(r, app.env, parser.cur)
        /\ r \in Seq(LaterTask) /\ Len(r) = Len(later) /\ r[1] = e
        /\ \A i \in 2..Len(later) : r[i] = later[i]
    BY <1>0, <2>1, <2>2, ReplaceFirst
  <2>4. app'.env = app.env
    BY <1>0, <1>9 DEF CallWsOpen, Application
  <2> HIDE DEF r
  <2>5. later[1].op = "wsOpen" /\ Len(later) \in Nat \ {0}
    BY <2>1, LaterFront
  <2>6. Shifted(later, r, "onHeaders")
    BY <2>2, <2>3, <2>5, ShiftFirst
  <2>7. ~NoWsOpen(later)
    BY <2>5 DEF NoWsOpen
  <2> QED BY <2>1, <2>3, <2>4, <2>6, <2>7
<1> QED BY <1>1, <1>2, <1>3, <1>4, <1>5, <1>6, <1>7, <1>8, <1>9
        DEF Next, ClientStep, Parse, FlushTask, WriteCallback, MainTask

\* What each step does to the background queue: the outcomes of onHeaders stay,
\* unless one is added or taken.
LEMMA BgStep ==
  ASSUME TypeOK, [Next]_vars
  PROVE  \/ Shifted(bgq, bgq', "headersDone")
         \/ ParseHeadersComplete \/ CallOnHeaders \/ HeadersCompleteComplete
<1>0. bgq \in Seq(BgTask) /\ resp \in Seq(Response) /\ Len(resp) + 1 \in Nat
      /\ app \in Application
  <2>1. Len(resp) \in Nat
    BY Types, LenProperties
  <2> QED BY <2>1, Types
<1>1. ASSUME bgq' = bgq PROVE Shifted(bgq, bgq', "headersDone")
  BY <1>0, <1>1, ShiftSame
<1>2. ASSUME NEW e \in BgTask, e.op # "headersDone", bgq' = Append(bgq, e)
      PROVE  Shifted(bgq, bgq', "headersDone")
  BY <1>0, <1>2, ShiftAppend
<1>3. CASE BodyError \/ MessageCompleteComplete \/ ScheduledClose \/ ScheduledWsRead
  <2>1. bgq # <<>> /\ bgq' = Tail(bgq) /\ Head(bgq).op # "headersDone"
    BY <1>3, Zenon DEF BodyError, MessageCompleteComplete, ScheduledClose, ScheduledWsRead, Flush
  <2> QED BY <1>0, <2>1, ShiftTail
<1>4. CASE \/ \E s \in Shapes : ClientSend(s)
           \/ ClientSendWs \/ ClientLeaves \/ OnRead \/ OnReadError \/ ServerStops
           \/ ParseMessageBegin \/ ParseWaiting \/ ParseHeadersDone \/ ParseBody
           \/ ParseRefuses \/ KeepForLater \/ UpgradeConnection \/ ParseDone
           \/ WriteOut \/ WriteFails \/ OnResponseWritten \/ OnChunkWritten \/ OnClosed
           \/ InitializeEnv \/ CallWsClose \/ UNCHANGED vars
  <2>1. bgq' = bgq
    BY <1>4, Zenon DEF ClientSend, ClientSendWs, ClientLeaves, OnRead, OnReadError, ServerStops,
                ParseMessageBegin, ParseWaiting, ParseHeadersDone, ParseBody, ParseRefuses,
                KeepForLater, UpgradeConnection, ParseDone, WriteOut, WriteFails,
                OnResponseWritten, OnChunkWritten, OnClosed, InitializeEnv, CallWsClose, vars
  <2> QED BY <1>1, <2>1
<1>5. CASE CallOnBodyData \/ CallGetResponse \/ PromiseResolves
  <2>1. CASE bgq' = bgq
    BY <1>1, <2>1
  <2>2. CASE \E k \in ReqNo, r \in Nat :
               \/ bgq' = Append(bgq, [op |-> "bodyError", k |-> k, r |-> r])
               \/ bgq' = Append(bgq, [op |-> "messageDone", k |-> k, r |-> r])
    <3>1. PICK k \in ReqNo, r \in Nat :
               \/ bgq' = Append(bgq, [op |-> "bodyError", k |-> k, r |-> r])
               \/ bgq' = Append(bgq, [op |-> "messageDone", k |-> k, r |-> r])
      BY <2>2
    <3> DEFINE e == [op |-> "bodyError", k |-> k, r |-> r]
               g == [op |-> "messageDone", k |-> k, r |-> r]
    <3>2. e \in BgTask /\ g \in BgTask
      BY DEF BgTask
    <3>3. e.op # "headersDone" /\ g.op # "headersDone"
      OBVIOUS
    <3> HIDE DEF e, g
    <3> QED BY <1>2, <3>1, <3>2, <3>3 DEF e, g
  <2>3. CASE CallOnBodyData
    <3>1. Head(later).k \in ReqNo
      BY <2>3, LaterFront, TaskFields DEF CallOnBodyData, RunLater
    <3>2. \/ bgq' = bgq
          \/ bgq' = Append(bgq, [op |-> "bodyError", k |-> Head(later).k, r |-> Len(resp) + 1])
      BY <2>3 DEF CallOnBodyData, Respond
    <3> QED BY <1>0, <2>1, <2>2, <3>1, <3>2
  <2>4. CASE CallGetResponse
    <3>1. Head(later).k \in ReqNo
      BY <2>4, LaterFront, TaskFields DEF CallGetResponse, RunLater
    <3>2. \/ bgq' = bgq
          \/ bgq' = Append(bgq, [op |-> "messageDone", k |-> Head(later).k, r |-> 0])
          \/ bgq' = Append(bgq, [op |-> "messageDone", k |-> Head(later).k, r |-> Len(resp) + 1])
      BY <2>4 DEF CallGetResponse, Respond
    <3> QED BY <1>0, <2>1, <2>2, <3>1, <3>2
  <2>5. CASE PromiseResolves
    <3>1. PICK k \in app.promised, b \in Bodies : Respond(k, "messageDone", "final", b)
      BY <2>5 DEF PromiseResolves
    <3>2. k \in ReqNo
      BY <1>0 DEF Application
    <3>3. bgq' = Append(bgq, [op |-> "messageDone", k |-> k, r |-> Len(resp) + 1])
      BY <3>1 DEF Respond
    <3> QED BY <1>0, <2>2, <3>2, <3>3
  <2> QED BY <1>5, <2>3, <2>4, <2>5
<1>6. CASE CallWsOpen \/ CallWsMessage \/ PassRequestBuffer
  <2> DEFINE e == [op |-> "close"]
             g == [op |-> "wsRead", d |-> req.requestBuffer]
  <2>1. bgq' = bgq \/ bgq' = Append(bgq, e) \/ bgq' = Append(bgq, g)
    BY <1>6 DEF CallWsOpen, CallWsMessage, PassRequestBuffer
  <2>2. e \in BgTask /\ e.op # "headersDone"
    BY WsTasks
  <2>3. g \in BgTask /\ g.op # "headersDone"
    <3>1. req.requestBuffer \in Seq(AnyToken)
      BY Types, RequestTypes, TokenSeqs
    <3> QED BY <3>1 DEF BgTask, AnyToken
  <2> HIDE DEF e, g
  <2> QED BY <1>1, <1>2, <2>1, <2>2, <2>3
<1> QED BY <1>3, <1>4, <1>5, <1>6
        DEF Next, ClientStep, Parse, FlushTask, WriteCallback, MainTask

-------------------------------------------------------------------------------
(* The parser waits once for each request. *)

\* Waits, of queues and a parser.
WaitsAt(q, b, st, cur) ==
  /\ \A i \in 1..Len(q) : q[i].op = "onHeaders" =>
       /\ st = "wait" /\ q[i].k = cur
       /\ \A j \in 1..Len(q) : q[j].op = "onHeaders" => j = i
       /\ \A j \in 1..Len(b) : b[j].op # "headersDone"
  /\ \A i \in 1..Len(b) : b[i].op = "headersDone" =>
       /\ st = "wait" /\ b[i].k = cur
       /\ \A j \in 1..Len(b) : b[j].op = "headersDone" => j = i
  /\ st = "wait" => \/ \E i \in 1..Len(q) : q[i].op = "onHeaders"
                    \/ \E i \in 1..Len(b) : b[i].op = "headersDone"

\* Nobody else starts or ends a wait.
LEMMA WaitsKept ==
  ASSUME NEW q, NEW r, NEW b, NEW c, NEW st, NEW st2, NEW cur, NEW cur2,
         Len(q) \in Nat, Len(r) \in Nat, Len(b) \in Nat, Len(c) \in Nat,
         WaitsAt(q, b, st, cur), Shifted(q, r, "onHeaders"), Shifted(b, c, "headersDone"),
         st2 = "wait" <=> st = "wait", st = "wait" => cur2 = cur
  PROVE  WaitsAt(r, c, st2, cur2)
<1>1. PICK d \in Nat : Shift(q, r, d, "onHeaders")
  BY DEF Shifted
<1>2. PICK e \in Nat : Shift(b, c, e, "headersDone")
  BY DEF Shifted
<1>3. ASSUME NEW i \in 1..Len(r), r[i].op = "onHeaders"
      PROVE  /\ st2 = "wait" /\ r[i].k = cur2
             /\ \A j \in 1..Len(r) : r[j].op = "onHeaders" => j = i
             /\ \A j \in 1..Len(c) : c[j].op # "headersDone"
  <2>1. i + d \in 1..Len(q) /\ q[i + d] = r[i]
    BY <1>1, <1>3 DEF Shift
  <2>2. /\ st = "wait" /\ q[i + d].k = cur
        /\ \A j \in 1..Len(q) : q[j].op = "onHeaders" => j = i + d
        /\ \A j \in 1..Len(b) : b[j].op # "headersDone"
    BY <1>3, <2>1 DEF WaitsAt
  <2>3. ASSUME NEW j \in 1..Len(r), r[j].op = "onHeaders" PROVE j = i
    <3>1. j + d \in 1..Len(q) /\ q[j + d] = r[j]
      BY <1>1, <2>3 DEF Shift
    <3>2. j + d = i + d
      BY <2>2, <2>3, <3>1
    <3> QED BY <3>2
  <2>4. ASSUME NEW j \in 1..Len(c), c[j].op = "headersDone" PROVE FALSE
    <3>1. j + e \in 1..Len(b) /\ b[j + e] = c[j]
      BY <1>2, <2>4 DEF Shift
    <3> QED BY <2>2, <2>4, <3>1
  <2> QED BY <2>1, <2>2, <2>3, <2>4
<1>4. ASSUME NEW i \in 1..Len(c), c[i].op = "headersDone"
      PROVE  /\ st2 = "wait" /\ c[i].k = cur2
             /\ \A j \in 1..Len(c) : c[j].op = "headersDone" => j = i
  <2>1. i + e \in 1..Len(b) /\ b[i + e] = c[i]
    BY <1>2, <1>4 DEF Shift
  <2>2. /\ st = "wait" /\ b[i + e].k = cur
        /\ \A j \in 1..Len(b) : b[j].op = "headersDone" => j = i + e
    BY <1>4, <2>1 DEF WaitsAt
  <2>3. ASSUME NEW j \in 1..Len(c), c[j].op = "headersDone" PROVE j = i
    <3>1. j + e \in 1..Len(b) /\ b[j + e] = c[j]
      BY <1>2, <2>3 DEF Shift
    <3>2. j + e = i + e
      BY <2>2, <2>3, <3>1
    <3> QED BY <3>2
  <2> QED BY <2>1, <2>2, <2>3
<1>5. ASSUME st2 = "wait"
      PROVE  \/ \E i \in 1..Len(r) : r[i].op = "onHeaders"
             \/ \E i \in 1..Len(c) : c[i].op = "headersDone"
  <2>1. CASE \E i \in 1..Len(q) : q[i].op = "onHeaders"
    <3>1. PICK i \in 1..Len(q) : q[i].op = "onHeaders"
      BY <2>1
    <3>2. i - d \in 1..Len(r) /\ r[i - d] = q[i]
      BY <1>1, <3>1 DEF Shift
    <3> QED BY <3>1, <3>2
  <2>2. CASE \E i \in 1..Len(b) : b[i].op = "headersDone"
    <3>1. PICK i \in 1..Len(b) : b[i].op = "headersDone"
      BY <2>2
    <3>2. i - e \in 1..Len(c) /\ c[i - e] = b[i]
      BY <1>2, <3>1 DEF Shift
    <3> QED BY <3>1, <3>2
  <2> QED BY <1>5, <2>1, <2>2 DEF WaitsAt
<1> QED BY <1>3, <1>4, <1>5 DEF WaitsAt

\* _on_headers_complete begins a wait, with a task in one of the queues.
LEMMA WaitBegins ==
  ASSUME TypeOK, Waits, ParseHeadersComplete
  PROVE  Waits'
<1> DEFINE k == parser.cur
           e == [op |-> "onHeaders", k |-> k]
           g == [op |-> "headersDone", k |-> k, r |-> Len(resp) + 1]
<1>0. /\ later \in Seq(LaterTask) /\ bgq \in Seq(BgTask) /\ k \in ReqNo /\ Len(resp) + 1 \in Nat
      /\ Len(later) \in Nat /\ Len(bgq) \in Nat
  <2>1. later \in Seq(LaterTask) /\ bgq \in Seq(BgTask) /\ resp \in Seq(Response)
    BY Types
  <2>2. k \in ReqNo
    BY ParserTypes DEF ParseHeadersComplete, Executing
  <2> QED BY <2>1, <2>2, LenProperties
<1>1. parser.st = "headers" /\ parser'.st = "wait" /\ parser'.cur = k
  BY Types DEF ParseHeadersComplete, Executing, Parser
<1>2. /\ \A i \in 1..Len(later) : later[i].op # "onHeaders"
      /\ \A i \in 1..Len(bgq) : bgq[i].op # "headersDone"
  BY <1>1 DEF Waits
<1>3. \/ bgq' = Append(bgq, g) /\ later' = later
      \/ later' = Append(later, e) /\ bgq' = bgq
  BY DEF ParseHeadersComplete
<1>4. e \in LaterTask /\ e.op = "onHeaders" /\ e.k = k
  BY <1>0, LaterTasks
<1>5. g \in BgTask /\ g.op = "headersDone" /\ g.k = k
  BY <1>0 DEF BgTask
<1> HIDE DEF k, e, g
<1>6. CASE later' = Append(later, e) /\ bgq' = bgq
  <2>1. /\ Len(later') = Len(later) + 1 /\ later'[Len(later) + 1] = e
        /\ \A i \in 1..Len(later) : later'[i] = later[i]
    BY <1>0, <1>4, <1>6, AppendProperties
  <2>2. \A i \in 1..(Len(later) + 1) : i \in 1..Len(later) \/ i = Len(later) + 1
    BY <1>0
  <2>3. Len(later) + 1 \in 1..(Len(later) + 1)
    BY <1>0
  <2>4. \A i \in 1..Len(later') : later'[i].op = "onHeaders" => i = Len(later) + 1
    BY <1>2, <2>1, <2>2
  <2> QED BY <1>1, <1>2, <1>4, <1>6, <2>1, <2>3, <2>4 DEF Waits
<1>7. CASE bgq' = Append(bgq, g) /\ later' = later
  <2>1. /\ Len(bgq') = Len(bgq) + 1 /\ bgq'[Len(bgq) + 1] = g
        /\ \A i \in 1..Len(bgq) : bgq'[i] = bgq[i]
    BY <1>0, <1>5, <1>7, AppendProperties
  <2>2. \A i \in 1..(Len(bgq) + 1) : i \in 1..Len(bgq) \/ i = Len(bgq) + 1
    BY <1>0
  <2>3. Len(bgq) + 1 \in 1..(Len(bgq) + 1)
    BY <1>0
  <2>4. \A i \in 1..Len(bgq') : bgq'[i].op = "headersDone" => i = Len(bgq) + 1
    BY <1>2, <2>1, <2>2
  <2> QED BY <1>1, <1>2, <1>5, <1>7, <2>1, <2>3, <2>4 DEF Waits
<1> QED BY <1>3, <1>6, <1>7

\* R's answer to onHeaders takes the place of the call.
LEMMA WaitHandedBack ==
  ASSUME TypeOK, Waits, CallOnHeaders
  PROVE  Waits'
<1> DEFINE k == Head(later).k
           g(r) == [op |-> "headersDone", k |-> k, r |-> r]
<1>0. /\ later \in Seq(LaterTask) /\ bgq \in Seq(BgTask) /\ Len(resp) + 1 \in Nat
      /\ Len(bgq) \in Nat
  <2>1. later \in Seq(LaterTask) /\ bgq \in Seq(BgTask) /\ resp \in Seq(Response)
    BY Types
  <2> QED BY <2>1, LenProperties
<1>1. later # <<>> /\ later' = Tail(later) /\ Head(later).op = "onHeaders" /\ parser' = parser
  BY DEF CallOnHeaders, RunLater
<1>2. /\ Head(later) = later[1] /\ Len(later) \in Nat \ {0} /\ Len(later') = Len(later) - 1
      /\ \A i \in 1..Len(later) - 1 : later'[i] = later[i + 1]
      /\ k \in ReqNo
  BY <1>1, LaterFront, TaskFields
<1>3. /\ parser.st = "wait" /\ k = parser.cur
      /\ \A j \in 1..Len(later) : later[j].op = "onHeaders" => j = 1
      /\ \A j \in 1..Len(bgq) : bgq[j].op # "headersDone"
  <2>1. 1 \in 1..Len(later) /\ later[1].op = "onHeaders" /\ k = later[1].k
    BY <1>1, <1>2
  <2> HIDE DEF k
  <2> QED BY <2>1 DEF Waits
<1>4. PICK r \in Nat : bgq' = Append(bgq, g(r))
  <2>1. bgq' = Append(bgq, g(0)) \/ bgq' = Append(bgq, g(Len(resp) + 1))
    BY DEF CallOnHeaders, Respond
  <2> HIDE DEF g
  <2> QED BY <1>0, <2>1
<1> DEFINE e == g(r)
<1>5. e \in BgTask /\ e.op = "headersDone" /\ e.k = k
  BY <1>2 DEF BgTask
<1>6. bgq' = Append(bgq, e)
  BY <1>4
<1> HIDE DEF e, g, k
<1>7. /\ Len(bgq') = Len(bgq) + 1 /\ bgq'[Len(bgq) + 1] = e
      /\ \A i \in 1..Len(bgq) : bgq'[i] = bgq[i]
  BY <1>0, <1>5, <1>6, AppendProperties
<1>8. /\ \A i \in 1..(Len(bgq) + 1) : i \in 1..Len(bgq) \/ i = Len(bgq) + 1
      /\ Len(bgq) + 1 \in 1..(Len(bgq) + 1)
  BY <1>0
<1>9. \A i \in 1..Len(bgq') : bgq'[i].op = "headersDone" => i = Len(bgq) + 1
  BY <1>3, <1>7, <1>8
<1>10. ASSUME NEW i \in 1..Len(later'), later'[i].op = "onHeaders" PROVE FALSE
  <2>1. i \in 1..Len(later) - 1 /\ i + 1 \in 1..Len(later) /\ i + 1 # 1
    BY <1>2
  <2>2. later[i + 1].op = "onHeaders"
    BY <1>2, <1>10, <2>1
  <2> QED BY <1>3, <2>1, <2>2
<1> QED BY <1>1, <1>3, <1>5, <1>7, <1>8, <1>9, <1>10 DEF Waits

\* _on_headers_complete_complete ends the wait.
LEMMA WaitEnds ==
  ASSUME TypeOK, Waits, HeadersCompleteComplete
  PROVE  Waits'
<1>1. /\ bgq # <<>> /\ bgq' = Tail(bgq) /\ Head(bgq).op = "headersDone" /\ later' = later
      /\ parser'.st = "ready"
  BY Types DEF HeadersCompleteComplete, Flush, Execute, Parser
<1>2. /\ Head(bgq) = bgq[1] /\ Len(bgq) \in Nat \ {0} /\ Len(bgq') = Len(bgq) - 1
      /\ \A i \in 1..Len(bgq) - 1 : bgq'[i] = bgq[i + 1]
  BY <1>1, BgFront
<1>3. 1 \in 1..Len(bgq) /\ bgq[1].op = "headersDone"
  BY <1>1, <1>2
<1>4. /\ \A j \in 1..Len(bgq) : bgq[j].op = "headersDone" => j = 1
      /\ \A j \in 1..Len(later) : later[j].op # "onHeaders"
  BY <1>3 DEF Waits
<1>5. ASSUME NEW i \in 1..Len(bgq'), bgq'[i].op = "headersDone" PROVE FALSE
  <2>1. i \in 1..Len(bgq) - 1 /\ i + 1 \in 1..Len(bgq) /\ i + 1 # 1
    BY <1>2
  <2>2. bgq[i + 1].op = "headersDone"
    BY <1>2, <1>5, <2>1
  <2> QED BY <1>4, <2>1, <2>2
<1> QED BY <1>1, <1>4, <1>5 DEF Waits

\* No other step makes the parser wait or stop waiting, or moves a waiting
\* parser on to another request.
LEMMA WaitStep ==
  ASSUME TypeOK, HandedOver, [Next]_vars
  PROVE  \/ /\ parser'.st = "wait" <=> parser.st = "wait"
            /\ parser.st = "wait" => parser'.cur = parser.cur
         \/ ParseHeadersComplete \/ HeadersCompleteComplete
<1>0. parser \in Parser
  BY Types
<1>1. CASE ParseMessageBegin \/ ParseHeadersDone \/ ParseBody
  <2>1. parser.st # "wait"
    BY <1>1 DEF ParseMessageBegin, ParseHeadersDone, ParseBody, Executing
  <2>2. CASE ParseMessageBegin
    BY <1>0, <2>1, <2>2 DEF ParseMessageBegin, Parser
  <2>3. CASE ParseHeadersDone
    <3>1. NewMessage \in {"start", "dead"}
      BY DEF NewMessage
    <3> QED BY <1>0, <2>1, <2>3, <3>1 DEF ParseHeadersDone, Parser
  <2>4. CASE ParseBody
    <3>1. NewMessage \in {"start", "dead"}
      BY DEF NewMessage
    <3>2. parser.st = "body"
      BY <2>4 DEF ParseBody, Executing
    <3> QED BY <1>0, <2>4, <3>1, <3>2 DEF ParseBody, Parser
  <2> QED BY <1>1, <2>2, <2>3, <2>4
<1>2. CASE ParseWaiting \/ ParseRefuses \/ BodyError
  BY <1>0, <1>2 DEF ParseWaiting, ParseRefuses, BodyError, Parser
<1>3. CASE KeepForLater \/ UpgradeConnection \/ ParseDone
  BY <1>0, <1>3 DEF KeepForLater, UpgradeConnection, ParseDone, AfterExecute, Parser
<1>4. CASE OnRead
  BY <1>0, <1>4 DEF OnRead, Execute, Parser
<1>5. CASE parser' = parser
  BY <1>5
<1>6. CASE MainTask
  BY <1>5, <1>6 DEF MainTask, InitializeEnv, CallOnHeaders, CallOnBodyData, CallGetResponse,
                    CallWsOpen, PassRequestBuffer, CallWsMessage, CallWsClose
<1>7. CASE \/ \E s \in Shapes : ClientSend(s)
           \/ ClientSendWs \/ ClientLeaves \/ OnReadError \/ ServerStops
           \/ MessageCompleteComplete \/ ScheduledClose \/ ScheduledWsRead
           \/ WriteOut \/ WriteFails \/ OnResponseWritten \/ OnChunkWritten \/ OnClosed
           \/ PromiseResolves \/ UNCHANGED vars
  BY <1>5, <1>7, Zenon DEF ClientSend, ClientSendWs, ClientLeaves, OnReadError, ServerStops,
                    MessageCompleteComplete, ScheduledClose, ScheduledWsRead, WriteOut, WriteFails,
                    OnResponseWritten, OnChunkWritten, OnClosed, PromiseResolves, vars
<1> QED BY <1>1, <1>2, <1>3, <1>4, <1>6, <1>7
        DEF Next, ClientStep, Parse, FlushTask, WriteCallback

LEMMA WaitsStep ==
  ASSUME IInv, TypeOK', [Next]_vars
  PROVE  Waits'
<1> USE DEF IInv
<1>1. CASE ParseHeadersComplete \/ CallOnHeaders \/ HeadersCompleteComplete
  BY <1>1, WaitBegins, WaitHandedBack, WaitEnds
<1>2. CASE ~(ParseHeadersComplete \/ CallOnHeaders \/ HeadersCompleteComplete)
  <2>1. Shifted(later, later', "onHeaders") /\ Shifted(bgq, bgq', "headersDone")
    BY <1>2, LaterStep, BgStep
  <2>2. (parser'.st = "wait" <=> parser.st = "wait") /\ (parser.st = "wait" => parser'.cur = parser.cur)
    BY <1>2, WaitStep
  <2>3. Len(later) \in Nat /\ Len(later') \in Nat /\ Len(bgq) \in Nat /\ Len(bgq') \in Nat
    BY LenProperties DEF TypeOK
  <2>4. WaitsAt(later, bgq, parser.st, parser.cur)
    BY DEF Waits, WaitsAt
  <2> DEFINE q == later
             r == later'
             b == bgq
             c == bgq'
             st == parser.st
             st2 == parser'.st
             cur == parser.cur
             cur2 == parser'.cur
  <2>5. WaitsAt(r, c, st2, cur2)
    <3> HIDE DEF q, r, b, c, st, st2, cur, cur2
    <3> QED BY <2>1, <2>2, <2>3, <2>4, WaitsKept DEF q, r, b, c, st, st2, cur, cur2
  <2> QED BY <2>5 DEF Waits, WaitsAt
<1> QED BY <1>1, <1>2

-------------------------------------------------------------------------------
(* The connection object, and what is handed over between the handlers. *)

\* A connection once closed, not read from or ignoring new data remains so; a
\* close ends the reading.
ReqKept(c, d) ==
  /\ d.protocol = c.protocol /\ d.isUpgrade = c.isUpgrade /\ d.wsc = c.wsc
  /\ d.requestBuffer = c.requestBuffer
  /\ d.reading => c.reading
  /\ c.ignoreNewData => d.ignoreNewData
  /\ c.isClosing => d.isClosing
  /\ d.isClosing /\ ~c.isClosing => ~d.reading

LEMMA ReqEffects ==
  ASSUME NEW c \in Request
  PROVE  /\ ReqKept(c, c) /\ ReqKept(c, Closed(c)) /\ ReqKept(c, RequestCompleted(c))
         /\ ReqKept(c, StopReading(RequestCompleted(c)))
         /\ ReqKept(c, [c EXCEPT !.responseScheduled = TRUE])
         /\ ReqKept(c, [c EXCEPT !.handlingRequest = TRUE, !.responseScheduled = FALSE])
         /\ ReqKept(c, [Closed(c) EXCEPT !.handlingRequest = TRUE, !.responseScheduled = FALSE])
<1>1. ReqKept(c, c) /\ ReqKept(c, Closed(c))
  BY DEF ReqKept, Closed, Request
<1>2. ReqKept(c, RequestCompleted(c)) /\ ReqKept(c, [c EXCEPT !.responseScheduled = TRUE])
  BY DEF ReqKept, RequestCompleted, Request
<1>3. ReqKept(c, StopReading(RequestCompleted(c)))
  BY DEF ReqKept, RequestCompleted, StopReading, Request
<1>4. /\ ReqKept(c, [c EXCEPT !.handlingRequest = TRUE, !.responseScheduled = FALSE])
      /\ ReqKept(c, [Closed(c) EXCEPT !.handlingRequest = TRUE, !.responseScheduled = FALSE])
  BY DEF ReqKept, Closed, Request
<1> QED BY <1>1, <1>2, <1>3, <1>4

\* All steps but these keep the protocol and the buffer.
LEMMA ReqStep ==
  ASSUME TypeOK, [Next]_vars
  PROVE  \/ ReqKept(req, req')
         \/ ParseHeadersComplete \/ KeepForLater \/ UpgradeConnection \/ HeadersCompleteComplete
         \/ OnClosed \/ PassRequestBuffer
<1>0. /\ req \in Request
      /\ ReqKept(req, req) /\ ReqKept(req, Closed(req)) /\ ReqKept(req, RequestCompleted(req))
      /\ ReqKept(req, StopReading(RequestCompleted(req)))
      /\ ReqKept(req, [req EXCEPT !.responseScheduled = TRUE])
      /\ ReqKept(req, [req EXCEPT !.handlingRequest = TRUE, !.responseScheduled = FALSE])
      /\ ReqKept(req, [Closed(req) EXCEPT !.handlingRequest = TRUE, !.responseScheduled = FALSE])
  BY Types, ReqEffects
<1>1. CASE \/ \E s \in Shapes : ClientSend(s)
           \/ ClientSendWs \/ ClientLeaves \/ OnRead
           \/ ParseWaiting \/ ParseHeadersDone \/ ParseBody \/ ParseRefuses
           \/ ScheduledWsRead \/ WriteOut \/ WriteFails \/ InitializeEnv
           \/ CallWsOpen \/ CallWsMessage \/ CallWsClose \/ UNCHANGED vars
  <2>1. req' = req
    BY <1>1, Zenon DEF ClientSend, ClientSendWs, ClientLeaves, OnRead, ParseWaiting, ParseHeadersDone,
                ParseBody, ParseRefuses, ScheduledWsRead, WriteOut, WriteFails, InitializeEnv,
                CallWsOpen, CallWsMessage, CallWsClose, vars
  <2> QED BY <1>0, <2>1, SMTT(40)
<1>2. CASE OnReadError \/ ServerStops \/ ParseDone \/ ScheduledClose
           \/ OnResponseWritten \/ OnChunkWritten
  <2>1. req' = req \/ req' = Closed(req)
    BY <1>2 DEF OnReadError, ServerStops, ParseDone, ScheduledClose, OnResponseWritten,
                OnChunkWritten, Release, NextChunk
  <2> QED BY <1>0, <2>1, SMTT(40)
<1>3. CASE BodyError \/ MessageCompleteComplete
  <2>1. \/ req' = req \/ req' = RequestCompleted(req) \/ req' = StopReading(RequestCompleted(req))
    BY <1>3 DEF BodyError, MessageCompleteComplete
  <2> QED BY <1>0, <2>1
<1>4. CASE CallOnHeaders \/ CallOnBodyData \/ CallGetResponse \/ PromiseResolves
  <2>1. req' = req \/ req' = [req EXCEPT !.responseScheduled = TRUE]
    BY <1>4 DEF CallOnHeaders, CallOnBodyData, CallGetResponse, PromiseResolves, Respond
  <2> QED BY <1>0, <2>1
<1>5. CASE ParseMessageBegin
  <2>1. \/ req' = [req EXCEPT !.handlingRequest = TRUE, !.responseScheduled = FALSE]
        \/ req' = [Closed(req) EXCEPT !.handlingRequest = TRUE, !.responseScheduled = FALSE]
    BY <1>5 DEF ParseMessageBegin
  <2> QED BY <1>0, <2>1
<1> QED BY <1>1, <1>2, <1>3, <1>4, <1>5, SMTT(40)
        DEF Next, ClientStep, Parse, FlushTask, WriteCallback, MainTask

\* The fields of the object after the other steps.
LEMMA ReqOther ==
  ASSUME TypeOK
  PROVE  /\ ParseHeadersComplete \/ KeepForLater \/ HeadersCompleteComplete \/ PassRequestBuffer
              \/ OnClosed =>
              /\ req'.protocol = req.protocol
              /\ req'.reading => req.reading
              /\ req.ignoreNewData => req'.ignoreNewData
              /\ req'.isClosing = req.isClosing
         /\ ParseHeadersComplete \/ KeepForLater \/ HeadersCompleteComplete \/ PassRequestBuffer
              => req'.wsc = req.wsc
         /\ KeepForLater \/ HeadersCompleteComplete \/ PassRequestBuffer \/ OnClosed
              => req'.isUpgrade = req.isUpgrade
         /\ ParseHeadersComplete \/ OnClosed => req'.requestBuffer = req.requestBuffer
         /\ OnClosed => req.isClosing
         /\ ParseHeadersComplete => /\ req'.reading = req.reading
                                    /\ req'.ignoreNewData = req.ignoreNewData
         /\ KeepForLater => /\ req'.requestBuffer = req.requestBuffer \o parser.data
                            /\ req'.reading = req.reading /\ req'.ignoreNewData = req.ignoreNewData
         /\ HeadersCompleteComplete => req'.requestBuffer = <<>>
<1>0. req \in Request
  BY Types
<1>1. ASSUME ParseHeadersComplete
      PROVE  /\ req'.protocol = req.protocol /\ req'.reading = req.reading
             /\ req'.ignoreNewData = req.ignoreNewData /\ req'.isClosing = req.isClosing
             /\ req'.wsc = req.wsc /\ req'.requestBuffer = req.requestBuffer
  BY <1>0, <1>1 DEF ParseHeadersComplete, Request
<1>2. ASSUME KeepForLater
      PROVE  /\ req'.protocol = req.protocol /\ req'.reading = req.reading
             /\ req'.ignoreNewData = req.ignoreNewData /\ req'.isClosing = req.isClosing
             /\ req'.wsc = req.wsc /\ req'.isUpgrade = req.isUpgrade
             /\ req'.requestBuffer = req.requestBuffer \o parser.data
  BY <1>0, <1>2 DEF KeepForLater, Request
<1>3. ASSUME PassRequestBuffer
      PROVE  /\ req'.protocol = req.protocol /\ req'.reading = req.reading
             /\ req'.ignoreNewData = req.ignoreNewData /\ req'.isClosing = req.isClosing
             /\ req'.wsc = req.wsc /\ req'.isUpgrade = req.isUpgrade
  BY <1>0, <1>3 DEF PassRequestBuffer, Request
<1>4. ASSUME OnClosed
      PROVE  /\ req'.protocol = req.protocol /\ req'.reading = req.reading /\ req.isClosing
             /\ req'.ignoreNewData = req.ignoreNewData /\ req'.isClosing = req.isClosing
             /\ req'.isUpgrade = req.isUpgrade /\ req'.requestBuffer = req.requestBuffer
  BY <1>0, <1>4 DEF OnClosed, Request
<1>5. ASSUME HeadersCompleteComplete
      PROVE  /\ req'.protocol = req.protocol /\ (req'.reading => req.reading)
             /\ (req.ignoreNewData => req'.ignoreNewData) /\ req'.isClosing = req.isClosing
             /\ req'.wsc = req.wsc /\ req'.isUpgrade = req.isUpgrade
             /\ req'.requestBuffer = <<>>
  <2> DEFINE c1 == StopReading(RequestCompleted(req))
             c2 == RequestCompleted(req)
  <2>1. \/ req' = [c1 EXCEPT !.requestBuffer = <<>>]
        \/ req' = [c2 EXCEPT !.requestBuffer = <<>>]
        \/ req' = [req EXCEPT !.requestBuffer = <<>>]
    BY <1>5 DEF HeadersCompleteComplete
  <2>2. c1 \in Request /\ c2 \in Request
    BY <1>0, RequestTypes
  <2>3. \A c \in {c1, c2} : /\ c.protocol = req.protocol /\ (c.reading => req.reading)
                            /\ (req.ignoreNewData => c.ignoreNewData)
                            /\ c.isClosing = req.isClosing
                            /\ c.wsc = req.wsc /\ c.isUpgrade = req.isUpgrade
    BY <1>0 DEF StopReading, RequestCompleted, Request
  <2> HIDE DEF c1, c2
  <2> QED BY <1>0, <2>1, <2>2, <2>3, ZenonT(40) DEF Request
<1> QED BY <1>1, <1>2, <1>3, <1>4, <1>5

LEMMA UpgradeEffects ==
  ASSUME TypeOK, UpgradeConnection
  PROVE  /\ parser'.exec = "no" /\ parser'.data = <<>> /\ parser'.st = parser.st
         /\ parser'.cur = parser.cur /\ parser.st # "wait" /\ ExecuteReturns
         /\ \/ req' = req /\ ~req.wsc /\ later' = later
            \/ /\ req'.protocol = "WebSockets" /\ req'.isClosing = req.isClosing
               /\ req'.reading = req.reading /\ req'.wsc = req.wsc
               /\ req'.isUpgrade = req.isUpgrade
            \/ req' = Closed(req) /\ later' = later
<1>0. req \in Request /\ parser \in Parser /\ RequestCompleted(req) \in Request
  BY Types, RequestTypes
<1>1. /\ parser'.exec = "no" /\ parser'.data = <<>> /\ parser'.st = parser.st
      /\ parser'.cur = parser.cur /\ parser.st # "wait" /\ ExecuteReturns
  BY <1>0 DEF UpgradeConnection, AfterExecute, Parser
<1> DEFINE c == RequestCompleted(req)
           b == c.requestBuffer \o parser.data
<1>2. \/ req' = req /\ ~req.wsc /\ later' = later
      \/ req' = [c EXCEPT !.protocol = "WebSockets", !.requestBuffer = b]
      \/ req' = Closed(req) /\ later' = later
  BY DEF UpgradeConnection
<1>3. /\ c.isClosing = req.isClosing /\ c.reading = req.reading /\ c.wsc = req.wsc
      /\ c.isUpgrade = req.isUpgrade
  BY <1>0 DEF RequestCompleted, Request
<1> HIDE DEF c, b
<1>4. ASSUME req' = [c EXCEPT !.protocol = "WebSockets", !.requestBuffer = b]
      PROVE  /\ req'.protocol = "WebSockets" /\ req'.isClosing = req.isClosing
             /\ req'.reading = req.reading /\ req'.wsc = req.wsc
             /\ req'.isUpgrade = req.isUpgrade
  BY <1>0, <1>3, <1>4 DEF Request, c
<1> QED BY <1>1, <1>2, <1>4

\* The call of http_parser_execute.
LEMMA ExecStep ==
  ASSUME TypeOK, HandedOver, Waits, [Next]_vars
  PROVE  /\ parser'.exec = "no" => parser'.data = <<>>
         /\ req.protocol = "WebSockets" => parser'.exec = "no"
         /\ parser.cur # 0 => parser'.cur # 0
<1>0. parser \in Parser
  BY Types
<1>1. CASE ParseMessageBegin \/ ParseHeadersComplete \/ ParseWaiting
           \/ ParseHeadersDone \/ ParseBody \/ ParseRefuses
  <2>1. parser.exec = "run" /\ parser.data # <<>>
    BY <1>1 DEF ParseMessageBegin, ParseHeadersComplete, ParseWaiting, ParseHeadersDone,
                ParseBody, ParseRefuses, Executing
  <2>2. req.protocol # "WebSockets"
    BY <2>1 DEF HandedOver
  <2>3. parser'.exec # "no" /\ (parser.cur # 0 => parser'.cur # 0)
    <3>1. CASE ParseMessageBegin
      <4>1. Head(parser.data).k \in 1..Len(client.shape) /\ Len(client.shape) \in Nat
        BY <2>1, <3>1, NextToken, Types DEF ParseMessageBegin, Executing
      <4>2. parser'.exec = parser.exec /\ parser'.cur = Head(parser.data).k
        BY <1>0, <3>1 DEF ParseMessageBegin, Parser
      <4> QED BY <2>1, <4>1, <4>2
    <3>2. CASE ParseHeadersComplete \/ ParseWaiting \/ ParseRefuses
      BY <1>0, <2>1, <3>2 DEF ParseHeadersComplete, ParseWaiting, ParseRefuses, Parser
    <3>3. CASE ParseHeadersDone
      BY <1>0, <2>1, <3>3 DEF ParseHeadersDone, Parser
    <3>4. CASE ParseBody
      BY <1>0, <2>1, <3>4 DEF ParseBody, Parser
    <3> QED BY <1>1, <3>1, <3>2, <3>3, <3>4
  <2> QED BY <2>2, <2>3
<1>2. CASE KeepForLater \/ UpgradeConnection \/ ParseDone
  BY <1>0, <1>2 DEF KeepForLater, UpgradeConnection, ParseDone, AfterExecute, Parser
<1>3. CASE OnRead
  <2>1. parser.exec = "no"
    BY <1>3 DEF OnRead, BgIdle
  <2>2. parser' = parser \/ (req.protocol = "HTTP" /\ \E d : parser' = Execute(parser, d))
    BY <1>3 DEF OnRead
  <2>3. \A d : Execute(parser, d).exec = "run" /\ Execute(parser, d).cur = parser.cur
    BY <1>0 DEF Execute, Parser
  <2> QED BY <2>1, <2>2, <2>3 DEF HandedOver
<1>4. CASE HeadersCompleteComplete
  <2>1. bgq # <<>> /\ bgq[1].op = "headersDone" /\ 1 \in 1..Len(bgq)
    BY <1>4, BgFront DEF HeadersCompleteComplete, Flush
  <2>2. req.protocol # "WebSockets"
    BY <2>1 DEF HandedOver, Waits
  <2>3. parser'.exec = "run" /\ parser'.cur = parser.cur
    BY <1>0, <1>4 DEF HeadersCompleteComplete, Execute, Parser
  <2> QED BY <2>2, <2>3
<1>5. CASE BodyError
  <2>1. parser'.exec = parser.exec /\ parser'.data = parser.data /\ parser'.cur = parser.cur
    BY <1>0, <1>5 DEF BodyError, Parser
  <2> QED BY <2>1 DEF HandedOver
<1>6. CASE parser' = parser
  BY <1>6 DEF HandedOver
<1>7. CASE MainTask
  BY <1>6, <1>7 DEF MainTask, InitializeEnv, CallOnHeaders, CallOnBodyData, CallGetResponse,
                    CallWsOpen, PassRequestBuffer, CallWsMessage, CallWsClose
<1>8. CASE \/ \E s \in Shapes : ClientSend(s)
           \/ ClientSendWs \/ ClientLeaves \/ OnReadError \/ ServerStops
           \/ MessageCompleteComplete \/ ScheduledClose \/ ScheduledWsRead
           \/ WriteOut \/ WriteFails \/ OnResponseWritten \/ OnChunkWritten \/ OnClosed
           \/ PromiseResolves \/ UNCHANGED vars
  BY <1>6, <1>8, Zenon DEF ClientSend, ClientSendWs, ClientLeaves, OnReadError, ServerStops,
                    MessageCompleteComplete, ScheduledClose, ScheduledWsRead, WriteOut, WriteFails,
                    OnResponseWritten, OnChunkWritten, OnClosed, PromiseResolves, vars
<1> QED BY <1>1, <1>2, <1>3, <1>4, <1>5, <1>7, <1>8
        DEF Next, ClientStep, Parse, FlushTask, WriteCallback

LEMMA HandedOverStep ==
  ASSUME IInv, TypeOK', [Next]_vars
  PROVE  HandedOver'
<1> USE DEF IInv
<1>1. /\ parser'.exec = "no" => parser'.data = <<>>
      /\ req.protocol = "WebSockets" => parser'.exec = "no"
      /\ parser.cur # 0 => parser'.cur # 0
  BY ExecStep
<1>2. NoWsOpen(later) \/ req.protocol = "WebSockets"
  BY DEF HandedOver, NoWsOpen
<1>3. (NoWsOpen(later) => NoWsOpen(later')) \/ UpgradeConnection
  BY LaterStep
<1>4. CASE UpgradeConnection
  <2>1. parser'.exec = "no" /\ parser'.data = <<>> /\ parser'.st # "wait" /\ parser'.cur = parser.cur
    BY <1>4, UpgradeEffects
  <2>2. CASE req' = req /\ later' = later
    BY <2>1, <2>2 DEF HandedOver
  <2>3. CASE req' = Closed(req) /\ later' = later
    <3>1. req'.isClosing /\ ~req'.reading /\ req'.protocol = req.protocol
          /\ req'.isUpgrade = req.isUpgrade
      BY <2>3, Types DEF Closed, Request
    <3> QED BY <2>1, <2>3, <3>1 DEF HandedOver
  <2>4. CASE /\ req'.protocol = "WebSockets" /\ req'.isClosing = req.isClosing
             /\ req'.reading = req.reading /\ req'.wsc = req.wsc
             /\ req'.isUpgrade = req.isUpgrade
    BY <2>1, <2>4 DEF HandedOver
  <2> QED BY <1>4, <2>2, <2>3, <2>4, UpgradeEffects
<1>5. CASE ~UpgradeConnection
  <2>1. req'.protocol = req.protocol
    BY <1>5, ReqStep, ReqOther DEF ReqKept
  <2>2. /\ req'.isClosing => ~req'.reading
        /\ ~req'.wsc => req'.isClosing
    <3>1. CASE ReqKept(req, req')
      BY <3>1 DEF ReqKept, HandedOver
    <3>2. CASE ParseHeadersComplete \/ KeepForLater \/ HeadersCompleteComplete \/ PassRequestBuffer
      BY <3>2, ReqOther DEF HandedOver
    <3>3. CASE OnClosed
      BY <3>3, ReqOther DEF HandedOver
    <3> QED BY <1>5, <3>1, <3>2, <3>3, ReqStep
  <2>3. req'.isUpgrade => parser'.cur # 0
    <3>1. CASE ParseHeadersComplete
      <4>1. parser.cur # 0
        BY <3>1, ParserTypes, Types DEF ParseHeadersComplete, Executing
      <4> QED BY <1>1, <4>1
    <3>2. CASE ~ParseHeadersComplete
      <4>1. req'.isUpgrade = req.isUpgrade
        BY <1>5, <3>2, ReqStep, ReqOther DEF ReqKept
      <4> QED BY <1>1, <4>1 DEF HandedOver
    <3> QED BY <3>1, <3>2
  <2>4. req'.protocol = "WebSockets" => parser'.st # "wait"
    <3> SUFFICES ASSUME req.protocol = "WebSockets" PROVE parser'.st # "wait"
      BY <2>1
    <3>1. parser.st # "wait" /\ parser.exec = "no"
      BY DEF HandedOver
    <3>2. ~ParseHeadersComplete
      BY <3>1 DEF ParseHeadersComplete, Executing
    <3>3. CASE HeadersCompleteComplete
      BY <3>3, Types DEF HeadersCompleteComplete, Execute, Parser
    <3> QED BY <3>1, <3>2, <3>3, WaitStep
  <2>5. NoWsOpen(later') \/ req'.protocol = "WebSockets"
    BY <1>2, <1>3, <1>5, <2>1
  <2> QED BY <1>1, <2>1, <2>2, <2>3, <2>4, <2>5 DEF HandedOver, NoWsOpen
<1> QED BY <1>4, <1>5

-------------------------------------------------------------------------------
(* The parser and the stream stay in step. *)

Bytes == Seq(AnyToken)

\* Nothing more comes.
LEMMA CutStream ==
  ASSUME NEW a \in Bytes, NEW b \in Bytes, NEW alive, NEW k
  PROVE  /\ Paired(a \o b, alive) => Paired(a, FALSE)
         /\ StartsAtLF(a \o b, alive, k) => StartsAtLF(a, FALSE, k)
<1> DEFINE s == a \o b
<1>1. /\ Len(a) \in Nat /\ Len(b) \in Nat /\ Len(s) = Len(a) + Len(b)
      /\ \A i \in 1..Len(a) : s[i] = a[i]
  BY ConcatTypes DEF Bytes
<1>2. a # <<>> => s # <<>> /\ 1 \in 1..Len(a)
  <2>1. a # <<>> => Len(a) \in Nat \ {0}
    BY EmptySeq DEF Bytes
  <2>2. s # <<>> \/ (a = <<>> /\ b = <<>>)
    BY ConcatEqualIffEmpty DEF Bytes
  <2> QED BY <2>1, <2>2
<1> HIDE DEF s
<1>3. ASSUME Paired(s, alive) PROVE Paired(a, FALSE)
  <2> SUFFICES ASSUME NEW i \in 1..Len(a), a[i].t = "H", i # Len(a)
               PROVE  i + 1 \in 1..Len(a) /\ a[i + 1] = Token("L", a[i].k)
    BY DEF Paired
  <2>1. i \in 1..Len(s) /\ i + 1 \in 1..Len(a) /\ i # Len(s)
    BY <1>1
  <2>2. s[i] = a[i] /\ s[i + 1] = a[i + 1]
    BY <1>1, <2>1
  <2>3. s[i + 1] = Token("L", s[i].k)
    BY <1>3, <2>1, <2>2 DEF Paired
  <2> QED BY <2>1, <2>2, <2>3
<1>4. ASSUME StartsAtLF(s, alive, k) PROVE StartsAtLF(a, FALSE, k)
  BY <1>1, <1>2, <1>4 DEF StartsAtLF
<1> QED BY <1>3, <1>4 DEF s

\* More comes: a request, or data of a WebSocket.
LEMMA GrowStream ==
  ASSUME NEW s \in Bytes, NEW w \in Bytes, Paired(w, TRUE), NEW k
  PROVE  /\ Paired(s, TRUE) => Paired(s \o w, TRUE)
         /\ StartsAtLF(s, TRUE, k) => StartsAtLF(s \o w, TRUE, k)
<1> DEFINE r == s \o w
<1>1. /\ Len(s) \in Nat /\ Len(w) \in Nat /\ Len(r) = Len(s) + Len(w)
      /\ \A i \in 1..Len(s) : r[i] = s[i]
      /\ \A i \in 1..Len(w) : r[Len(s) + i] = w[i]
  BY ConcatTypes DEF Bytes
<1>2. s # <<>> => r # <<>> /\ 1 \in 1..Len(s)
  <2>1. s # <<>> => Len(s) \in Nat \ {0}
    BY EmptySeq DEF Bytes
  <2>2. r # <<>> \/ (s = <<>> /\ w = <<>>)
    BY ConcatEqualIffEmpty DEF Bytes
  <2> QED BY <2>1, <2>2
<1> HIDE DEF r
<1>3. ASSUME Paired(s, TRUE) PROVE Paired(r, TRUE)
  <2> SUFFICES ASSUME NEW i \in 1..Len(r), r[i].t = "H"
               PROVE  i + 1 \in 1..Len(r) /\ r[i + 1] = Token("L", r[i].k)
    BY DEF Paired
  <2>1. CASE i \in 1..Len(s)
    <3>1. r[i] = s[i] /\ i + 1 \in 1..Len(s) /\ s[i + 1] = Token("L", s[i].k)
      BY <1>1, <1>3, <2>1 DEF Paired
    <3>2. i + 1 \in 1..Len(r) /\ r[i + 1] = s[i + 1]
      BY <1>1, <3>1
    <3> QED BY <3>1, <3>2
  <2>2. CASE i \notin 1..Len(s)
    <3> DEFINE j == i - Len(s)
    <3>1. j \in 1..Len(w) /\ Len(s) + j = i
      BY <1>1, <2>2
    <3> HIDE DEF j
    <3>2. r[i] = w[j]
      BY <1>1, <3>1
    <3>3. j + 1 \in 1..Len(w) /\ w[j + 1] = Token("L", w[j].k)
      BY <3>1, <3>2 DEF Paired
    <3>4. r[Len(s) + (j + 1)] = w[j + 1]
      BY <1>1, <3>3
    <3>5. Len(s) + (j + 1) = i + 1
      <4>1. Len(s) \in Nat /\ Len(w) \in Nat /\ j \in 1..Len(w) /\ Len(s) + j = i
        BY <1>1, <3>1, Zenon
      <4> QED BY <4>1
    <3>6. i + 1 \in 1..Len(r)
      <4>1. j + 1 \in 1..Len(w) /\ Len(w) \in Nat /\ Len(s) \in Nat /\ Len(r) = Len(s) + Len(w)
        BY <1>1, <3>3, Zenon
      <4>2. Len(s) + (j + 1) \in 1..Len(r)
        BY <3>1, <4>1
      <4> QED BY <3>5, <4>2, Zenon
    <3> QED BY <3>2, <3>3, <3>4, <3>5, <3>6
  <2> QED BY <2>1, <2>2
<1>4. ASSUME StartsAtLF(s, TRUE, k) PROVE StartsAtLF(r, TRUE, k)
  BY <1>1, <1>2, <1>4 DEF StartsAtLF
<1> QED BY <1>3, <1>4 DEF r

\* A token is consumed; after a head the LF follows.
LEMMA ConsumeStream ==
  ASSUME NEW s \in Bytes, s # <<>>, NEW alive \in BOOLEAN, Paired(s, alive)
  PROVE  /\ Paired(Tail(s), alive)
         /\ s[1].t = "H" => StartsAtLF(Tail(s), alive, s[1].k)
<1> DEFINE r == Tail(s)
<1>1. /\ Len(s) \in Nat \ {0} /\ Len(r) = Len(s) - 1 /\ r \in Seq(AnyToken)
      /\ \A i \in 1..Len(r) : r[i] = s[i + 1]
  BY TailRange DEF Bytes
<1>2. r = <<>> <=> Len(r) = 0
  BY <1>1, EmptySeq
<1> HIDE DEF r
<1>3. Paired(r, alive)
  <2> SUFFICES ASSUME NEW i \in 1..Len(r), r[i].t = "H"
               PROVE  \/ i + 1 \in 1..Len(r) /\ r[i + 1] = Token("L", r[i].k)
                      \/ i = Len(r) /\ ~alive
    BY DEF Paired
  <2>1. i + 1 \in 1..Len(s) /\ s[i + 1] = r[i]
    BY <1>1
  <2>2. \/ i + 1 + 1 \in 1..Len(s) /\ s[i + 1 + 1] = Token("L", s[i + 1].k)
        \/ i + 1 = Len(s) /\ ~alive
    BY <2>1 DEF Paired
  <2>3. CASE i + 1 + 1 \in 1..Len(s) /\ s[i + 1 + 1] = Token("L", s[i + 1].k)
    <3>1. i + 1 \in 1..Len(r)
      BY <1>1, <2>3
    <3>2. r[i + 1] = s[i + 1 + 1]
      BY <1>1, <3>1
    <3> QED BY <2>1, <2>3, <3>1, <3>2
  <2>4. CASE i + 1 = Len(s) /\ ~alive
    BY <1>1, <2>4
  <2> QED BY <2>2, <2>3, <2>4
<1>4. ASSUME s[1].t = "H" PROVE StartsAtLF(r, alive, s[1].k)
  <2>1. 1 \in 1..Len(s)
    BY <1>1
  <2>2. \/ 1 + 1 \in 1..Len(s) /\ s[1 + 1] = Token("L", s[1].k)
        \/ 1 = Len(s) /\ ~alive
    BY <1>4, <2>1 DEF Paired
  <2>3. CASE 1 + 1 \in 1..Len(s) /\ s[1 + 1] = Token("L", s[1].k)
    <3>1. 1 \in 1..Len(r) /\ Len(r) # 0
      BY <1>1, <2>3
    <3>2. r[1] = s[1 + 1]
      BY <1>1, <3>1
    <3> QED BY <1>2, <2>3, <3>1, <3>2 DEF StartsAtLF
  <2>4. CASE 1 = Len(s) /\ ~alive
    <3>1. r = <<>>
      <4>1. Len(s) = 1 /\ Len(r) = Len(s) - 1 /\ Len(s) \in Nat
        BY <1>1, <2>4, Zenon
      <4>2. Len(r) = 0
        BY <4>1
      <4> QED BY <1>2, <4>2
    <3> QED BY <2>4, <3>1 DEF StartsAtLF
  <2> QED BY <2>2, <2>3, <2>4
<1> QED BY <1>3, <1>4 DEF r

LEMMA TailOfConcat ==
  ASSUME NEW a \in Bytes, NEW b \in Bytes, a # <<>>
  PROVE  /\ Tail(a \o b) = Tail(a) \o b /\ a \o b # <<>> /\ (a \o b)[1] = a[1]
         /\ Tail(a) \in Bytes /\ a \o b \in Bytes
<1> DEFINE s == a \o b
           t == Tail(a)
           u == t \o b
           v == Tail(s)
<1>1. /\ s \in Seq(AnyToken) /\ Len(a) \in Nat /\ Len(b) \in Nat /\ Len(s) = Len(a) + Len(b)
      /\ \A i \in 1..Len(a) : s[i] = a[i]
      /\ \A i \in 1..Len(b) : s[Len(a) + i] = b[i]
  BY ConcatTypes DEF Bytes
<1>2. s # <<>>
  BY ConcatEqualIffEmpty DEF Bytes
<1>3. /\ Len(a) \in Nat \ {0} /\ Len(t) = Len(a) - 1 /\ t \in Seq(AnyToken)
      /\ \A i \in 1..Len(t) : t[i] = a[i + 1]
  BY TailRange DEF Bytes
<1>4. /\ u \in Seq(AnyToken) /\ Len(u) = Len(t) + Len(b)
      /\ \A i \in 1..Len(t) : u[i] = t[i]
      /\ \A i \in 1..Len(b) : u[Len(t) + i] = b[i]
  <2>1. t \in Seq(AnyToken) /\ b \in Seq(AnyToken)
    BY <1>3 DEF Bytes
  <2> HIDE DEF t
  <2> QED BY <2>1, ConcatTypes
<1> HIDE DEF s
<1>5. /\ v \in Seq(AnyToken) /\ Len(v) = Len(s) - 1
      /\ \A i \in 1..Len(v) : v[i] = s[i + 1]
  BY <1>1, <1>2, TailRange
<1> HIDE DEF t, u, v
<1>6. ASSUME NEW i \in 1..Len(v) PROVE v[i] = u[i]
  <2>1. CASE i \in 1..Len(t)
    <3>1. i + 1 \in 1..Len(a)
      BY <1>3, <2>1
    <3>2. v[i] = s[i + 1] /\ s[i + 1] = a[i + 1] /\ u[i] = t[i] /\ t[i] = a[i + 1]
      BY <1>1, <1>3, <1>4, <1>5, <2>1, <3>1
    <3> QED BY <3>2
  <2>2. CASE i \notin 1..Len(t)
    <3> DEFINE j == i - Len(t)
    <3>1. j \in 1..Len(b) /\ Len(t) + j = i /\ Len(a) + j = i + 1
      BY <1>1, <1>3, <1>5, <2>2
    <3> HIDE DEF j
    <3>2. v[i] = s[i + 1] /\ s[Len(a) + j] = b[j] /\ u[Len(t) + j] = b[j]
      BY <1>1, <1>4, <1>5, <3>1
    <3> QED BY <3>1, <3>2
  <2> QED BY <2>1, <2>2
<1>7. Len(v) = Len(u)
  BY <1>1, <1>3, <1>4, <1>5
<1>8. v = u
  BY <1>4, <1>5, <1>6, <1>7, SeqEqual
<1>9. s[1] = a[1]
  BY <1>1, <1>3
<1> QED BY <1>1, <1>2, <1>3, <1>8, <1>9 DEF s, t, u, v, Bytes

LEMMA StreamTypes ==
  ASSUME TypeOK
  PROVE  /\ req.requestBuffer \in Bytes /\ parser.data \in Bytes /\ client.net \in Bytes
         /\ req.requestBuffer \o parser.data \in Bytes
         /\ (IF Alive THEN client.net ELSE <<>>) \in Bytes
         /\ Stream \in Bytes /\ Alive \in BOOLEAN /\ <<>> \in Bytes
<1>1. req.requestBuffer \in Bytes /\ parser.data \in Bytes /\ client.net \in Bytes
  <2>1. req.requestBuffer \in Seq(Tokens) /\ parser.data \in Seq(Tokens) /\ client.net \in Seq(Tokens)
    BY Types, RequestTypes, ParserTypes DEF Client
  <2> QED BY <2>1, TokenSeqs DEF Bytes
<1>2. <<>> \in Bytes
  BY EmptySeq DEF Bytes
<1>3. req.requestBuffer \o parser.data \in Bytes
  BY <1>1, ConcatTypes DEF Bytes
<1>4. (IF Alive THEN client.net ELSE <<>>) \in Bytes
  BY <1>1, <1>2
<1>5. Stream \in Bytes
  BY <1>3, <1>4, ConcatTypes DEF Bytes, Stream
<1>6. Alive \in BOOLEAN
  BY DEF Alive
<1> QED BY <1>1, <1>2, <1>3, <1>4, <1>5, <1>6

\* A step that leaves the bytes and the parser's position alone may still end
\* the reading.
LEMMA QuietInStep ==
  ASSUME TypeOK, InStep, req'.protocol = req.protocol,
         req'.requestBuffer = req.requestBuffer, parser'.data = parser.data,
         parser'.st = parser.st, parser'.cur = parser.cur, client'.net = client.net,
         Alive' => Alive
  PROVE  InStep'
<1> SUFFICES ASSUME req.protocol = "HTTP"
             PROVE  /\ Paired(Stream', Alive')
                    /\ parser.st = "headers" => StartsAtLF(Stream', Alive', parser.cur)
  BY DEF InStep
<1> DEFINE a == req.requestBuffer \o parser.data
           b == IF Alive THEN client.net ELSE <<>>
<1>1. a \in Bytes /\ b \in Bytes
  BY StreamTypes
<1>2. Paired(Stream, Alive) /\ (parser.st = "headers" => StartsAtLF(Stream, Alive, parser.cur))
  BY DEF InStep
<1>3. Stream = a \o b
  BY DEF Stream
<1>4. CASE Alive' = Alive
  BY <1>2, <1>4 DEF Stream
<1>5. CASE Alive' # Alive
  <2>1. Alive' = FALSE
    <3>1. Alive' \in BOOLEAN /\ Alive \in BOOLEAN
      BY DEF Alive
    <3> QED BY <1>5, <3>1
  <2>2. Stream' = a
    <3>1. Stream' = a \o <<>>
      BY <2>1 DEF Stream
    <3> QED BY <1>1, <3>1, ConcatEmptySeq DEF Bytes
  <2> HIDE DEF a, b
  <2>3. Paired(a, FALSE) /\ (parser.st = "headers" => StartsAtLF(a, FALSE, parser.cur))
    <3>1. /\ Paired(a \o b, Alive)
          /\ parser.st = "headers" => StartsAtLF(a \o b, Alive, parser.cur)
      BY <1>2, <1>3
    <3> QED BY <1>1, <3>1, CutStream
  <2> QED BY <2>1, <2>2, <2>3
<1> QED BY <1>4, <1>5

LEMMA SendInStep ==
  ASSUME TypeOK, InStep, ClientSendWs \/ \E s \in Shapes : ClientSend(s)
  PROVE  InStep'
<1>1. PICK w \in Bytes : client'.net = client.net \o w /\ Paired(w, TRUE)
  <2>1. CASE ClientSendWs
    <3> DEFINE e == Token("W", client.ws + 1)
    <3>1. client \in Client /\ client.ws \in 0..MaxWs /\ MaxWs \in Nat
      BY Types, ConstantsAssumption DEF Client
    <3>2. client'.net = Append(client.net, e)
      BY <2>1, <3>1 DEF ClientSendWs, Client
    <3>3. e \in AnyToken /\ e.t = "W"
      BY <3>1 DEF AnyToken, Token
    <3> HIDE DEF e
    <3>4. client'.net = client.net \o <<e>>
      BY <3>2, <3>3, StreamTypes, AppendIsConcat DEF Bytes
    <3>5. <<e>> \in Bytes /\ Paired(<<e>>, TRUE)
      BY <3>3 DEF Bytes, Paired
    <3> QED BY <3>4, <3>5
  <2>2. CASE \E s \in Shapes : ClientSend(s)
    <3>1. PICK s \in Shapes : ClientSend(s)
      BY <2>2
    <3> DEFINE n == Len(client.shape) + 1
               w == TokensOf(s, n)
    <3>2. client'.net = client.net \o w /\ w \in Bytes
      BY <3>1, ClientSendTypes DEF Bytes
    <3>3. n \in Nat /\ n \in 1..n
      BY Types
    <3> HIDE DEF n
    <3>4. /\ Len(w) >= 2 /\ Len(w) \in Nat /\ w[1] = Token("H", n) /\ w[2] = Token("L", n)
          /\ \A i \in 1..Len(w) : w[i].t = "H" => i = 1
      BY <3>3, TokensOfType
    <3> HIDE DEF w
    <3>5. 1 + 1 \in 1..Len(w) /\ 1 + 1 = 2 /\ w[1].k = n
      BY <3>4 DEF Token
    <3>6. Paired(w, TRUE)
      <4> SUFFICES ASSUME NEW i \in 1..Len(w), w[i].t = "H"
                   PROVE  i + 1 \in 1..Len(w) /\ w[i + 1] = Token("L", w[i].k)
        BY DEF Paired
      <4>1. i = 1
        BY <3>4
      <4> QED BY <3>4, <3>5, <4>1
    <3> QED BY <3>2, <3>6
  <2> QED BY <2>1, <2>2
<1>2. req' = req /\ parser' = parser
  BY DEF ClientSendWs, ClientSend
<1>3. Alive' = Alive
  BY <1>2 DEF Alive
<1> DEFINE a == req.requestBuffer \o parser.data
           b == client.net
<1>4. a \in Bytes /\ b \in Bytes
  BY StreamTypes
<1>5. CASE ~Alive
  <2>1. Stream' = Stream
    BY <1>2, <1>3, <1>5 DEF Stream
  <2> QED BY <1>2, <1>3, <2>1 DEF InStep
<1>6. CASE Alive
  <2>1. Stream = a \o b /\ Stream' = a \o (b \o w)
    BY <1>1, <1>2, <1>3, <1>6 DEF Stream
  <2>2. Stream' = Stream \o w
    <3> HIDE DEF a, b
    <3> QED BY <1>4, <2>1, ConcatAssociative, SMTT(40) DEF Bytes
  <2>3. Alive = TRUE
    BY <1>6 DEF Alive
  <2>4. Stream \in Bytes
    BY StreamTypes
  <2>5. ASSUME req.protocol = "HTTP"
        PROVE  /\ Paired(Stream', TRUE)
               /\ parser.st = "headers" => StartsAtLF(Stream', TRUE, parser.cur)
    <3>1. /\ Paired(Stream, TRUE)
          /\ parser.st = "headers" => StartsAtLF(Stream, TRUE, parser.cur)
      BY <2>3, <2>5 DEF InStep
    <3> QED BY <1>1, <2>2, <2>4, <3>1, GrowStream
  <2> QED BY <1>2, <1>3, <2>3, <2>5 DEF InStep
<1> QED BY <1>5, <1>6

LEMMA ReadInStep ==
  ASSUME TypeOK, HandedOver, InStep, OnRead
  PROVE  InStep' /\ (req.protocol = "HTTP" => Stream' = Stream /\ Alive' = Alive)
<1>1. PICK n \in 1..Len(client.net) :
        /\ client' = [client EXCEPT !.net = SubSeq(client.net, n + 1, Len(client.net))]
        /\ \/ /\ req.protocol = "HTTP"
              /\ parser' = IF req.ignoreNewData THEN parser
                           ELSE Execute(parser, SubSeq(client.net, 1, n))
           \/ /\ req.protocol = "WebSockets"
              /\ parser' = parser
  BY DEF OnRead
<1>2. req' = req /\ req.reading /\ parser.exec = "no" /\ parser.data = <<>>
  BY DEF OnRead, BgIdle, HandedOver
<1> DEFINE a == SubSeq(client.net, 1, n)
           b == SubSeq(client.net, n + 1, Len(client.net))
<1>3. client'.net = b
  BY <1>1, Types DEF Client
<1>4. a \in Bytes /\ b \in Bytes /\ a \o b = client.net
  <2>1. client.net \in Seq(AnyToken) /\ Len(client.net) \in Nat
    BY StreamTypes, LenProperties DEF Bytes
  <2>2. \A i \in 1..Len(client.net) : client.net[i] \in AnyToken
    BY <2>1, ElementOfSeq
  <2>3. a \in Seq(AnyToken)
    <3>1. \A i \in 1..n : client.net[i] \in AnyToken
      BY <2>1, <2>2
    <3>2. n \in Int
      BY <2>1
    <3> QED BY <3>1, <3>2, SubSeqProperties
  <2>4. b \in Seq(AnyToken)
    <3>1. \A i \in n + 1..Len(client.net) : client.net[i] \in AnyToken
      BY <2>1, <2>2
    <3>2. n + 1 \in Int /\ Len(client.net) \in Int
      BY <2>1
    <3> QED BY <3>1, <3>2, SubSeqProperties
  <2>5. a \o b = SubSeq(client.net, 1, Len(client.net))
    <3>1. 1 \in 1..Len(client.net) + 1 /\ n \in (1 - 1)..Len(client.net)
          /\ Len(client.net) \in n..Len(client.net)
      BY <2>1
    <3> QED BY <2>1, <3>1, ConcatAdjacentSubSeq
  <2>6. SubSeq(client.net, 1, Len(client.net)) = client.net
    BY <2>1, SubSeqFull
  <2> QED BY <2>3, <2>4, <2>5, <2>6 DEF Bytes
<1>5. Alive' = Alive
  BY <1>2 DEF Alive
<1>6. CASE req.protocol = "WebSockets"
  BY <1>2, <1>6 DEF InStep
<1>7. CASE req.protocol = "HTTP" /\ req.ignoreNewData
  <2>1. parser' = parser
    BY <1>1, <1>7
  <2>2. ~Alive
    BY <1>7 DEF Alive
  <2>3. Stream' = Stream
    BY <1>2, <1>5, <2>1, <2>2 DEF Stream
  <2> QED BY <1>2, <1>5, <2>1, <2>3 DEF InStep
<1>8. CASE req.protocol = "HTTP" /\ ~req.ignoreNewData
  <2> HIDE DEF a, b
  <2>1. parser' = Execute(parser, a)
    BY <1>1, <1>8 DEF a
  <2>2. parser'.data = a /\ parser'.st = parser.st /\ parser'.cur = parser.cur
    BY <2>1, Types DEF Execute, Parser
  <2>3. Alive
    BY <1>2, <1>8 DEF Alive
  <2> DEFINE c == req.requestBuffer
  <2>4. c \in Bytes /\ c \o <<>> = c
    BY StreamTypes, ConcatEmptySeq DEF Bytes
  <2>5. Stream = c \o (a \o b) /\ Stream' = (c \o a) \o b
    <3>1. Stream = (c \o <<>>) \o client.net
      BY <1>2, <2>3 DEF Stream
    <3>2. Stream = c \o client.net
      BY <2>4, <3>1
    <3>3. Stream' = (req'.requestBuffer \o parser'.data) \o client'.net
      BY <1>5, <2>3 DEF Stream
    <3>4. Stream' = (c \o a) \o b
      BY <1>2, <1>3, <2>2, <3>3
    <3> QED BY <1>4, <3>2, <3>4
  <2> HIDE DEF c
  <2>6. Stream' = Stream
    <3>1. a \in Seq(AnyToken) /\ b \in Seq(AnyToken) /\ c \in Seq(AnyToken)
      BY <1>4, <2>4 DEF Bytes
    <3>2. c \o (a \o b) = (c \o a) \o b
      BY <3>1, ConcatAssociative, SMTT(40)
    <3> QED BY <2>5, <3>2
  <2>7. parser.st = "wait" => /\ req'.requestBuffer \o parser'.data # <<>>
                              /\ (req'.requestBuffer \o parser'.data)[1] = Token("L", parser.cur)
    <3> SUFFICES ASSUME parser.st = "wait" PROVE c \o a # <<>> /\ (c \o a)[1] = Token("L", parser.cur)
      BY <1>2, <2>2 DEF c
    <3>1. c # <<>> /\ c[1] = Token("L", parser.cur)
      <4>1. c = req.requestBuffer \o parser.data
        BY <1>2, <2>4 DEF c
      <4> QED BY <1>8, <4>1 DEF InStep
    <3> QED BY <1>4, <2>4, <3>1, TailOfConcat
  <2> QED BY <1>2, <1>5, <2>2, <2>6, <2>7 DEF InStep
<1>9. req.protocol \in {"HTTP", "WebSockets"} /\ req.ignoreNewData \in BOOLEAN
  BY Types, RequestTypes
<1> QED BY <1>6, <1>7, <1>8, <1>9

\* A token is consumed by a parser that does not wait.
LEMMA ConsumeInStep ==
  ASSUME TypeOK, InStep, parser.data # <<>>, parser.st # "wait",
         client'.net = client.net, parser'.data = Tail(parser.data),
         req'.protocol = req.protocol, req'.requestBuffer = req.requestBuffer,
         Alive' => Alive, parser'.st # "wait",
         parser'.st = "headers" => parser.data[1].t = "H" /\ parser'.cur = parser.data[1].k
  PROVE  InStep'
<1> DEFINE a == parser.data
           b == IF Alive THEN client.net ELSE <<>>
           t == Tail(a)
<1>1. a \in Bytes /\ b \in Bytes /\ Alive \in BOOLEAN
  BY StreamTypes
<1>2. CASE req.protocol # "HTTP"
  BY <1>2 DEF InStep
<1>3. CASE req.protocol = "HTTP"
  <2>1. req.requestBuffer = <<>> /\ Paired(Stream, Alive)
    BY <1>3 DEF InStep
  <2>2. <<>> \o a = a /\ <<>> \o t = t /\ t \o <<>> = t /\ t \in Bytes
    <3>1. t \in Bytes
      BY <1>1, TailRange DEF Bytes
    <3> HIDE DEF a, t
    <3> QED BY <1>1, <3>1, ConcatEmptySeq DEF Bytes
  <2>3. Stream = a \o b
    BY <2>1, <2>2 DEF Stream
  <2>4. Stream' = t \o (IF Alive' THEN client.net ELSE <<>>)
    BY <2>1, <2>2 DEF Stream
  <2>5. a # <<>> /\ (parser'.st = "headers" => a[1].t = "H" /\ parser'.cur = a[1].k)
    OBVIOUS
  <2> HIDE DEF a, b, t
  <2>6. Tail(a \o b) = t \o b /\ a \o b # <<>> /\ (a \o b)[1] = a[1] /\ a \o b \in Bytes
    BY <1>1, <2>5, TailOfConcat DEF t
  <2>7. /\ Paired(t \o b, Alive)
        /\ parser'.st = "headers" => StartsAtLF(t \o b, Alive, parser'.cur)
    <3>1. Paired(a \o b, Alive)
      BY <2>1, <2>3
    <3> DEFINE s == a \o b
    <3>2. s \in Bytes /\ s # <<>> /\ Tail(s) = t \o b /\ s[1] = a[1] /\ Paired(s, Alive)
      BY <2>6, <3>1
    <3> HIDE DEF s
    <3>3. Paired(Tail(s), Alive) /\ (s[1].t = "H" => StartsAtLF(Tail(s), Alive, s[1].k))
      BY <1>1, <3>2, ConsumeStream
    <3> QED BY <2>5, <3>2, <3>3
  <2>8. /\ Paired(Stream', Alive')
        /\ parser'.st = "headers" => StartsAtLF(Stream', Alive', parser'.cur)
    <3>1. CASE Alive' = Alive
      <4>1. Stream' = t \o b
        BY <2>4, <3>1 DEF b
      <4> QED BY <2>7, <3>1, <4>1
    <3>2. CASE Alive' # Alive
      <4>1. Alive' = FALSE
        <5>1. Alive' \in BOOLEAN
          BY DEF Alive
        <5> QED BY <1>1, <3>2, <5>1
      <4>2. Stream' = t
        BY <2>2, <2>4, <4>1
      <4>3. Paired(t, FALSE) /\ (parser'.st = "headers" => StartsAtLF(t, FALSE, parser'.cur))
        BY <1>1, <2>2, <2>7, CutStream
      <4> QED BY <4>1, <4>2, <4>3
    <3> QED BY <3>1, <3>2
  <2>9. req'.protocol = "HTTP" /\ req'.requestBuffer = <<>>
    BY <1>3, <2>1
  <2> QED BY <2>8, <2>9 DEF InStep
<1> QED BY <1>2, <1>3

\* The connection is not read from, or has become a WebSocket's.
LEMMA IdleInStep ==
  ASSUME TypeOK, InStep, parser.st # "wait", parser'.st # "wait", parser'.data = <<>>,
         req'.protocol = "HTTP" => /\ req.protocol = "HTTP"
                                   /\ req'.requestBuffer = req.requestBuffer
                                   /\ ~Alive'
  PROVE  InStep'
<1>1. CASE req'.protocol # "HTTP"
  BY <1>1 DEF InStep
<1>2. CASE req'.protocol = "HTTP"
  <2>1. req'.requestBuffer = <<>> /\ ~Alive'
    BY <1>2 DEF InStep
  <2>2. Stream' = <<>>
    <3>1. Stream' = (<<>> \o <<>>) \o <<>>
      BY <2>1 DEF Stream
    <3>2. <<>> \o <<>> = <<>>
      BY ConcatEmptySeq, EmptySeq
    <3> QED BY <3>1, <3>2
  <2>3. Paired(Stream', Alive') /\ StartsAtLF(Stream', Alive', parser'.cur)
    <3>1. Len(Stream') = 0
      BY <2>2, EmptySeq
    <3> QED BY <2>1, <2>2, <3>1 DEF Paired, StartsAtLF
  <2> QED BY <2>1, <2>3 DEF InStep
<1> QED BY <1>1, <1>2

LEMMA KeptAlive ==
  ASSUME ReqKept(req, req')
  PROVE  /\ req'.protocol = req.protocol /\ req'.requestBuffer = req.requestBuffer
         /\ Alive' => Alive
BY DEF ReqKept, Alive

LEMMA ParseInStep ==
  ASSUME TypeOK, InStep,
         \/ ParseMessageBegin \/ ParseHeadersComplete \/ ParseWaiting
         \/ ParseHeadersDone \/ ParseBody \/ ParseRefuses
  PROVE  InStep'
<1>0. /\ req \in Request /\ parser \in Parser /\ client' = client
      /\ parser.data # <<>> /\ parser.data[1] = Head(parser.data)
      /\ parser.exec = "run"
  <2>1. client' = client /\ parser.data # <<>> /\ parser.exec = "run"
    BY DEF ParseMessageBegin, ParseHeadersComplete, ParseWaiting, ParseHeadersDone, ParseBody,
           ParseRefuses, Executing
  <2> QED BY <2>1, Types, NextToken
<1>1. CASE ParseMessageBegin
  <2>1. /\ parser.st = "start" /\ parser.data[1].t = "H"
        /\ parser'.st = "headers" /\ parser'.data = Tail(parser.data)
        /\ parser'.cur = parser.data[1].k
    BY <1>0, <1>1 DEF ParseMessageBegin, Executing, Parser
  <2>2. ReqKept(req, req')
    <3>1. \/ req' = [req EXCEPT !.handlingRequest = TRUE, !.responseScheduled = FALSE]
          \/ req' = [Closed(req) EXCEPT !.handlingRequest = TRUE, !.responseScheduled = FALSE]
      BY <1>1 DEF ParseMessageBegin
    <3> QED BY <1>0, <3>1, ReqEffects
  <2> QED BY <1>0, <2>1, <2>2, KeptAlive, ConsumeInStep
<1>2. CASE ParseHeadersDone \/ ParseBody
  <2>1. parser.st \in {"ready", "body"} /\ req' = req
    BY <1>2 DEF ParseHeadersDone, ParseBody, Executing
  <2>2. parser'.st \in {"start", "dead", "body"} /\ parser'.data = Tail(parser.data)
    <3>1. NewMessage \in {"start", "dead"}
      BY DEF NewMessage
    <3>2. CASE ParseHeadersDone
      BY <1>0, <3>1, <3>2 DEF ParseHeadersDone, Parser
    <3>3. CASE ParseBody
      BY <1>0, <3>1, <3>3, <2>1 DEF ParseBody, Executing, Parser
    <3> QED BY <1>2, <3>2, <3>3
  <2>3. Alive' = Alive
    BY <2>1 DEF Alive
  <2> QED BY <1>0, <2>1, <2>2, <2>3, ConsumeInStep
<1>3. CASE ParseWaiting \/ ParseRefuses
  <2>1. req' = req
    BY <1>3 DEF ParseWaiting, ParseRefuses
  <2>2. parser'.data = parser.data /\ parser'.st = parser.st /\ parser'.cur = parser.cur
    BY <1>0, <1>3 DEF ParseWaiting, ParseRefuses, Parser
  <2>3. Alive' = Alive
    BY <2>1 DEF Alive
  <2> QED BY <1>0, <2>1, <2>2, <2>3, QuietInStep
<1>4. CASE ParseHeadersComplete
  <2>1. /\ parser.st = "headers" /\ parser'.st = "wait"
        /\ parser'.data = parser.data /\ parser'.cur = parser.cur
    BY <1>0, <1>4 DEF ParseHeadersComplete, Executing, Parser
  <2>2. /\ req'.protocol = req.protocol /\ req'.requestBuffer = req.requestBuffer
        /\ Alive' = Alive
    BY <1>4, ReqOther DEF Alive
  <2>3. CASE req.protocol # "HTTP"
    BY <2>2, <2>3 DEF InStep
  <2>4. CASE req.protocol = "HTTP"
    <3> DEFINE a == parser.data
               b == IF Alive THEN client.net ELSE <<>>
    <3>1. /\ req.requestBuffer = <<>> /\ Paired(Stream, Alive)
          /\ StartsAtLF(Stream, Alive, parser.cur)
      BY <2>1, <2>4 DEF InStep
    <3>2. Stream' = Stream
      BY <1>0, <2>1, <2>2 DEF Stream
    <3>3. a \in Bytes /\ b \in Bytes /\ a # <<>>
      BY <1>0, StreamTypes
    <3>4. req.requestBuffer \o a = a
      <4> HIDE DEF a
      <4> QED BY <3>1, <3>3, ConcatEmptySeq DEF Bytes
    <3>5. Stream = a \o b
      BY <3>4 DEF Stream
    <3> HIDE DEF a, b
    <3>6. a[1] = Token("L", parser.cur)
      <4>1. a \o b # <<>> /\ (a \o b)[1] = a[1]
        BY <3>3, TailOfConcat
      <4> QED BY <3>1, <3>5, <4>1 DEF StartsAtLF
    <3>7. req'.requestBuffer \o parser'.data = a
      BY <2>1, <2>2, <3>4 DEF a
    <3> QED BY <2>1, <2>2, <2>4, <3>1, <3>2, <3>3, <3>6, <3>7 DEF InStep
  <2> QED BY <2>3, <2>4
<1> QED BY <1>1, <1>2, <1>3, <1>4

LEMMA AfterExecuteInStep ==
  ASSUME TypeOK, HandedOver, InStep, KeepForLater \/ UpgradeConnection \/ ParseDone
  PROVE  InStep' /\ (KeepForLater => Stream' = Stream /\ Alive' = Alive)
<1>0. /\ req \in Request /\ parser \in Parser
      /\ parser'.data = <<>> /\ parser'.st = parser.st /\ parser'.cur = parser.cur
      /\ client' = client
  <2>1. req \in Request /\ parser \in Parser
    BY Types
  <2>2. parser' = AfterExecute /\ client' = client
    BY DEF KeepForLater, UpgradeConnection, ParseDone
  <2> QED BY <2>1, <2>2 DEF AfterExecute, Parser
<1>1. CASE KeepForLater
  <2> DEFINE a == req.requestBuffer
             b == parser.data
             c == a \o b
  <2>1. /\ req'.protocol = req.protocol /\ req'.requestBuffer = c
        /\ Alive' = Alive
    BY <1>1, ReqOther DEF Alive
  <2>2. c \in Bytes /\ c \o <<>> = c
    <3>1. c \in Bytes
      BY StreamTypes
    <3> HIDE DEF c
    <3> QED BY <3>1, ConcatEmptySeq DEF Bytes
  <2>3. req'.requestBuffer \o parser'.data = c
    BY <1>0, <2>1, <2>2
  <2>4. Stream' = Stream
    BY <1>0, <2>1, <2>3 DEF Stream
  <2>5. parser.st = "wait"
    BY <1>1 DEF KeepForLater
  <2> QED BY <1>0, <2>1, <2>3, <2>4, <2>5 DEF InStep
<1>2. CASE UpgradeConnection
  <2>1. parser.st # "wait" /\ ~KeepForLater
    BY <1>2 DEF UpgradeConnection, KeepForLater
  <2>2. req'.protocol = "HTTP" => /\ req.protocol = "HTTP"
                                  /\ req'.requestBuffer = req.requestBuffer
                                  /\ ~Alive'
    <3>1. CASE req' = req /\ ~req.wsc
      BY <3>1 DEF HandedOver, Alive
    <3>2. CASE req'.protocol = "WebSockets"
      BY <3>2
    <3>3. CASE req' = Closed(req)
      BY <1>0, <3>3 DEF Closed, Request, Alive
    <3> QED BY <1>2, <3>1, <3>2, <3>3, UpgradeEffects
  <2> QED BY <1>0, <2>1, <2>2, IdleInStep
<1>3. CASE ParseDone
  <2>1. parser.st # "wait" /\ ~KeepForLater
    BY <1>3 DEF ParseDone, KeepForLater
  <2>2. CASE req' = req /\ parser.data = <<>>
    <3>1. Alive' = Alive
      BY <2>2 DEF Alive
    <3> QED BY <1>0, <2>1, <2>2, <3>1, QuietInStep
  <2>3. CASE req' = req /\ req.ignoreNewData
    <3>1. ~Alive'
      BY <2>3 DEF Alive
    <3> QED BY <1>0, <2>1, <2>3, <3>1, IdleInStep
  <2>4. CASE req' = Closed(req)
    <3>1. /\ req'.protocol = req.protocol /\ req'.requestBuffer = req.requestBuffer
          /\ ~Alive'
      BY <1>0, <2>4 DEF Closed, Request, Alive
    <3> QED BY <1>0, <2>1, <3>1, IdleInStep
  <2> QED BY <1>3, <2>2, <2>3, <2>4 DEF ParseDone
<1> QED BY <1>1, <1>2, <1>3

LEMMA ResumeInStep ==
  ASSUME TypeOK, HandedOver, Waits, InStep, HeadersCompleteComplete
  PROVE  InStep'
<1>0. req \in Request /\ parser \in Parser
  BY Types
<1>1. parser.data = <<>> /\ parser.st = "wait"
  <2>1. bgq # <<>> /\ bgq[1].op = "headersDone" /\ 1 \in 1..Len(bgq)
    BY BgFront DEF HeadersCompleteComplete, Flush
  <2>2. parser.data = <<>>
    BY DEF HeadersCompleteComplete, Flush, BgIdle, HandedOver
  <2> QED BY <2>1, <2>2 DEF Waits
<1>2. /\ parser'.st = "ready" /\ parser'.data = req.requestBuffer /\ client' = client
  BY <1>0 DEF HeadersCompleteComplete, Execute, Parser
<1>3. /\ req'.protocol = req.protocol /\ req'.requestBuffer = <<>>
      /\ Alive' => Alive
  BY ReqOther DEF Alive
<1> DEFINE a == req.requestBuffer
           b == IF Alive THEN client.net ELSE <<>>
<1>4. a \in Bytes /\ b \in Bytes /\ Alive \in BOOLEAN
  BY StreamTypes
<1>5. a \o <<>> = a /\ <<>> \o a = a
  BY <1>4, ConcatEmptySeq DEF Bytes
<1>6. Stream = a \o b
  BY <1>1, <1>5 DEF Stream
<1>7. Stream' = a \o (IF Alive' THEN client.net ELSE <<>>)
  BY <1>2, <1>3, <1>5 DEF Stream
<1> HIDE DEF a
<1>8. ASSUME req.protocol = "HTTP" PROVE Paired(Stream', Alive')
  <2>1. Paired(a \o b, Alive)
    BY <1>6, <1>8 DEF InStep
  <2>2. CASE Alive' = Alive
    BY <1>7, <2>1, <2>2
  <2>3. CASE Alive' # Alive
    <3>1. Alive' = FALSE
      <4>1. Alive' \in BOOLEAN
        BY DEF Alive
      <4> QED BY <1>3, <1>4, <2>3, <4>1
    <3>2. Stream' = a
      BY <1>5, <1>7, <3>1
    <3> HIDE DEF b
    <3>3. Paired(a, FALSE)
      BY <1>4, <2>1, CutStream
    <3> QED BY <3>1, <3>2, <3>3
  <2> QED BY <2>2, <2>3
<1> QED BY <1>2, <1>3, <1>8 DEF InStep

LEMMA InStepStep ==
  ASSUME IInv, [Next]_vars
  PROVE  InStep'
<1> USE DEF IInv
<1>0. parser \in Parser /\ client \in Client
  BY Types
<1> DEFINE Still == /\ parser'.data = parser.data /\ parser'.st = parser.st
                    /\ parser'.cur = parser.cur /\ client'.net = client.net
<1>1. CASE ClientSendWs \/ \E s \in Shapes : ClientSend(s)
  BY <1>1, SendInStep
<1>2. CASE OnRead
  BY <1>2, ReadInStep
<1>3. CASE \/ ParseMessageBegin \/ ParseHeadersComplete \/ ParseWaiting
           \/ ParseHeadersDone \/ ParseBody \/ ParseRefuses
  BY <1>3, ParseInStep
<1>4. CASE KeepForLater \/ UpgradeConnection \/ ParseDone
  BY <1>4, AfterExecuteInStep
<1>5. CASE HeadersCompleteComplete
  BY <1>5, ResumeInStep
<1>6. CASE PassRequestBuffer
  <2>1. later # <<>> /\ later[1].op = "wsOpened" /\ 1 \in 1..Len(later)
    BY <1>6, LaterFront DEF PassRequestBuffer, RunLater
  <2>2. req.protocol = "WebSockets"
    BY <2>1 DEF HandedOver
  <2>3. req'.protocol = req.protocol
    BY <1>6, ReqOther
  <2> QED BY <2>2, <2>3 DEF InStep
<1>7. CASE \/ ClientLeaves \/ OnReadError \/ ServerStops
           \/ BodyError \/ MessageCompleteComplete \/ ScheduledClose \/ ScheduledWsRead
           \/ WriteOut \/ WriteFails \/ OnResponseWritten \/ OnChunkWritten \/ OnClosed
           \/ InitializeEnv \/ CallOnHeaders \/ CallOnBodyData \/ CallGetResponse
           \/ CallWsOpen \/ CallWsMessage \/ CallWsClose
           \/ PromiseResolves \/ UNCHANGED vars
  <2>1. Still
    <3>1. CASE BodyError
      BY <1>0, <3>1 DEF BodyError, Parser
    <3>2. CASE ClientLeaves \/ WriteFails
      BY <1>0, <3>2 DEF ClientLeaves, WriteFails, Client
    <3>3. CASE \/ OnReadError \/ ServerStops
               \/ MessageCompleteComplete \/ ScheduledClose \/ ScheduledWsRead
               \/ WriteOut \/ OnResponseWritten \/ OnChunkWritten \/ OnClosed
               \/ InitializeEnv \/ CallOnHeaders \/ CallOnBodyData \/ CallGetResponse
               \/ CallWsOpen \/ CallWsMessage \/ CallWsClose
               \/ PromiseResolves \/ UNCHANGED vars
      <4>1. parser' = parser /\ client' = client
        BY <3>3 DEF OnReadError, ServerStops, MessageCompleteComplete, ScheduledClose,
                    ScheduledWsRead, WriteOut, OnResponseWritten, OnChunkWritten, OnClosed,
                    InitializeEnv, CallOnHeaders, CallOnBodyData, CallGetResponse,
                    CallWsOpen, CallWsMessage, CallWsClose, PromiseResolves, vars
      <4> QED BY <4>1, SMTT(40)
    <3> QED BY <1>7, <3>1, <3>2, <3>3
  <2>2. CASE ReqKept(req, req')
    BY <2>1, <2>2, KeptAlive, QuietInStep
  <2>3. CASE OnClosed
    <3>1. /\ req'.protocol = req.protocol /\ req'.requestBuffer = req.requestBuffer
          /\ Alive' => Alive
      BY <2>3, ReqOther DEF Alive
    <3> QED BY <2>1, <3>1, QuietInStep
  <2> QED BY <1>3, <1>4, <1>5, <1>6, <2>2, <2>3, ReqStep
<1> QED BY <1>1, <1>2, <1>3, <1>4, <1>5, <1>6, <1>7
        DEF Next, ClientStep, Parse, FlushTask, WriteCallback, MainTask

-------------------------------------------------------------------------------
(* The invariant and the theorems. *)

LEMMA InitIInv ==
  ASSUME Init
  PROVE  IInv
<1>1. TypeOK
  BY InitTypes
<1>2. /\ req.isClosing = FALSE /\ req.isUpgrade = FALSE /\ req.protocol = "HTTP" /\ req.wsc = TRUE
      /\ req.requestBuffer = <<>> /\ req.reading /\ ~req.ignoreNewData
      /\ parser.st = "start" /\ parser.cur = 0 /\ parser.exec = "no" /\ parser.data = <<>>
      /\ client.net = <<>> /\ later = <<>> /\ bgq = <<>> /\ app.env = 0
  BY DEF Init
<1>3. Len(later) = 0 /\ Len(bgq) = 0 /\ <<>> \o <<>> = <<>>
  BY <1>2, EmptySeq, ConcatEmptySeq
<1>4. HandedOver
  BY <1>2, <1>3 DEF HandedOver
<1>5. Waits
  BY <1>2, <1>3 DEF Waits
<1>6. InStep
  <2>1. Stream = <<>> /\ Len(Stream) = 0
    BY <1>2, <1>3, EmptySeq DEF Stream
  <2> QED BY <1>2, <2>1 DEF InStep, Paired
<1>7. Environments
  BY <1>2, <1>3 DEF Environments, EnvOK, EnvAt
<1> QED BY <1>1, <1>4, <1>5, <1>6, <1>7 DEF IInv

LEMMA IInvStep ==
  ASSUME IInv, [Next]_vars
  PROVE  IInv'
<1>1. TypeOK'
  BY TypeStep
<1>2. HandedOver'
  BY <1>1, HandedOverStep
<1>3. Waits'
  BY <1>1, WaitsStep
<1>4. InStep'
  BY InStepStep
<1>5. Environments'
  BY LaterStep DEF IInv, Environments
<1> QED BY <1>1, <1>2, <1>3, <1>4, <1>5 DEF IInv

\* The inductive invariant of a connection: the types, what the handlers leave
\* to each other, one wait at a time, the unparsed bytes, and R's environment.
THEOREM IndInv == Spec => []IInv
<1>1. Init => IInv
  BY InitIInv
<1>2. IInv /\ [Next]_vars => IInv'
  BY IInvStep
<1> QED BY <1>1, <1>2, PTL DEF Spec

\* The variables have their types; the parser stands at a request that was sent
\* (on_message_begin to on_message_complete).
THEOREM TypeCorrect == Spec => []TypeOK
<1>1. IInv => TypeOK
  BY DEF IInv
<1> QED BY <1>1, IndInv, PTL

LEMMA PendingNone ==
  ASSUME NEW T, NEW q \in Seq(T), NEW op, \A i \in 1..Len(q) : q[i].op # op
  PROVE  Pending(q, op) = {}
<1>1. DOMAIN q = 1..Len(q)
  BY LenProperties
<1> QED BY <1>1 DEF Pending

LEMMA PendingOne ==
  ASSUME NEW T, NEW q \in Seq(T), NEW op, NEW i \in 1..Len(q), q[i].op = op,
         \A j \in 1..Len(q) : q[j].op = op => j = i
  PROVE  Pending(q, op) = {i}
<1>1. DOMAIN q = 1..Len(q)
  BY LenProperties
<1> QED BY <1>1 DEF Pending

\* The parser waits exactly while one call of onHeaders, or its outcome, is
\* under way, for the request the parser stands at (_on_headers_complete,
\* _on_headers_complete_complete), whatever the client and R do.
THEOREM ParserResumedOnceHolds == Spec => []ParserResumedOnce
<1>1. ASSUME IInv PROVE ParserResumedOnce
  <2> DEFINE a == Pending(later, "onHeaders")
             b == Pending(bgq, "headersDone")
  <2>1. later \in Seq(LaterTask) /\ bgq \in Seq(BgTask) /\ Waits
    BY <1>1, Types DEF IInv
  <2>2. CASE parser.st # "wait"
    <3>1. a = {} /\ b = {}
      BY <2>1, <2>2, PendingNone DEF Waits
    <3>2. Cardinality(a) + Cardinality(b) = 0
      BY <3>1, FS_EmptySet
    <3> QED BY <2>2, <3>1, <3>2 DEF ParserResumedOnce
  <2>3. CASE /\ parser.st = "wait"
             /\ \E i \in 1..Len(later) : later[i].op = "onHeaders"
    <3>1. PICK i \in 1..Len(later) : later[i].op = "onHeaders"
      BY <2>3
    <3>2. /\ later[i].k = parser.cur
          /\ \A j \in 1..Len(later) : later[j].op = "onHeaders" => j = i
          /\ \A j \in 1..Len(bgq) : bgq[j].op # "headersDone"
      BY <2>1, <3>1 DEF Waits
    <3>3. a = {i} /\ b = {}
      BY <2>1, <3>1, <3>2, PendingNone, PendingOne
    <3>4. Cardinality(a) + Cardinality(b) = 1
      <4>1. Cardinality({i}) = 1 /\ Cardinality({}) = 0
        BY FS_EmptySet, FS_Singleton
      <4> HIDE DEF a, b
      <4> QED BY <3>3, <4>1
    <3> QED BY <2>3, <3>2, <3>3, <3>4 DEF ParserResumedOnce
  <2>4. CASE /\ parser.st = "wait"
             /\ \E i \in 1..Len(bgq) : bgq[i].op = "headersDone"
    <3>1. PICK i \in 1..Len(bgq) : bgq[i].op = "headersDone"
      BY <2>4
    <3>2. /\ bgq[i].k = parser.cur
          /\ \A j \in 1..Len(bgq) : bgq[j].op = "headersDone" => j = i
          /\ \A j \in 1..Len(later) : later[j].op # "onHeaders"
      BY <2>1, <3>1 DEF Waits
    <3>3. a = {} /\ b = {i}
      BY <2>1, <3>1, <3>2, PendingNone, PendingOne
    <3>4. Cardinality(a) + Cardinality(b) = 1
      <4>1. Cardinality({i}) = 1 /\ Cardinality({}) = 0
        BY FS_EmptySet, FS_Singleton
      <4> HIDE DEF a, b
      <4> QED BY <3>3, <4>1
    <3> QED BY <2>4, <3>2, <3>3, <3>4 DEF ParserResumedOnce
  <2> QED BY <2>1, <2>2, <2>3, <2>4 DEF Waits
<1> QED BY <1>1, IndInv, PTL

\* What was read and not parsed while the parser waits is kept, beginning with
\* the unread LF; otherwise an HTTP connection keeps nothing (_requestBuffer in
\* _parse_http_data and _on_headers_complete_complete).
THEOREM BufferedWhileWaitingHolds == Spec => []BufferedWhileWaiting
<1>1. IInv => BufferedWhileWaiting
  BY DEF IInv, InStep, BufferedWhileWaiting
<1> QED BY <1>1, IndInv, PTL

\* R code runs for a request with the environment of that request, although
\* _env is shared by all requests of a connection (_initializeEnv).
THEOREM EnvIsOfRequestHolds == Spec => []EnvIsOfRequest
<1>1. ASSUME IInv PROVE EnvIsOfRequest
  <2> SUFFICES ASSUME later # <<>>, Head(later).op \in NeedsEnv
               PROVE  app.env = Head(later).k
    BY DEF EnvIsOfRequest, NeedsEnv
  <2>1. 1 \in 1..Len(later) /\ later[1] = Head(later)
    BY <1>1, LaterFront DEF IInv
  <2>2. EnvAt(later, app.env, 1, later[1].k)
    BY <1>1, <2>1 DEF IInv, Environments, EnvOK
  <2>3. later[1].op # "initEnv"
    BY <2>1 DEF NeedsEnv
  <2>4. \A j \in 1..1 : j = 1
    OBVIOUS
  <2> QED BY <2>1, <2>2, <2>3, <2>4 DEF EnvAt
<1> QED BY <1>1, IndInv, PTL
===============================================================================
