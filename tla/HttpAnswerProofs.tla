--------------------------- MODULE HttpAnswerProofs ---------------------------
(***************************************************************************)
(* Proofs about HttpConnection for clients that wait for their answers:    *)
(* one request at a time, one response for it, a body that R sees before   *)
(* it answers, whole responses in the order of the requests on the wire,   *)
(* and callbacks of a WebSocket in their order.  Any shapes and number of  *)
(* requests, and every application, as in HttpConnectionProofs; where a    *)
(* theorem asks for more, it says so.                                      *)
(***************************************************************************)
EXTENDS HttpConnectionProofs

(* The inductive invariant. *)

\* The client has sent no request before the last one was answered.
Patient == ~client.piped

Sent == Len(client.shape)

\* The final responses to request k among the responses q.
Finals(q, k) == {r \in 1..Len(q) : q[r].req = k /\ q[r].kind = "final"}

Outcome == {"headersDone", "bodyError", "messageDone"}

\* What R has yet to do for a request, and what it has handed back.
TasksOf(q, ops) == {q[i] : i \in {j \in 1..Len(q) : q[j].op \in ops}}
Asked(q) == TasksOf(q, NeedsEnv)
Replies(q) == TasksOf(q, Outcome)

Asks(op) == \E e \in Asked(later) : e.op = op
Replied(op) == \E e \in Replies(bgq) : e.op = op

\* A response is in the hands of the stream, or was, only after its head was
\* written; tasks name responses that exist.
Written ==
  /\ \A j \in 1..Len(outq) : outq[j].r \in 1..Len(resp) /\ resp[outq[j].r].st # "made"
  /\ \A i \in 1..Len(wire) : wire[i][1] \in 1..Len(resp) /\ resp[wire[i][1]].st # "made"
  /\ \A e \in Replies(bgq) : e.r \in 0..Len(resp) /\ (e.op = "bodyError" => e.r # 0)

\* The parser is behind a request: its message has ended.
Ended == parser.st \in {"start", "dead"} /\ parser.cur # 0

\* ... and R is to answer it.
Over == Ended /\ parser.status = 0 /\ Cur.upgrade = "no"

\* The rest of a request that was answered from its headers is thrown away.
Leftover == Ended /\ parser.status = 3 /\ Cur.body > 0

\* How many tokens of the current request, and of the next one, are to come.
Ahead == IF parser.st \in {"headers", "wait", "ready"} THEN 1 + Cur.body
         ELSE IF parser.st = "body" THEN parser.need ELSE 0
Fresh == IF Sent > parser.cur THEN 2 + client.shape[Sent].body ELSE 0

\* The stream s has a tokens of request k, the first of them the LF if lf; then
\* f tokens of request n, its head first; then those of a WebSocket, if ws.
Script(s, a, lf, k, f, n, ws) ==
  \A i \in 1..Len(s) :
    /\ i <= a => s[i] = Token(IF i = 1 /\ lf THEN "L" ELSE "B", k)
    /\ i > a /\ i <= a + f =>
         s[i] = Token(IF i = a + 1 THEN "H" ELSE IF i = a + 2 THEN "L" ELSE "B", n)
    /\ i > a + f => s[i].t = "W" /\ ws

Upgraded == \E k \in 1..Len(client.shape) : client.shape[k].upgrade = "ws"

\* One request at a time, and an upgrade as the last one.
InTurn ==
  /\ parser.cur <= Sent /\ Sent <= parser.cur + 1
  /\ Sent > parser.cur /\ parser.cur # 0 => Answered(parser.cur)
  /\ \A k \in 1..Len(client.shape) : k < Sent => client.shape[k].upgrade = "no"

\* The stream is the rest of the current request, then the next one.
Scripted ==
  req.protocol = "HTTP" =>
    /\ Leftover \/ Script(Stream, Ahead, parser.st # "body", parser.cur, Fresh, Sent, Upgraded)
    /\ Alive => Len(Stream) >= Ahead + Fresh
    /\ ~Alive \/ parser.st = "ready" => \A i \in 1..Len(parser.data) : parser.data[i].t # "H"
    /\ Leftover => parser.exec # "run" \/ parser.data = <<>>

\* What the states of the parser say about the request it stands at.
Flags ==
  /\ parser.cur = 0 => parser.st = "start"
  /\ parser.st = "body" => parser.need > 0 /\ Cur.upgrade = "no" /\ parser.status = 0
  /\ parser.st = "dead" => ~Cur.keep
  /\ parser.status = 3 /\ (Ended \/ parser.st = "ready") /\ ~req.ignoreNewData => Cur.keep /\ ~Cur.length
  /\ parser.errno => /\ req.ignoreNewData /\ parser.cur # 0 /\ Cur.upgrade = "no"
                     /\ parser.st = "body" \/ Over
  /\ req.isUpgrade => /\ parser.cur # 0 /\ parser.cur = Sent /\ Cur.upgrade # "no"
                      /\ parser.st \in {"wait", "ready", "start", "dead"}
  /\ parser.st \in {"wait", "ready"} \/ Ended => (req.isUpgrade <=> Cur.upgrade # "no")
  /\ parser.exec = "return" /\ parser.st # "wait" /\ ~req.isUpgrade =>
       parser.data = <<>> \/ req.ignoreNewData
  /\ req.isUpgrade /\ Ended /\ req.protocol = "HTTP" /\ parser.exec # "return" =>
       ~Alive /\ parser.data = <<>>
  /\ parser.st = "ready" => parser.exec = "run" /\ parser.data # <<>>

\* R is asked for the response last; an error of the body is reported before the
\* end of the message, which then brings no response.
AskedInOrder(q) == \A i, j \in 1..Len(q) : i < j /\ q[i].op = "getResponse" => q[j].op \notin NeedsEnv
RepliesInOrder(q) == \A i, j \in 1..Len(q) : i < j /\ q[i].op \in Outcome /\ q[j].op \in Outcome =>
  q[i].op = "bodyError" /\ q[j].op = "messageDone" /\ q[j].r = 0

\* The tasks are those of the current request, in the order in which R gets them.
TasksInOrder ==
  /\ \A e \in Asked(later) : e.k = parser.cur
  /\ app.promised \subseteq {parser.cur}
  /\ \A r \in 1..Len(resp) : resp[r].req <= parser.cur
  /\ AskedInOrder(later) /\ RepliesInOrder(bgq)

\* Which tasks there are while the parser is where it is.
TasksWhen ==
  /\ Asks("onBodyData") \/ Replied("bodyError") => parser.st = "body" \/ Over
  /\ Asks("getResponse") \/ Replied("messageDone") \/ app.promised # {} => Over
  /\ Over /\ Asks("onBodyData") => Asks("getResponse")
  /\ Asks("getResponse") => app.promised = {} /\ ~Replied("messageDone")
  /\ app.promised # {} => ~Replied("bodyError") /\ ~Replied("messageDone")

\* The current request gets one final response at most.
OneAnswer ==
  LET F == Finals(resp, parser.cur) IN
  /\ \A q, r \in F : q = r
  /\ F # {} /\ (Asks("onBodyData") \/ Asks("getResponse") \/ parser.st = "body") => req.responseScheduled
  /\ parser.st = "headers" \/ (parser.st = "ready" /\ parser.status = 0) =>
       F = {} /\ ~req.responseScheduled
  /\ parser.st = "wait" /\ F = {} => ~req.responseScheduled
  /\ Asks("onHeaders") \/ app.promised # {} => F = {}
  /\ \A e \in Replies(bgq) :
       /\ e.op = "headersDone" /\ e.r = 0 => F = {}
       /\ e.r # 0 => e.r \in F /\ resp[e.r].st = "made"
  /\ \A r \in F : resp[r].st # "made" /\ Alive =>
       /\ Asked(later) = {} /\ Replies(bgq) = {} /\ app.promised = {}
       /\ Cur.keep /\ (parser.st = "start" \/ (parser.st = "ready" /\ parser.status = 3))

OnBody == {e \in LaterTask : e.op = "onBodyData"}

\* How much of the body of the current request R has seen.
SeenNow ==
  LET k == parser.cur IN
  /\ app.called[k] > 0 => Over /\ ~Asks("getResponse")
  /\ parser.st \in {"headers", "wait", "ready"} => app.got[k] = 0 /\ ~app.failed[k]
  /\ (parser.st = "body" \/ Asks("getResponse")) /\ ~req.responseScheduled =>
       /\ ~app.failed[k]
       /\ app.got[k] + CountIn(later, OnBody)
            + (IF parser.st = "body" THEN parser.need ELSE 0) = Cur.body

BodySeen ==
  /\ \A k \in ReqNo :
       /\ k > parser.cur => app.called[k] = 0 /\ app.got[k] = 0 /\ ~app.failed[k]
       /\ app.called[k] > 0 =>
            app.called[k] = 1 /\ ~app.failed[k] /\ app.got[k] = client.shape[k].body
  /\ parser.cur # 0 => SeenNow

TurnInv == InTurn /\ Scripted /\ Flags
AnswerInv == TasksInOrder /\ TasksWhen /\ OneAnswer

PInv == Written /\ (Patient => TurnInv /\ AnswerInv /\ BodySeen)

-------------------------------------------------------------------------------
(* The tasks of a kind in a queue. *)

LEMMA TasksIn ==
  ASSUME NEW q, NEW ops, NEW e
  PROVE  e \in TasksOf(q, ops) <=> \E i \in 1..Len(q) : q[i].op \in ops /\ q[i] = e
BY DEF TasksOf

\* One task more.
LEMMA TasksAppend ==
  ASSUME NEW T, NEW q \in Seq(T), NEW e \in T, NEW ops
  PROVE  TasksOf(Append(q, e), ops) = TasksOf(q, ops) \cup (IF e.op \in ops THEN {e} ELSE {})
<1> DEFINE r == Append(q, e)
           n == Len(q)
<1>1. /\ n \in Nat /\ Len(r) = n + 1 /\ r[n + 1] = e /\ \A i \in 1..n : r[i] = q[i]
  BY LenProperties, AppendProperties
<1> HIDE DEF r, n
<1>2. \A i \in 1..(n + 1) : i = n + 1 \/ i \in 1..n
  BY <1>1
<1>3. n + 1 \in 1..(n + 1) /\ \A i \in 1..n : i \in 1..(n + 1)
  BY <1>1
<1>4. ASSUME NEW x PROVE x \in TasksOf(r, ops) <=> x \in TasksOf(q, ops) \/ (e.op \in ops /\ x = e)
  <2>1. x \in TasksOf(r, ops) <=> \E i \in 1..(n + 1) : r[i].op \in ops /\ r[i] = x
    BY <1>1, TasksIn
  <2>2. x \in TasksOf(q, ops) <=> \E i \in 1..n : q[i].op \in ops /\ q[i] = x
    BY TasksIn DEF n
  <2> QED BY <1>1, <1>2, <1>3, <2>1, <2>2
<1> QED BY <1>4 DEF r

\* Tasks of other kinds are added.
LEMMA TasksConcat ==
  ASSUME NEW T, NEW q \in Seq(T), NEW w \in Seq(T), NEW ops, \A i \in 1..Len(w) : w[i].op \notin ops
  PROVE  TasksOf(q \o w, ops) = TasksOf(q, ops)
<1> DEFINE r == q \o w
           n == Len(q)
<1>1. /\ n \in Nat /\ Len(w) \in Nat /\ Len(r) = n + Len(w)
      /\ \A i \in 1..n : r[i] = q[i] /\ \A j \in 1..Len(w) : r[n + j] = w[j]
  BY ConcatTypes
<1>2. \A j \in 1..Len(w) : r[n + j] = w[j]
  BY ConcatTypes
<1> HIDE DEF r, n
<1>3. \A i \in 1..Len(r) : i \in 1..n \/ (i - n \in 1..Len(w) /\ n + (i - n) = i)
  BY <1>1
<1>4. \A i \in 1..n : i \in 1..Len(r)
  BY <1>1
<1>5. \A i \in 1..Len(r) : r[i].op \in ops => i \in 1..n
  BY <1>2, <1>3
<1>6. ASSUME NEW x PROVE x \in TasksOf(r, ops) <=> x \in TasksOf(q, ops)
  <2>1. x \in TasksOf(r, ops) <=> \E i \in 1..Len(r) : r[i].op \in ops /\ r[i] = x
    BY TasksIn
  <2>2. x \in TasksOf(q, ops) <=> \E i \in 1..n : q[i].op \in ops /\ q[i] = x
    BY TasksIn DEF n
  <2> QED BY <1>1, <1>4, <1>5, <2>1, <2>2
<1> QED BY <1>6 DEF r

\* The first task is taken.
LEMMA TasksTail ==
  ASSUME NEW T, NEW q \in Seq(T), q # <<>>, NEW ops
  PROVE  TasksOf(q, ops) = TasksOf(Tail(q), ops) \cup (IF Head(q).op \in ops THEN {Head(q)} ELSE {})
<1> DEFINE r == Tail(q)
           n == Len(q)
<1>1. /\ n \in Nat \ {0} /\ Len(r) = n - 1 /\ Head(q) = q[1] /\ \A i \in 1..(n - 1) : r[i] = q[i + 1]
  BY TailRange
<1> HIDE DEF r, n
<1>2. \A i \in 1..n : i = 1 \/ (i - 1 \in 1..(n - 1) /\ (i - 1) + 1 = i)
  BY <1>1
<1>3. 1 \in 1..n /\ \A i \in 1..(n - 1) : i + 1 \in 1..n
  BY <1>1
<1>4. ASSUME NEW x PROVE x \in TasksOf(q, ops) <=> x \in TasksOf(r, ops) \/ (q[1].op \in ops /\ x = q[1])
  <2>1. x \in TasksOf(r, ops) <=> \E i \in 1..(n - 1) : r[i].op \in ops /\ r[i] = x
    BY <1>1, TasksIn
  <2>2. x \in TasksOf(q, ops) <=> \E i \in 1..n : q[i].op \in ops /\ q[i] = x
    BY TasksIn DEF n
  <2> QED BY <1>1, <1>2, <1>3, <2>1, <2>2
<1> QED BY <1>1, <1>4 DEF r

\* The order of R's tasks.
LEMMA AskedAppend ==
  ASSUME NEW q \in Seq(LaterTask), NEW e \in LaterTask, AskedInOrder(q),
         e.op \in NeedsEnv => \A x \in Asked(q) : x.op # "getResponse"
  PROVE  AskedInOrder(Append(q, e))
<1> DEFINE r == Append(q, e)
           n == Len(q)
<1>1. /\ n \in Nat /\ Len(r) = n + 1 /\ r[n + 1] = e /\ \A i \in 1..n : r[i] = q[i]
  BY LenProperties, AppendProperties
<1> HIDE DEF r, n
<1> SUFFICES ASSUME NEW i \in 1..Len(r), NEW j \in 1..Len(r), i < j, r[i].op = "getResponse"
             PROVE  r[j].op \notin NeedsEnv
  BY DEF AskedInOrder, r
<1>2. i \in 1..n /\ (j \in 1..n \/ j = n + 1)
  BY <1>1
<1>3. q[i] \in Asked(q)
  BY <1>1, <1>2 DEF Asked, TasksOf, n, NeedsEnv
<1> QED BY <1>1, <1>2, <1>3 DEF AskedInOrder, n

LEMMA AskedConcat ==
  ASSUME NEW q \in Seq(LaterTask), NEW w \in Seq(LaterTask), AskedInOrder(q),
         \A i \in 1..Len(w) : w[i].op \notin NeedsEnv
  PROVE  AskedInOrder(q \o w)
<1> DEFINE r == q \o w
           n == Len(q)
<1>1. /\ n \in Nat /\ Len(w) \in Nat /\ Len(r) = n + Len(w)
      /\ \A i \in 1..n : r[i] = q[i]
  BY ConcatTypes
<1>2. \A j \in 1..Len(w) : r[n + j] = w[j]
  BY ConcatTypes
<1> HIDE DEF r, n
<1>3. \A i \in 1..Len(r) : i \in 1..n \/ (i - n \in 1..Len(w) /\ n + (i - n) = i)
  BY <1>1
<1>4. \A i \in 1..Len(r) : r[i].op \in NeedsEnv => i \in 1..n
  BY <1>2, <1>3
<1> SUFFICES ASSUME NEW i \in 1..Len(r), NEW j \in 1..Len(r), i < j, r[i].op = "getResponse",
                    r[j].op \in NeedsEnv
             PROVE  FALSE
  BY DEF AskedInOrder, r
<1>5. j \in 1..n /\ i \in 1..n
  BY <1>1, <1>4
<1> QED BY <1>1, <1>5 DEF AskedInOrder, n

LEMMA AskedTail ==
  ASSUME NEW q \in Seq(LaterTask), q # <<>>, AskedInOrder(q)
  PROVE  /\ AskedInOrder(Tail(q))
         /\ Head(q).op = "getResponse" => Asked(Tail(q)) = {}
<1> DEFINE r == Tail(q)
           n == Len(q)
<1>1. /\ n \in Nat \ {0} /\ Len(r) = n - 1 /\ Head(q) = q[1] /\ \A i \in 1..(n - 1) : r[i] = q[i + 1]
  BY TailRange
<1> HIDE DEF r, n
<1>2. 1 \in 1..n /\ \A i \in 1..(n - 1) : i + 1 \in 1..n /\ 1 < i + 1
  BY <1>1
<1>3. ASSUME NEW i \in 1..(n - 1), NEW j \in 1..(n - 1), i < j, r[i].op = "getResponse"
      PROVE  r[j].op \notin NeedsEnv
  <2>1. i + 1 < j + 1
    BY <1>1, <1>3
  <2> QED BY <1>1, <1>2, <1>3, <2>1 DEF AskedInOrder, n
<1>4. ASSUME q[1].op = "getResponse", NEW x \in TasksOf(r, NeedsEnv) PROVE FALSE
  <2>1. PICK i \in 1..(n - 1) : r[i].op \in NeedsEnv
    BY <1>1, <1>4, TasksIn
  <2> QED BY <1>1, <1>2, <1>4, <2>1 DEF AskedInOrder, n
<1> QED BY <1>1, <1>3, <1>4 DEF AskedInOrder, Asked, r

\* The same tasks for R, in order, as many of them for the body.
SameAsks(q, r) == /\ Asked(r) = Asked(q)
                  /\ AskedInOrder(q) => AskedInOrder(r)
                  /\ CountIn(r, OnBody) = CountIn(q, OnBody)

LEMMA SameAsksAppend ==
  ASSUME NEW q \in Seq(LaterTask), NEW e \in LaterTask, e.op \notin NeedsEnv
  PROVE  SameAsks(q, Append(q, e))
<1>1. e \notin OnBody
  BY DEF OnBody, NeedsEnv
<1>2. Asked(Append(q, e)) = Asked(q)
  <2>1. Asked(Append(q, e)) = Asked(q) \cup (IF e.op \in NeedsEnv THEN {e} ELSE {})
    <3>1. TasksOf(Append(q, e), NeedsEnv) = TasksOf(q, NeedsEnv) \cup (IF e.op \in NeedsEnv THEN {e} ELSE {})
      BY TasksAppend
    <3> QED BY <3>1, Zenon DEF Asked
  <2> QED BY <2>1
<1>3. CountIn(q, OnBody) \in Nat /\ CountIn(Append(q, e), OnBody) = CountIn(q, OnBody) + 0
  BY <1>1, CountAppend, CountType
<1> QED BY <1>2, <1>3, AskedAppend DEF SameAsks

LEMMA SameAsksConcat ==
  ASSUME NEW q \in Seq(LaterTask), NEW w, Quiet(w)
  PROVE  SameAsks(q, q \o w)
<1>1. w \in Seq(LaterTask) /\ \A i \in 1..Len(w) : w[i].op \in {"wsMessage", "wsClose"}
  BY DEF Quiet
<1>2. \A i \in 1..Len(w) : w[i].op \notin NeedsEnv /\ w[i] \notin OnBody
  BY <1>1 DEF NeedsEnv, OnBody
<1>3. Asked(q \o w) = Asked(q)
  BY <1>1, <1>2, TasksConcat DEF Asked
<1>4. CountIn(w, OnBody) = 0
  <2>1. DOMAIN w = 1..Len(w)
    BY <1>1, LenProperties
  <2>2. {i \in DOMAIN w : w[i] \in OnBody} = {}
    BY <1>2, <2>1
  <2> QED BY <2>2, FS_EmptySet DEF CountIn
<1>5. CountIn(q, OnBody) \in Nat /\ CountIn(q \o w, OnBody) = CountIn(q, OnBody) + CountIn(w, OnBody)
  <2>1. CountIn(q, OnBody) \in Nat
    BY CountType
  <2>2. CountIn(q \o w, OnBody) = CountIn(q, OnBody) + CountIn(w, OnBody)
    BY <1>1, CountConcat
  <2> QED BY <2>1, <2>2
<1>6. AskedInOrder(q) => AskedInOrder(q \o w)
  BY <1>1, <1>2, AskedConcat
<1> QED BY <1>3, <1>4, <1>5, <1>6 DEF SameAsks

LEMMA SameAsksTail ==
  ASSUME NEW q \in Seq(LaterTask), q # <<>>, Head(q).op \notin NeedsEnv
  PROVE  SameAsks(q, Tail(q))
<1>1. Head(q) \notin OnBody
  BY DEF OnBody, NeedsEnv
<1>2. Asked(q) = Asked(Tail(q))
  <2>1. Asked(q) = Asked(Tail(q)) \cup (IF Head(q).op \in NeedsEnv THEN {Head(q)} ELSE {})
    BY TasksTail, Zenon DEF Asked
  <2> QED BY <2>1
<1>3. Tail(q) \in Seq(LaterTask)
  BY TailRange
<1>4. CountIn(Tail(q), OnBody) \in Nat /\ CountIn(q, OnBody) = CountIn(Tail(q), OnBody) + 0
  BY <1>1, <1>3, CountTail, CountType
<1> QED BY <1>2, <1>4, AskedTail DEF SameAsks

LEMMA SameAsksFirst ==
  ASSUME NEW q \in Seq(LaterTask), NEW r \in Seq(LaterTask), q # <<>>, Len(r) = Len(q),
         q[1].op \notin NeedsEnv, r[1].op \notin NeedsEnv, \A i \in 2..Len(q) : r[i] = q[i]
  PROVE  SameAsks(q, r)
<1> DEFINE n == Len(q)
<1>1. n \in Nat \ {0} /\ Len(r) = n
  BY TailRange
<1> HIDE DEF n
<1>2. \A i \in 1..n : i = 1 \/ i \in 2..n
  BY <1>1
<1>3. \A i \in 1..n : (r[i].op \in NeedsEnv <=> q[i].op \in NeedsEnv) /\ (r[i].op \in NeedsEnv => r[i] = q[i])
  BY <1>2 DEF n
<1>4. Asked(r) = Asked(q)
  <2>1. ASSUME NEW x PROVE x \in TasksOf(r, NeedsEnv) <=> x \in TasksOf(q, NeedsEnv)
    <3>1. x \in TasksOf(r, NeedsEnv) <=> \E i \in 1..n : r[i].op \in NeedsEnv /\ r[i] = x
      BY <1>1, TasksIn
    <3>2. x \in TasksOf(q, NeedsEnv) <=> \E i \in 1..n : q[i].op \in NeedsEnv /\ q[i] = x
      BY TasksIn DEF n
    <3> QED BY <1>3, <3>1, <3>2
  <2> QED BY <2>1 DEF Asked
<1>5. AskedInOrder(q) => AskedInOrder(r)
  <2> SUFFICES ASSUME AskedInOrder(q), NEW i \in 1..n, NEW j \in 1..n, i < j, r[i].op = "getResponse"
               PROVE  r[j].op \notin NeedsEnv
    BY <1>1 DEF AskedInOrder
  <2>1. q[i].op = "getResponse"
    BY <1>3 DEF NeedsEnv
  <2> QED BY <1>3, <2>1 DEF AskedInOrder, n
<1>6. CountIn(r, OnBody) = CountIn(q, OnBody)
  <2>1. \A i \in 1..n : r[i] \in OnBody <=> q[i] \in OnBody
    BY <1>2 DEF OnBody, NeedsEnv, n
  <2> QED BY <1>1, <2>1, CountAlike DEF n
<1> QED BY <1>4, <1>5, <1>6 DEF SameAsks

\* The order of the outcomes.
LEMMA RepliesAppend ==
  ASSUME NEW q \in Seq(BgTask), NEW e \in BgTask, RepliesInOrder(q),
         e.op \in Outcome => \A x \in Replies(q) : x.op = "bodyError" /\ e.op = "messageDone" /\ e.r = 0
  PROVE  RepliesInOrder(Append(q, e))
<1> DEFINE r == Append(q, e)
           n == Len(q)
<1>1. /\ n \in Nat /\ Len(r) = n + 1 /\ r[n + 1] = e /\ \A i \in 1..n : r[i] = q[i]
  BY LenProperties, AppendProperties
<1> HIDE DEF r, n
<1> SUFFICES ASSUME NEW i \in 1..Len(r), NEW j \in 1..Len(r), i < j,
                    r[i].op \in Outcome, r[j].op \in Outcome
             PROVE  r[i].op = "bodyError" /\ r[j].op = "messageDone" /\ r[j].r = 0
  BY DEF RepliesInOrder, r
<1>2. i \in 1..n /\ (j \in 1..n \/ j = n + 1)
  BY <1>1
<1>3. q[i] \in Replies(q)
  BY <1>1, <1>2 DEF Replies, TasksOf, n
<1> QED BY <1>1, <1>2, <1>3 DEF RepliesInOrder, n

LEMMA RepliesTail ==
  ASSUME NEW q \in Seq(BgTask), q # <<>>, RepliesInOrder(q)
  PROVE  /\ RepliesInOrder(Tail(q))
         /\ Head(q).op \in Outcome => \A x \in Replies(Tail(q)) :
              Head(q).op = "bodyError" /\ x.op = "messageDone" /\ x.r = 0
<1> DEFINE r == Tail(q)
           n == Len(q)
<1>1. /\ n \in Nat \ {0} /\ Len(r) = n - 1 /\ Head(q) = q[1] /\ \A i \in 1..(n - 1) : r[i] = q[i + 1]
  BY TailRange
<1> HIDE DEF r, n
<1>2. 1 \in 1..n /\ \A i \in 1..(n - 1) : i + 1 \in 1..n /\ 1 < i + 1
  BY <1>1
<1>3. ASSUME NEW i \in 1..(n - 1), NEW j \in 1..(n - 1), i < j, r[i].op \in Outcome, r[j].op \in Outcome
      PROVE  r[i].op = "bodyError" /\ r[j].op = "messageDone" /\ r[j].r = 0
  <2>1. i + 1 < j + 1
    BY <1>1, <1>3
  <2> QED BY <1>1, <1>2, <1>3, <2>1 DEF RepliesInOrder, n
<1>4. ASSUME q[1].op \in Outcome, NEW x \in TasksOf(r, Outcome)
      PROVE  q[1].op = "bodyError" /\ x.op = "messageDone" /\ x.r = 0
  <2>1. PICK i \in 1..(n - 1) : r[i].op \in Outcome /\ r[i] = x
    BY <1>1, <1>4, TasksIn
  <2> QED BY <1>1, <1>2, <1>4, <2>1 DEF RepliesInOrder, n
<1> QED BY <1>1, <1>3, <1>4 DEF RepliesInOrder, Replies, r

\* The same outcomes, in order.
SameReplies(q, r) == Replies(r) = Replies(q) /\ (RepliesInOrder(q) => RepliesInOrder(r))

LEMMA SameRepliesAppend ==
  ASSUME NEW q \in Seq(BgTask), NEW e \in BgTask, e.op \notin Outcome
  PROVE  SameReplies(q, Append(q, e))
<1>1. TasksOf(Append(q, e), Outcome) = TasksOf(q, Outcome) \cup (IF e.op \in Outcome THEN {e} ELSE {})
  BY TasksAppend
<1>2. Replies(Append(q, e)) = Replies(q)
  BY <1>1 DEF Replies
<1> QED BY <1>2, RepliesAppend DEF SameReplies

LEMMA SameRepliesTail ==
  ASSUME NEW q \in Seq(BgTask), q # <<>>, Head(q).op \notin Outcome
  PROVE  SameReplies(q, Tail(q))
<1>1. TasksOf(q, Outcome) = TasksOf(Tail(q), Outcome) \cup (IF Head(q).op \in Outcome THEN {Head(q)} ELSE {})
  BY TasksTail
<1>2. Replies(Tail(q)) = Replies(q)
  BY <1>1 DEF Replies
<1> QED BY <1>2, RepliesTail DEF SameReplies

\* Steps that give R nothing to do but with a WebSocket.
LEMMA QuietSteps ==
  ASSUME TypeOK, \/ OnRead \/ OnReadError \/ ServerStops \/ ScheduledClose \/ ScheduledWsRead
                 \/ OnResponseWritten \/ OnChunkWritten
  PROVE  later' = later \/ \E w : Quiet(w) /\ later' = later \o w
<1>1. CASE OnReadError \/ ServerStops \/ ScheduledClose
  BY <1>1, CloseTasksQuiet, SMTT(40) DEF OnReadError, ServerStops, ScheduledClose
<1>2. CASE OnResponseWritten \/ OnChunkWritten
  BY <1>2, CloseTasksQuiet DEF OnResponseWritten, OnChunkWritten, Release, NextChunk
<1>3. CASE ScheduledWsRead
  <2>1. bgq # <<>> /\ Head(bgq).op = "wsRead"
    BY <1>3 DEF ScheduledWsRead, Flush
  <2>2. Head(bgq).d \in Seq(AnyToken)
    BY <2>1, BgFront, TaskFields
  <2>3. [i \in DOMAIN Head(bgq).d |-> Token("W", 0)] \in Seq(AnyToken)
    <3>1. DOMAIN Head(bgq).d = 1..Len(Head(bgq).d) /\ Len(Head(bgq).d) \in Nat
      BY <2>2, LenProperties
    <3>2. Token("W", 0) \in AnyToken
      BY DEF Token, AnyToken
    <3> QED BY <3>1, <3>2, SeqDef
  <2> QED BY <1>3, <2>2, <2>3, WsMessagesQuiet DEF ScheduledWsRead
<1>4. CASE OnRead
  <2>1. PICK n \in 1..Len(client.net) :
          later' = later \/ later' = later \o WsMessages(SubSeq(client.net, 1, n))
            \/ later' = later \o <<>>
    BY <1>4 DEF OnRead
  <2>2. SubSeq(client.net, 1, n) \in Seq(AnyToken)
    <3>1. client.net \in Seq(AnyToken)
      BY Types, TokenSeqs DEF Client
    <3>2. Len(client.net) \in Nat /\ \A i \in 1..Len(client.net) : client.net[i] \in AnyToken
      BY <3>1, LenProperties, ElementOfSeq
    <3>3. n \in Int /\ \A i \in 1..n : client.net[i] \in AnyToken
      BY <3>2
    <3> QED BY <3>3, SubSeqProperties
  <2>3. Quiet(<<>>)
    BY EmptySeq DEF Quiet
  <2> QED BY <2>1, <2>2, <2>3, WsMessagesQuiet
<1> QED BY <1>1, <1>2, <1>3, <1>4

\* The steps that add no task for R, and take none, of a request.
LEMMA AskedStep ==
  ASSUME TypeOK, Environments, [Next]_vars
  PROVE  \/ SameAsks(later, later')
         \/ ParseHeadersComplete \/ ParseHeadersDone \/ ParseBody
         \/ CallOnHeaders \/ CallOnBodyData \/ CallGetResponse
<1>0. later \in Seq(LaterTask) /\ NeedsEnv = {"onHeaders", "onBodyData", "getResponse"}
  BY Types DEF NeedsEnv
<1>1. ASSUME later' = later PROVE SameAsks(later, later')
  BY <1>1 DEF SameAsks
<1>2. CASE \/ \E s \in Shapes : ClientSend(s)
           \/ ClientSendWs \/ ClientLeaves \/ ParseWaiting \/ ParseRefuses \/ KeepForLater
           \/ ParseDone \/ HeadersCompleteComplete \/ BodyError \/ MessageCompleteComplete
           \/ WriteOut \/ WriteFails \/ OnClosed \/ PromiseResolves \/ UNCHANGED vars
  <2>1. later' = later
    BY <1>2, ZenonT(40) DEF ClientSend, ClientSendWs, ClientLeaves, ParseWaiting, ParseRefuses, KeepForLater,
                ParseDone, HeadersCompleteComplete, BodyError, MessageCompleteComplete, WriteOut,
                WriteFails, OnClosed, PromiseResolves, vars
  <2> QED BY <1>1, <2>1
<1>3. CASE OnRead \/ OnReadError \/ ServerStops \/ ScheduledClose \/ ScheduledWsRead
           \/ OnResponseWritten \/ OnChunkWritten
  <2>1. later' = later \/ \E w : Quiet(w) /\ later' = later \o w
    BY <1>3, QuietSteps
  <2>2. CASE \E w : Quiet(w) /\ later' = later \o w
    BY <1>0, <2>2, SameAsksConcat
  <2> QED BY <1>1, <2>1, <2>2
<1>4. CASE ParseMessageBegin
  <2> DEFINE e == [op |-> "initEnv", k |-> Head(parser.data).k]
  <2>1. later' = Append(later, e)
    BY <1>4 DEF ParseMessageBegin
  <2>2. Head(parser.data).k \in ReqNo
    BY <1>4, NextToken DEF ParseMessageBegin, Executing
  <2>3. e \in LaterTask /\ e.op = "initEnv"
    BY <2>2, LaterTasks
  <2> HIDE DEF e
  <2> QED BY <1>0, <2>1, <2>3, SameAsksAppend
<1>5. CASE UpgradeConnection
  <2> DEFINE e == [op |-> "wsOpen"]
  <2>1. later' = later \/ later' = Append(later, e)
    BY <1>5 DEF UpgradeConnection
  <2>2. e \in LaterTask /\ e.op = "wsOpen"
    BY WsTasks
  <2> HIDE DEF e
  <2> QED BY <1>0, <1>1, <2>1, <2>2, SameAsksAppend
<1>6. CASE InitializeEnv \/ PassRequestBuffer \/ CallWsMessage \/ CallWsClose
  <2>1. later # <<>> /\ later' = Tail(later)
        /\ Head(later).op \in {"initEnv", "wsOpened", "wsMessage", "wsClose"}
    BY <1>6 DEF InitializeEnv, PassRequestBuffer, CallWsMessage, CallWsClose, RunLater
  <2> QED BY <1>0, <2>1, SameAsksTail
<1>7. CASE CallWsOpen
  <2> DEFINE e == [op |-> "wsOpened"]
             r == <<e>> \o Tail(later)
  <2>1. later # <<>> /\ Head(later).op = "wsOpen" /\ later' = r
    BY <1>7 DEF CallWsOpen
  <2>2. e \in LaterTask /\ e.op = "wsOpened"
    BY WsTasks
  <2> HIDE DEF e
  <2>3. /\ r \in Seq(LaterTask) /\ Len(r) = Len(later) /\ r[1] = e
        /\ \A i \in 2..Len(later) : r[i] = later[i]
    BY <1>0, <2>1, <2>2, ReplaceFirst DEF Environments
  <2> HIDE DEF r
  <2>4. later[1].op = "wsOpen"
    BY <2>1, LaterFront
  <2> QED BY <1>0, <2>1, <2>2, <2>3, <2>4, SameAsksFirst
<1> QED BY <1>2, <1>3, <1>4, <1>5, <1>6, <1>7
        DEF Next, ClientStep, Parse, FlushTask, WriteCallback, MainTask

\* The steps that hand nothing back for a request, and use nothing up.
LEMMA RepliesStep ==
  ASSUME TypeOK, [Next]_vars
  PROVE  \/ SameReplies(bgq, bgq')
         \/ ParseHeadersComplete \/ CallOnHeaders \/ CallOnBodyData \/ CallGetResponse \/ PromiseResolves
         \/ HeadersCompleteComplete \/ BodyError \/ MessageCompleteComplete
<1>0. bgq \in Seq(BgTask) /\ Outcome = {"headersDone", "bodyError", "messageDone"}
  BY Types DEF Outcome
<1>1. ASSUME bgq' = bgq PROVE SameReplies(bgq, bgq')
  BY <1>1 DEF SameReplies
<1>3. CASE ScheduledClose \/ ScheduledWsRead
  <2>1. bgq # <<>> /\ bgq' = Tail(bgq) /\ Head(bgq).op \in {"close", "wsRead"}
    BY <1>3 DEF ScheduledClose, ScheduledWsRead, Flush
  <2> QED BY <1>0, <2>1, SameRepliesTail
<1>4. CASE \/ \E s \in Shapes : ClientSend(s)
           \/ ClientSendWs \/ ClientLeaves \/ OnRead \/ OnReadError \/ ServerStops
           \/ ParseMessageBegin \/ ParseWaiting \/ ParseHeadersDone \/ ParseBody
           \/ ParseRefuses \/ KeepForLater \/ UpgradeConnection \/ ParseDone
           \/ WriteOut \/ WriteFails \/ OnResponseWritten \/ OnChunkWritten \/ OnClosed
           \/ InitializeEnv \/ CallWsClose \/ UNCHANGED vars
  <2>1. bgq' = bgq
    BY <1>4, Zenon DEF ClientSend, ClientSendWs, ClientLeaves, OnRead, OnReadError, ServerStops,
                ParseMessageBegin, ParseWaiting, ParseHeadersDone, ParseBody, ParseRefuses,
                KeepForLater, UpgradeConnection, ParseDone, WriteOut, WriteFails,
                OnResponseWritten, OnChunkWritten, OnClosed, InitializeEnv, CallWsClose, vars
  <2> QED BY <1>1, <2>1
<1>5. CASE CallWsOpen \/ CallWsMessage \/ PassRequestBuffer
  <2> DEFINE e == [op |-> "close"]
             g == [op |-> "wsRead", d |-> req.requestBuffer]
  <2>1. bgq' = bgq \/ bgq' = Append(bgq, e) \/ bgq' = Append(bgq, g)
    BY <1>5 DEF CallWsOpen, CallWsMessage, PassRequestBuffer
  <2>2. e \in BgTask /\ e.op \notin Outcome
    BY <1>0, WsTasks
  <2>3. g \in BgTask /\ g.op \notin Outcome
    <3>1. req.requestBuffer \in Seq(AnyToken)
      BY Types, RequestTypes, TokenSeqs
    <3> QED BY <1>0, <3>1 DEF BgTask, AnyToken
  <2> HIDE DEF e, g
  <2> QED BY <1>0, <1>1, <2>1, <2>2, <2>3, SameRepliesAppend
<1> QED BY <1>3, <1>4, <1>5
        DEF Next, ClientStep, Parse, FlushTask, WriteCallback, MainTask

-------------------------------------------------------------------------------
(* The responses. *)

SameResponse(a, b) == a.req = b.req /\ a.kind = b.kind /\ a.body = b.body

\* Responses are added; those that there were remain, and remain written.
RespGrows(q, r) ==
  /\ Len(r) >= Len(q)
  /\ \A i \in 1..Len(q) : SameResponse(q[i], r[i]) /\ (q[i].st # "made" => r[i].st # "made")

\* The same responses, written or not as before.
RespAlike(q, r) ==
  /\ Len(r) = Len(q)
  /\ \A i \in 1..Len(q) : SameResponse(q[i], r[i]) /\ (q[i].st = "made" <=> r[i].st = "made")

\* Response k is written by now.
RespWritten(q, r, k) ==
  /\ Len(r) = Len(q)
  /\ \A i \in 1..Len(q) : SameResponse(q[i], r[i]) /\ (i # k => r[i].st = q[i].st)
  /\ r[k].st # "made"

LEMMA RespAppend ==
  ASSUME NEW q \in Seq(Response), NEW e \in Response
  PROVE  /\ RespGrows(q, Append(q, e)) /\ Len(q) \in Nat
         /\ Len(Append(q, e)) = Len(q) + 1 /\ Append(q, e)[Len(q) + 1] = e
         /\ \A i \in 1..Len(q) : Append(q, e)[i] = q[i]
<1> DEFINE r == Append(q, e)
<1>1. Len(q) \in Nat /\ Len(r) = Len(q) + 1 /\ r[Len(q) + 1] = e /\ \A i \in 1..Len(q) : r[i] = q[i]
  BY LenProperties, AppendProperties
<1> HIDE DEF r
<1>2. RespGrows(q, r)
  BY <1>1 DEF RespGrows, SameResponse
<1> QED BY <1>1, <1>2 DEF r

LEMMA RespUpdate ==
  ASSUME NEW q \in Seq(Response), NEW k \in 1..Len(q), NEW st, st # "made", NEW close
  PROVE  /\ RespWritten(q, [q EXCEPT ![k].closeAfter = close, ![k].st = st], k)
         /\ RespWritten(q, [q EXCEPT ![k].st = st, ![k].closeAfter = close], k)
         /\ RespWritten(q, [q EXCEPT ![k].st = st], k)
<1>1. Len(q) \in Nat /\ DOMAIN q = 1..Len(q) /\ q \in [1..Len(q) -> Response] /\ q[k] \in Response
  BY LenProperties, ElementOfSeq
<1> DEFINE e1 == [[q[k] EXCEPT !.closeAfter = close] EXCEPT !.st = st]
           e2 == [[q[k] EXCEPT !.st = st] EXCEPT !.closeAfter = close]
           e3 == [q[k] EXCEPT !.st = st]
<1>2. /\ SameResponse(q[k], e1) /\ e1.st = st
      /\ SameResponse(q[k], e2) /\ e2.st = st
      /\ SameResponse(q[k], e3) /\ e3.st = st
  BY <1>1 DEF Response, SameResponse
<1>3. /\ [q EXCEPT ![k].closeAfter = close, ![k].st = st] = [q EXCEPT ![k] = e1]
      /\ [q EXCEPT ![k].st = st, ![k].closeAfter = close] = [q EXCEPT ![k] = e2]
      /\ [q EXCEPT ![k].st = st] = [q EXCEPT ![k] = e3]
  BY <1>1
<1> HIDE DEF e1, e2, e3
<1>4. ASSUME NEW e, SameResponse(q[k], e), e.st = st PROVE RespWritten(q, [q EXCEPT ![k] = e], k)
  <2> DEFINE u == [q EXCEPT ![k] = e]
  <2>1. DOMAIN u = 1..Len(q) /\ u[k] = e /\ \A i \in 1..Len(q) : i # k => u[i] = q[i]
    BY <1>1
  <2>2. Len(u) = Len(q)
    <3>1. u \in [1..Len(q) -> Response \cup {e}]
      BY <1>1
    <3> HIDE DEF u
    <3> QED BY <1>1, <3>1, FunctionIsSeq
  <2> HIDE DEF u
  <2>3. ASSUME NEW i \in 1..Len(q) PROVE SameResponse(q[i], u[i]) /\ (i # k => u[i].st = q[i].st)
    BY <1>4, <2>1, <2>3 DEF SameResponse
  <2> QED BY <1>4, <2>1, <2>2, <2>3 DEF RespWritten, u
<1> QED BY <1>2, <1>3, <1>4

LEMMA RespWrittenFacts ==
  ASSUME NEW q \in Seq(Response), NEW r, NEW k, RespWritten(q, r, k)
  PROVE  RespGrows(q, r) /\ (q[k].st # "made" => RespAlike(q, r))
<1>1. Len(q) \in Nat
  BY LenProperties
<1>2. Len(r) = Len(q) /\ Len(r) >= Len(q)
  BY <1>1 DEF RespWritten
<1>3. \A i \in 1..Len(q) : q[i].st # "made" => r[i].st # "made"
  BY DEF RespWritten
<1>4. ASSUME q[k].st # "made", NEW i \in 1..Len(q) PROVE q[i].st = "made" <=> r[i].st = "made"
  BY <1>4 DEF RespWritten
<1> QED BY <1>2, <1>3, <1>4 DEF RespGrows, RespAlike, RespWritten

LEMMA RespSame ==
  ASSUME NEW q \in Seq(Response)
  PROVE  RespGrows(q, q) /\ RespAlike(q, q)
<1>1. Len(q) \in Nat
  BY LenProperties
<1> QED BY <1>1 DEF RespGrows, RespAlike, SameResponse

\* The head of a write callback.
LEMMA FirstWrite ==
  ASSUME TypeOK, Written, outq # <<>>
  PROVE  /\ outq[1].r \in 1..Len(resp) /\ resp[outq[1].r].st # "made" /\ outq[1].r \in Nat
         /\ 1 \in 1..Len(outq) /\ outq[1].part \in Nat
<1>1. outq \in Seq(OutWrite) /\ Len(outq) \in Nat \ {0} /\ 1 \in 1..Len(outq)
  BY Types, TailRange
<1>2. outq[1] \in OutWrite
  BY <1>1, ElementOfSeq
<1> QED BY <1>1, <1>2 DEF Written, OutWrite

\* A callback of a write lets the response go, or writes a chunk of it.
LEMMA WriteCallbackEffects ==
  ASSUME TypeOK, OnResponseWritten \/ OnChunkWritten
  PROVE  /\ outq # <<>> /\ UNCHANGED <<client, wire, parser, bgq, app>>
         /\ LET r == outq[1].r IN
            \/ Release(r, TRUE) \/ Release(r, resp[r].closeAfter)
            \/ \E i \in Nat : NextChunk(r, i)
            \/ outq' = Tail(outq) /\ UNCHANGED <<req, later, resp>>
<1>1. outq # <<>> /\ UNCHANGED <<client, wire, parser, bgq, app>>
  BY DEF OnResponseWritten, OnChunkWritten, WriteDone
<1>2. outq \in Seq(OutWrite) /\ outq[1].part + 1 \in Nat
  <2>1. outq \in Seq(OutWrite) /\ Len(outq) \in Nat \ {0} /\ 1 \in 1..Len(outq)
    BY <1>1, Types, TailRange
  <2>2. outq[1] \in OutWrite
    BY <2>1, ElementOfSeq
  <2> QED BY <2>1, <2>2 DEF OutWrite
<1>3. CASE OnResponseWritten
  BY <1>1, <1>3 DEF OnResponseWritten
<1>4. CASE OnChunkWritten
  BY <1>1, <1>2, <1>4 DEF OnChunkWritten
<1> QED BY <1>3, <1>4

\* The response that an outcome names.
LEMMA FirstReply ==
  ASSUME TypeOK, Written, bgq # <<>>, Head(bgq).op \in Outcome
  PROVE  /\ Head(bgq) \in Replies(bgq) /\ Head(bgq).r \in 0..Len(resp) /\ Head(bgq).k \in ReqNo
         /\ Head(bgq).r # 0 => Head(bgq).r \in 1..Len(resp)
         /\ Head(bgq).op = "bodyError" => Head(bgq).r \in 1..Len(resp)
<1>1. Head(bgq) = bgq[1] /\ 1 \in 1..Len(bgq) /\ Head(bgq) \in BgTask
  BY BgFront
<1>2. Head(bgq) \in Replies(bgq)
  BY <1>1 DEF Replies, TasksOf
<1>3. Len(resp) \in Nat
  BY Types, LenProperties
<1>4. Head(bgq).k \in ReqNo
  BY <1>1, TaskFields DEF Outcome
<1> QED BY <1>2, <1>3, <1>4 DEF Written

LEMMA UpgradeRequest ==
  ASSUME TypeOK, HandedOver, req.isUpgrade
  PROVE  parser.cur \in ReqNo /\ parser.cur \in 1..Len(client.shape)
<1>1. parser.cur # 0
  BY DEF HandedOver
<1>2. parser.cur \in 0..Len(client.shape) /\ Len(client.shape) \in Nat /\ Len(client.shape) <= MaxReq /\ MaxReq \in Nat
  BY ParserTypes, Types
<1> QED BY <1>1, <1>2 DEF ReqNo

\* What each step does to the responses.
LEMMA RespStep ==
  ASSUME TypeOK, HandedOver, Waits, Written, [Next]_vars
  PROVE  /\ RespGrows(resp, resp')
         /\ \/ RespAlike(resp, resp')
            \/ ParseHeadersComplete \/ UpgradeConnection \/ CallOnHeaders \/ CallOnBodyData
            \/ CallGetResponse \/ PromiseResolves
            \/ HeadersCompleteComplete \/ BodyError \/ MessageCompleteComplete
<1>0. resp \in Seq(Response) /\ RespGrows(resp, resp) /\ RespAlike(resp, resp) /\ app \in Application
  BY Types, RespSame
<1>1. CASE \/ \E s \in Shapes : ClientSend(s)
           \/ ClientSendWs \/ ClientLeaves \/ OnRead \/ OnReadError \/ ServerStops
           \/ ParseMessageBegin \/ ParseWaiting \/ ParseHeadersDone \/ ParseBody
           \/ ParseRefuses \/ KeepForLater \/ ParseDone \/ ScheduledClose \/ ScheduledWsRead
           \/ WriteOut \/ WriteFails \/ OnClosed
           \/ InitializeEnv \/ CallWsOpen \/ PassRequestBuffer \/ CallWsMessage \/ CallWsClose
           \/ UNCHANGED vars
  <2>1. resp' = resp
    BY <1>1, ZenonT(40) DEF ClientSend, ClientSendWs, ClientLeaves, OnRead, OnReadError, ServerStops,
                ParseMessageBegin, ParseWaiting, ParseHeadersDone, ParseBody, ParseRefuses,
                KeepForLater, ParseDone, ScheduledClose, ScheduledWsRead, WriteOut, WriteFails,
                OnClosed, InitializeEnv, CallWsOpen, PassRequestBuffer, CallWsMessage,
                CallWsClose, vars
  <2> QED BY <1>0, <2>1
<1>2. CASE OnResponseWritten \/ OnChunkWritten
  <2> DEFINE r == outq[1].r
  <2>1. r \in 1..Len(resp) /\ resp[r].st # "made"
    BY <1>2, FirstWrite, WriteCallbackEffects
  <2>2. \/ resp' = [resp EXCEPT ![r].st = "gone", ![r].closeAfter = TRUE]
        \/ resp' = [resp EXCEPT ![r].st = "gone", ![r].closeAfter = resp[r].closeAfter]
        \/ resp' = [resp EXCEPT ![r].st = "body"]
        \/ resp' = resp
    BY <1>2, WriteCallbackEffects DEF Release, NextChunk
  <2> HIDE DEF r
  <2>3. resp' = resp \/ RespWritten(resp, resp', r)
    <3> DEFINE close == resp[r].closeAfter
    <3>1. /\ RespWritten(resp, [resp EXCEPT ![r].st = "gone", ![r].closeAfter = TRUE], r)
          /\ RespWritten(resp, [resp EXCEPT ![r].st = "body"], r)
      BY <1>0, <2>1, RespUpdate
    <3>2. RespWritten(resp, [resp EXCEPT ![r].st = "gone", ![r].closeAfter = close], r)
      <4> HIDE DEF close
      <4> QED BY <1>0, <2>1, RespUpdate
    <3> QED BY <2>2, <3>1, <3>2, Zenon
  <2> QED BY <1>0, <2>1, <2>3, RespWrittenFacts
<1>3. ASSUME NEW e \in Response, resp' = Append(resp, e) PROVE RespGrows(resp, resp')
  BY <1>0, <1>3, RespAppend
<1>4. CASE ParseHeadersComplete
  <2>1. parser.cur \in ReqNo
    BY <1>4, ParserTypes DEF ParseHeadersComplete, Executing
  <2>2. resp' = resp \/ \E b \in Bodies : resp' = Append(resp, NewResponse(parser.cur, "final", b))
    BY <1>4 DEF ParseHeadersComplete
  <2> QED BY <1>0, <1>3, <1>4, <2>1, <2>2, NewResponseType, ConstantsAssumption
<1>5. CASE UpgradeConnection
  <2> DEFINE e == [NewResponse(parser.cur, "switch", 0) EXCEPT !.st = HeadState(req)]
  <2>1. resp' = resp \/ (resp' = Append(resp, e) /\ req.isUpgrade)
    BY <1>5 DEF UpgradeConnection
  <2>2. ASSUME req.isUpgrade PROVE e \in Response
    BY <2>2, UpgradeRequest, NewResponseType
  <2> HIDE DEF e
  <2> QED BY <1>0, <1>3, <1>5, <2>1, <2>2
<1>6. CASE CallOnHeaders \/ CallOnBodyData \/ CallGetResponse \/ PromiseResolves
  <2>1. resp' = resp \/ \E k \in ReqNo, b \in Nat : resp' = Append(resp, NewResponse(k, "final", b))
    <3>1. CASE PromiseResolves
      <4>1. \E k \in app.promised, b \in Bodies : resp' = Append(resp, NewResponse(k, "final", b))
        BY <3>1 DEF PromiseResolves, Respond
      <4>2. app.promised \subseteq ReqNo
        BY <1>0 DEF Application
      <4> QED BY <4>1, <4>2, ConstantsAssumption
    <3>2. CASE CallOnHeaders \/ CallOnBodyData \/ CallGetResponse
      <4>1. Head(later).k \in ReqNo
        BY <3>2, LaterFront, TaskFields DEF CallOnHeaders, CallOnBodyData, CallGetResponse, RunLater
      <4>2. resp' = resp \/ \E b \in Bodies \cup {1} : resp' = Append(resp, NewResponse(Head(later).k, "final", b))
        BY <3>2 DEF CallOnHeaders, CallOnBodyData, CallGetResponse, Respond
      <4> QED BY <4>1, <4>2, ConstantsAssumption
    <3> QED BY <1>6, <3>1, <3>2
  <2> QED BY <1>0, <1>3, <1>6, <2>1, NewResponseType
<1>7. CASE HeadersCompleteComplete \/ BodyError \/ MessageCompleteComplete
  <2> DEFINE r == Head(bgq).r
             e == [NewResponse(parser.cur, "continue", 0) EXCEPT !.st = HeadState(req)]
  <2>1. bgq # <<>> /\ Head(bgq).op \in Outcome
    BY <1>7 DEF HeadersCompleteComplete, BodyError, MessageCompleteComplete, Flush, Outcome
  <2>2. (r # 0 => r \in 1..Len(resp)) /\ (Head(bgq).op = "bodyError" => r \in 1..Len(resp))
    BY <2>1, FirstReply
  <2>3. HeadState(req) # "made"
    BY DEF HeadState
  <2>4. \/ \E close : resp' = [resp EXCEPT ![r].closeAfter = close, ![r].st = HeadState(req)] /\ r \in 1..Len(resp)
        \/ resp' = [resp EXCEPT ![r].st = "gone"] /\ r \in 1..Len(resp)
        \/ resp' = resp
        \/ resp' = Append(resp, e) /\ HeadersCompleteComplete
    <3>1. CASE HeadersCompleteComplete
      BY <2>2, <3>1, Zenon DEF HeadersCompleteComplete, WriteResponse
    <3>2. CASE BodyError
      <4>1. r \in 1..Len(resp)
        BY <2>2, <3>2 DEF BodyError, Flush
      <4> QED BY <3>2, <4>1, Zenon DEF BodyError, WriteResponse
    <3>3. CASE MessageCompleteComplete
      BY <2>2, <3>3, Zenon DEF MessageCompleteComplete, WriteResponse
    <3> QED BY <1>7, <3>1, <3>2, <3>3
  <2>5. ASSUME HeadersCompleteComplete PROVE e \in Response
    <3>1. Head(bgq) = bgq[1] /\ 1 \in 1..Len(bgq) /\ Head(bgq).op = "headersDone"
      BY <2>1, <2>5, BgFront DEF HeadersCompleteComplete, Flush
    <3>2. parser.st = "wait"
      BY <3>1 DEF Waits
    <3> QED BY <3>2, ParserTypes, NewResponseType
  <2> HIDE DEF r, e
  <2>6. CASE resp' = Append(resp, e) /\ HeadersCompleteComplete
    BY <1>3, <1>7, <2>5, <2>6
  <2>7. CASE RespWritten(resp, resp', r)
    BY <1>0, <1>7, <2>7, RespWrittenFacts
  <2>8. CASE \E close : resp' = [resp EXCEPT ![r].closeAfter = close, ![r].st = HeadState(req)] /\ r \in 1..Len(resp)
    <3>1. PICK close : resp' = [resp EXCEPT ![r].closeAfter = close, ![r].st = HeadState(req)] /\ r \in 1..Len(resp)
      BY <2>8
    <3>2. RespWritten(resp, [resp EXCEPT ![r].closeAfter = close, ![r].st = HeadState(req)], r)
      BY <1>0, <2>3, <3>1, RespUpdate
    <3> QED BY <2>7, <3>1, <3>2, Zenon
  <2>9. CASE resp' = [resp EXCEPT ![r].st = "gone"] /\ r \in 1..Len(resp)
    <3>1. RespWritten(resp, [resp EXCEPT ![r].st = "gone"], r)
      BY <1>0, <2>9, RespUpdate
    <3> QED BY <2>7, <2>9, <3>1, Zenon
  <2> QED BY <1>0, <1>7, <2>4, <2>6, <2>8, <2>9
<1> QED BY <1>1, <1>2, <1>4, <1>5, <1>6, <1>7
        DEF Next, ClientStep, Parse, FlushTask, WriteCallback, MainTask

\* The writes o, and the parts w that are out, are of responses in q that were written.
OutOK(o, q) == \A j \in 1..Len(o) : o[j].r \in 1..Len(q) /\ q[o[j].r].st # "made"
WireOK(w, q) == \A i \in 1..Len(w) : w[i][1] \in 1..Len(q) /\ q[w[i][1]].st # "made"
RepliesOK(b, q) == \A e \in Replies(b) : e.r \in 0..Len(q) /\ (e.op = "bodyError" => e.r # 0)

LEMMA OutGrows ==
  ASSUME NEW q \in Seq(Response), NEW r \in Seq(Response), RespGrows(q, r), NEW o, NEW w, NEW b
  PROVE  /\ OutOK(o, q) => OutOK(o, r)
         /\ WireOK(w, q) => WireOK(w, r)
         /\ RepliesOK(b, q) => RepliesOK(b, r)
<1>1. Len(q) \in Nat /\ Len(r) \in Nat /\ Len(r) >= Len(q)
      /\ \A i \in 1..Len(q) : q[i].st # "made" => r[i].st # "made"
  BY LenProperties DEF RespGrows
<1>2. (\A i \in 1..Len(q) : i \in 1..Len(r)) /\ (\A i \in 0..Len(q) : i \in 0..Len(r))
  BY <1>1
<1>3. OutOK(o, q) => OutOK(o, r)
  BY <1>1, <1>2 DEF OutOK
<1>4. WireOK(w, q) => WireOK(w, r)
  BY <1>1, <1>2 DEF WireOK
<1>5. RepliesOK(b, q) => RepliesOK(b, r)
  BY <1>2 DEF RepliesOK
<1> QED BY <1>3, <1>4, <1>5

LEMMA OutAppend ==
  ASSUME TypeOK, NEW q, OutOK(outq, q), NEW c, NEW r \in Nat, NEW i \in Nat,
         r \in 1..Len(q), q[r].st # "made"
  PROVE  OutOK(UvWrite(c, r, i), q)
<1> DEFINE e == Write(r, i)
<1>1. outq \in Seq(OutWrite) /\ e \in OutWrite /\ e.r = r
  BY Types DEF Write, OutWrite
<1> HIDE DEF e
<1>2. /\ Len(outq) \in Nat /\ Len(Append(outq, e)) = Len(outq) + 1
      /\ Append(outq, e)[Len(outq) + 1] = e /\ \A j \in 1..Len(outq) : Append(outq, e)[j] = outq[j]
  BY <1>1, LenProperties, AppendProperties
<1>3. \A j \in 1..(Len(outq) + 1) : j = Len(outq) + 1 \/ j \in 1..Len(outq)
  BY <1>2
<1>4. OutOK(Append(outq, e), q)
  BY <1>1, <1>2, <1>3 DEF OutOK
<1> QED BY <1>4 DEF UvWrite, e

LEMMA OutTail ==
  ASSUME NEW o \in Seq(OutWrite), o # <<>>, NEW q, OutOK(o, q)
  PROVE  OutOK(Tail(o), q)
<1>1. Len(o) \in Nat /\ Len(Tail(o)) = Len(o) - 1 /\ \A i \in 1..Len(Tail(o)) : Tail(o)[i] = o[i + 1]
  BY TailRange
<1>2. \A i \in 1..Len(Tail(o)) : i + 1 \in 1..Len(o)
  BY <1>1
<1> QED BY <1>1, <1>2 DEF OutOK

\* What each step does to the writes.
LEMMA OutStep ==
  ASSUME TypeOK, HandedOver, Waits, Written, [Next]_vars, TypeOK'
  PROVE  OutOK(outq', resp')
<1>0. /\ resp \in Seq(Response) /\ resp' \in Seq(Response) /\ outq \in Seq(OutWrite)
      /\ RespGrows(resp, resp') /\ OutOK(outq, resp)
  BY Types, RespStep DEF Written, OutOK, TypeOK
<1>1. OutOK(outq, resp')
  BY <1>0, OutGrows
<1>2. CASE outq' = outq
  BY <1>1, <1>2
<1>3. CASE HeadersCompleteComplete \/ BodyError \/ MessageCompleteComplete
  <2> DEFINE r == Head(bgq).r
             n == Len(resp) + 1
  <2>1. bgq # <<>> /\ Head(bgq).op \in Outcome
    BY <1>3 DEF HeadersCompleteComplete, BodyError, MessageCompleteComplete, Flush, Outcome
  <2>2. (r # 0 => r \in 1..Len(resp)) /\ (Head(bgq).op = "bodyError" => r \in 1..Len(resp))
    BY <2>1, FirstReply
  <2>3. HeadState(req) # "made" /\ Len(resp) \in Nat
    BY <1>0, LenProperties DEF HeadState
  <2>4. \/ outq' = outq
        \/ /\ r \in 1..Len(resp) /\ outq' = UvWrite(req, r, 0)
           /\ \E close : resp' = [resp EXCEPT ![r].closeAfter = close, ![r].st = HeadState(req)]
        \/ /\ outq' = UvWrite(req, n, 0)
           /\ resp' = Append(resp, [NewResponse(parser.cur, "continue", 0) EXCEPT !.st = HeadState(req)])
           /\ HeadersCompleteComplete
    <3>1. CASE HeadersCompleteComplete
      BY <2>2, <3>1, Zenon DEF HeadersCompleteComplete, WriteResponse
    <3>2. CASE BodyError
      <4>1. r \in 1..Len(resp)
        BY <2>2, <3>2 DEF BodyError, Flush
      <4> QED BY <3>2, <4>1, Zenon DEF BodyError, WriteResponse
    <3>3. CASE MessageCompleteComplete
      BY <2>2, <3>3, Zenon DEF MessageCompleteComplete, WriteResponse
    <3> QED BY <1>3, <3>1, <3>2, <3>3
  <2>5. CASE /\ r \in 1..Len(resp) /\ outq' = UvWrite(req, r, 0)
             /\ \E close : resp' = [resp EXCEPT ![r].closeAfter = close, ![r].st = HeadState(req)]
    <3> HIDE DEF r
    <3>1. PICK close : resp' = [resp EXCEPT ![r].closeAfter = close, ![r].st = HeadState(req)]
      BY <2>5
    <3>2. RespWritten(resp, [resp EXCEPT ![r].closeAfter = close, ![r].st = HeadState(req)], r)
      BY <1>0, <2>3, <2>5, RespUpdate
    <3>3. r \in 1..Len(resp') /\ resp'[r].st # "made" /\ r \in Nat
      BY <2>3, <2>5, <3>1, <3>2 DEF RespWritten
    <3> QED BY <1>1, <2>5, <3>3, OutAppend
  <2>6. CASE /\ outq' = UvWrite(req, n, 0)
             /\ resp' = Append(resp, [NewResponse(parser.cur, "continue", 0) EXCEPT !.st = HeadState(req)])
             /\ HeadersCompleteComplete
    <3> DEFINE e == [NewResponse(parser.cur, "continue", 0) EXCEPT !.st = HeadState(req)]
    <3>1. e.st # "made"
      BY <2>3 DEF NewResponse
    <3>2. e \in Response
      <4>1. Head(bgq) = bgq[1] /\ 1 \in 1..Len(bgq) /\ Head(bgq).op = "headersDone"
        BY <2>1, <2>6, BgFront DEF HeadersCompleteComplete, Flush
      <4>2. parser.st = "wait"
        BY <4>1 DEF Waits
      <4> QED BY <4>2, ParserTypes, NewResponseType
    <3> HIDE DEF e
    <3>3. n \in Nat /\ n \in 1..Len(resp') /\ resp'[n] = e
      <4>1. Len(Append(resp, e)) = Len(resp) + 1 /\ Append(resp, e)[Len(resp) + 1] = e
        BY <1>0, <3>2, RespAppend
      <4> QED BY <2>3, <2>6, <4>1 DEF e
    <3> HIDE DEF n
    <3> QED BY <1>1, <2>6, <3>1, <3>3, OutAppend
  <2> QED BY <1>2, <2>4, <2>5, <2>6
<1>4. CASE UpgradeConnection
  <2> DEFINE e == [NewResponse(parser.cur, "switch", 0) EXCEPT !.st = HeadState(req)]
             n == Len(resp) + 1
  <2>1. outq' = outq \/ (outq' = UvWrite(req, n, 0) /\ resp' = Append(resp, e) /\ req.isUpgrade)
    BY <1>4 DEF UpgradeConnection
  <2>2. e.st # "made"
    BY DEF NewResponse, HeadState
  <2>3. CASE outq' = UvWrite(req, n, 0) /\ resp' = Append(resp, e) /\ req.isUpgrade
    <3>1. e \in Response
      BY <2>3, UpgradeRequest, NewResponseType
    <3> HIDE DEF e
    <3>2. n \in Nat /\ n \in 1..Len(resp') /\ resp'[n] = e
      <4>1. Len(resp) \in Nat /\ Len(Append(resp, e)) = Len(resp) + 1 /\ Append(resp, e)[Len(resp) + 1] = e
        BY <1>0, <3>1, RespAppend
      <4> QED BY <2>3, <4>1
    <3> HIDE DEF n
    <3> QED BY <1>1, <2>2, <2>3, <3>2, OutAppend
  <2> QED BY <1>2, <2>1, <2>3
<1>5. CASE OnResponseWritten \/ OnChunkWritten
  <2> DEFINE r == outq[1].r
  <2>1. /\ r \in 1..Len(resp) /\ resp[r].st # "made" /\ outq # <<>> /\ r \in Nat
        /\ outq' = Tail(outq) \/ \E i \in Nat : outq' = Tail(UvWrite(req, r, i))
    BY <1>5, FirstWrite, WriteCallbackEffects DEF Release, NextChunk
  <2>2. r \in 1..Len(resp') /\ resp'[r].st # "made"
    <3>1. Len(resp) \in Nat /\ Len(resp') \in Nat
      BY <1>0, LenProperties
    <3> QED BY <1>0, <2>1, <3>1 DEF RespGrows
  <2> HIDE DEF r
  <2>3. ASSUME NEW i \in Nat PROVE OutOK(Tail(UvWrite(req, r, i)), resp')
    <3>1. OutOK(UvWrite(req, r, i), resp')
      BY <1>1, <2>1, <2>2, <2>3, OutAppend
    <3>2. UvWrite(req, r, i) \in Seq(OutWrite) /\ UvWrite(req, r, i) # <<>>
      BY <2>1, <2>3, UvWriteType
    <3> QED BY <3>1, <3>2, OutTail
  <2> QED BY <1>0, <1>1, <2>1, <2>3, OutTail
<1>6. CASE WriteOut \/ WriteFails
  <2>1. \E st \in {"sent", "failed"} : outq' = [outq EXCEPT ![Oldest].st = st]
    BY <1>6 DEF WriteOut, WriteFails
  <2>2. PICK st \in {"sent", "failed"} : outq' = [outq EXCEPT ![Oldest].st = st]
    BY <2>1
  <2>3. Oldest \in DOMAIN outq
    BY <1>6, OldestType DEF WriteOut, WriteFails
  <2> DEFINE m == Oldest
  <2> HIDE DEF m
  <2>4. Len(outq) \in Nat /\ DOMAIN outq = 1..Len(outq) /\ \A j \in 1..Len(outq) : outq[j] \in OutWrite
    BY <1>0, LenProperties, ElementOfSeq
  <2>5. outq' = [outq EXCEPT ![m] = [outq[m] EXCEPT !.st = st]] /\ m \in 1..Len(outq)
    BY <2>2, <2>3, <2>4 DEF m
  <2>6. \A j \in 1..Len(outq) : outq'[j].r = outq[j].r
    BY <2>4, <2>5 DEF OutWrite
  <2>7. Len(outq') = Len(outq)
    <3>1. outq' \in Seq(OutWrite) /\ DOMAIN outq' = 1..Len(outq)
      BY <2>4, <2>5 DEF TypeOK, OutWrite
    <3> QED BY <2>4, <3>1, LenProperties
  <2> QED BY <1>1, <2>6, <2>7 DEF OutOK
<1>7. CASE \/ \E s \in Shapes : ClientSend(s)
           \/ ClientSendWs \/ ClientLeaves \/ OnRead \/ OnReadError \/ ServerStops
           \/ ParseMessageBegin \/ ParseHeadersComplete \/ ParseWaiting \/ ParseHeadersDone \/ ParseBody
           \/ ParseRefuses \/ KeepForLater \/ ParseDone \/ ScheduledClose \/ ScheduledWsRead
           \/ OnClosed \/ MainTask \/ PromiseResolves \/ UNCHANGED vars
  <2>1. outq' = outq
    BY <1>7, ZenonT(40) DEF ClientSend, ClientSendWs, ClientLeaves, OnRead, OnReadError, ServerStops,
                ParseMessageBegin, ParseHeadersComplete, ParseWaiting, ParseHeadersDone, ParseBody, ParseRefuses,
                KeepForLater, ParseDone, ScheduledClose, ScheduledWsRead,
                OnClosed, InitializeEnv, CallWsOpen, PassRequestBuffer, CallWsMessage,
                CallWsClose, CallOnHeaders, CallOnBodyData, CallGetResponse, MainTask, PromiseResolves, vars
  <2> QED BY <1>2, <2>1
<1> QED BY <1>3, <1>4, <1>5, <1>6, <1>7
        DEF Next, ClientStep, Parse, FlushTask, WriteCallback
\* An outcome is handed back with the response that it names.
LEMMA RepliesOKAppend ==
  ASSUME TypeOK, NEW n \in Nat, NEW q, n = Len(q), RepliesOK(bgq, q), NEW e \in BgTask,
         e.op \in Outcome => e.r \in 0..n /\ (e.op = "bodyError" => e.r # 0)
  PROVE  RepliesOK(Append(bgq, e), q)
<1>1. bgq \in Seq(BgTask)
  BY Types
<1>2. TasksOf(Append(bgq, e), Outcome) = TasksOf(bgq, Outcome) \cup (IF e.op \in Outcome THEN {e} ELSE {})
  BY <1>1, TasksAppend
<1> QED BY <1>2 DEF RepliesOK, Replies

LEMMA RepliesOKStep ==
  ASSUME TypeOK, HandedOver, Waits, Written, [Next]_vars, TypeOK'
  PROVE  RepliesOK(bgq', resp')
<1>0. /\ resp \in Seq(Response) /\ resp' \in Seq(Response) /\ RespGrows(resp, resp')
      /\ RepliesOK(bgq, resp) /\ bgq \in Seq(BgTask) /\ Len(resp) \in Nat /\ Len(resp') \in Nat
      /\ app \in Application
  BY Types, RespStep, LenProperties DEF Written, RepliesOK, TypeOK
<1>1. RepliesOK(bgq, resp')
  BY <1>0, OutGrows
<1>2. CASE SameReplies(bgq, bgq')
  BY <1>1, <1>2 DEF SameReplies, RepliesOK
<1>3. CASE HeadersCompleteComplete \/ BodyError \/ MessageCompleteComplete
  <2>1. bgq # <<>> /\ bgq' = Tail(bgq)
    BY <1>3 DEF HeadersCompleteComplete, BodyError, MessageCompleteComplete, Flush
  <2>2. TasksOf(bgq, Outcome) = TasksOf(bgq', Outcome) \cup (IF Head(bgq).op \in Outcome THEN {Head(bgq)} ELSE {})
    BY <1>0, <2>1, TasksTail
  <2> QED BY <1>1, <2>2 DEF RepliesOK, Replies
<1>4. CASE ParseHeadersComplete \/ CallOnHeaders \/ CallOnBodyData \/ CallGetResponse \/ PromiseResolves
  <2>1. \/ bgq' = bgq
        \/ \E k \in ReqNo, op \in {"headersDone", "messageDone"} :
             bgq' = Append(bgq, [op |-> op, k |-> k, r |-> 0])
        \/ \E k \in ReqNo, op \in Outcome, e \in Response :
             bgq' = Append(bgq, [op |-> op, k |-> k, r |-> Len(resp) + 1]) /\ resp' = Append(resp, e)
    <3>1. ASSUME NEW k \in ReqNo, NEW op \in Outcome, NEW b \in Nat, Respond(k, op, "final", b)
          PROVE  \E e \in Response : bgq' = Append(bgq, [op |-> op, k |-> k, r |-> Len(resp) + 1]) /\ resp' = Append(resp, e)
      BY <3>1, NewResponseType DEF Respond
    <3>2. CASE ParseHeadersComplete
      <4>1. parser.cur \in ReqNo
        BY <3>2, ParserTypes DEF ParseHeadersComplete, Executing
      <4>2. \/ bgq' = bgq
            \/ /\ \E b \in Bodies : resp' = Append(resp, NewResponse(parser.cur, "final", b))
               /\ bgq' = Append(bgq, [op |-> "headersDone", k |-> parser.cur, r |-> Len(resp) + 1])
        BY <3>2 DEF ParseHeadersComplete
      <4> QED BY <4>1, <4>2, NewResponseType, ConstantsAssumption DEF Outcome
    <3>3. CASE PromiseResolves
      <4>1. PICK k \in app.promised, b \in Bodies : Respond(k, "messageDone", "final", b)
        BY <3>3 DEF PromiseResolves
      <4>2. k \in ReqNo /\ b \in Nat /\ "messageDone" \in Outcome
        BY <1>0, ConstantsAssumption DEF Application, Outcome
      <4> QED BY <3>1, <4>1, <4>2
    <3>4. CASE CallOnHeaders \/ CallOnBodyData \/ CallGetResponse
      <4>1. Head(later).k \in ReqNo
        BY <3>4, LaterFront, TaskFields DEF CallOnHeaders, CallOnBodyData, CallGetResponse, RunLater
      <4>2. \/ bgq' = bgq
            \/ \E op \in {"headersDone", "messageDone"} : bgq' = Append(bgq, [op |-> op, k |-> Head(later).k, r |-> 0])
            \/ \E op \in Outcome, b \in Bodies \cup {1} : Respond(Head(later).k, op, "final", b)
        <5>1. CASE CallOnHeaders
          BY <5>1, Zenon DEF CallOnHeaders, Outcome
        <5>2. CASE CallOnBodyData
          BY <5>2, Zenon DEF CallOnBodyData, Outcome
        <5>3. CASE CallGetResponse
          BY <5>3, Zenon DEF CallGetResponse, Outcome
        <5> QED BY <3>4, <5>1, <5>2, <5>3
      <4>3. Bodies \cup {1} \subseteq Nat
        BY ConstantsAssumption
      <4> QED BY <3>1, <4>1, <4>2, <4>3
    <3> QED BY <1>4, <3>2, <3>3, <3>4
  <2>2. CASE \E k \in ReqNo, op \in {"headersDone", "messageDone"} :
             bgq' = Append(bgq, [op |-> op, k |-> k, r |-> 0])
    <3>1. PICK k \in ReqNo, op \in {"headersDone", "messageDone"} :
             bgq' = Append(bgq, [op |-> op, k |-> k, r |-> 0])
      BY <2>2
    <3> DEFINE e == [op |-> op, k |-> k, r |-> 0]
    <3>2. e \in BgTask /\ e.op # "bodyError" /\ e.r = 0 /\ 0 \in 0..Len(resp')
      BY <1>0 DEF BgTask
    <3> HIDE DEF e
    <3> QED BY <1>0, <1>1, <3>1, <3>2, RepliesOKAppend DEF e
  <2>3. CASE \E k \in ReqNo, op \in Outcome, e \in Response :
             bgq' = Append(bgq, [op |-> op, k |-> k, r |-> Len(resp) + 1]) /\ resp' = Append(resp, e)
    <3>1. PICK k \in ReqNo, op \in Outcome, x \in Response :
             bgq' = Append(bgq, [op |-> op, k |-> k, r |-> Len(resp) + 1]) /\ resp' = Append(resp, x)
      BY <2>3
    <3> DEFINE e == [op |-> op, k |-> k, r |-> Len(resp) + 1]
    <3>2. e \in BgTask /\ e.r = Len(resp) + 1
      BY <1>0 DEF BgTask, Outcome
    <3>3. Len(resp') = Len(resp) + 1
      BY <1>0, <3>1, RespAppend
    <3>4. e.r \in 0..Len(resp') /\ e.r # 0
      BY <1>0, <3>2, <3>3
    <3> HIDE DEF e
    <3> QED BY <1>0, <1>1, <3>1, <3>2, <3>4, RepliesOKAppend DEF e
  <2> QED BY <1>1, <2>1, <2>2, <2>3
<1> QED BY <1>2, <1>3, <1>4, RepliesStep

\* What reached the client stays there.
LEMMA WireStep ==
  ASSUME TypeOK, HandedOver, Waits, Written, [Next]_vars, TypeOK'
  PROVE  WireOK(wire', resp') /\ OnWire \subseteq OnWire'
<1>0. /\ resp \in Seq(Response) /\ resp' \in Seq(Response) /\ RespGrows(resp, resp')
      /\ WireOK(wire, resp) /\ wire \in Seq(Nat \X Nat)
  BY Types, RespStep DEF Written, WireOK, TypeOK
<1>1. WireOK(wire, resp')
  BY <1>0, OutGrows
<1>2. CASE wire' = wire
  BY <1>1, <1>2 DEF OnWire
<1>3. CASE WriteOut
  <2> DEFINE m == Oldest
             e == <<outq[m].r, outq[m].part>>
  <2>1. m \in DOMAIN outq
    BY <1>3, OldestType DEF WriteOut
  <2>2. wire' = Append(wire, e) /\ resp' = resp
    BY <1>3 DEF WriteOut
  <2> HIDE DEF m
  <2>3. outq \in Seq(OutWrite) /\ m \in 1..Len(outq) /\ outq[m] \in OutWrite
    BY <2>1, Types, LenProperties, ElementOfSeq
  <2>4. e \in Nat \X Nat /\ e[1] \in 1..Len(resp') /\ resp'[e[1]].st # "made"
    BY <2>2, <2>3 DEF OutWrite, Written
  <2> HIDE DEF e
  <2>5. /\ Len(wire) \in Nat /\ Len(wire') = Len(wire) + 1 /\ wire'[Len(wire) + 1] = e
        /\ \A i \in 1..Len(wire) : wire'[i] = wire[i]
        /\ DOMAIN wire = 1..Len(wire) /\ DOMAIN wire' = 1..Len(wire')
    BY <1>0, <2>2, <2>4, LenProperties, AppendProperties
  <2>6. \A j \in 1..(Len(wire) + 1) : j = Len(wire) + 1 \/ j \in 1..Len(wire)
    BY <2>5
  <2>7. \A j \in 1..Len(wire) : j \in 1..(Len(wire) + 1)
    BY <2>5
  <2>8. WireOK(wire', resp')
    BY <1>1, <2>4, <2>5, <2>6 DEF WireOK
  <2>9. OnWire \subseteq OnWire'
    BY <2>5, <2>7 DEF OnWire
  <2> QED BY <2>8, <2>9
<1>4. CASE \/ ClientStep \/ OnRead \/ OnReadError \/ ServerStops
           \/ Parse \/ FlushTask
           \/ WriteFails \/ WriteCallback \/ OnClosed \/ MainTask \/ PromiseResolves \/ UNCHANGED vars
  <2>1. wire' = wire
    <3>1. CASE ClientStep \/ OnRead \/ OnReadError \/ ServerStops \/ WriteFails \/ WriteCallback \/ OnClosed
               \/ PromiseResolves \/ UNCHANGED vars
      BY <3>1, ZenonT(40) DEF ClientStep, ClientSend, ClientSendWs, ClientLeaves, OnRead, OnReadError,
             ServerStops, WriteFails, WriteCallback, OnResponseWritten, OnChunkWritten, OnClosed, PromiseResolves, vars
    <3>2. CASE Parse \/ FlushTask
      BY <3>2, ZenonT(40) DEF Parse, FlushTask, ParseMessageBegin, ParseHeadersComplete, ParseWaiting,
             ParseHeadersDone, ParseBody, ParseRefuses, KeepForLater, UpgradeConnection, ParseDone,
             HeadersCompleteComplete, BodyError, MessageCompleteComplete, ScheduledClose, ScheduledWsRead
    <3>3. CASE MainTask
      BY <3>3, ZenonT(40) DEF MainTask, InitializeEnv, CallOnHeaders, CallOnBodyData, CallGetResponse,
             CallWsOpen, PassRequestBuffer, CallWsMessage, CallWsClose
    <3> QED BY <1>4, <3>1, <3>2, <3>3
  <2> QED BY <1>2, <2>1
<1> QED BY <1>3, <1>4 DEF Next

LEMMA WrittenStep ==
  ASSUME TypeOK, HandedOver, Waits, Written, [Next]_vars, TypeOK'
  PROVE  Written'
<1>1. OutOK(outq', resp') /\ WireOK(wire', resp') /\ RepliesOK(bgq', resp')
  BY OutStep, WireStep, RepliesOKStep
<1> QED BY <1>1 DEF Written, OutOK, WireOK, RepliesOK

\* Request k has its answer in the responses q, all of it on the wire w.
AnsweredBy(q, w, k) == \E r \in 1..Len(q) : /\ q[r].req = k /\ q[r].kind = "final"
                                           /\ {<<r, i>> : i \in 0..q[r].body} \subseteq w

\* An answered request stays answered.
LEMMA AnsweredStep ==
  ASSUME TypeOK, HandedOver, Waits, Written, [Next]_vars, TypeOK'
  PROVE  /\ \A k \in Nat : Answered(k) => AnsweredBy(resp', OnWire', k)
         /\ \A k \in Nat : Answered(k) <=> AnsweredBy(resp, OnWire, k)
<1>1. DOMAIN resp = 1..Len(resp) /\ Len(resp) \in Nat /\ Len(resp') \in Nat
  BY Types, LenProperties DEF TypeOK
<1>2. RespGrows(resp, resp') /\ OnWire \subseteq OnWire'
  BY RespStep, WireStep
<1>3. \A k \in Nat : Answered(k) <=> AnsweredBy(resp, OnWire, k)
  BY <1>1 DEF Answered, AnsweredBy, Parts
<1>4. ASSUME NEW k \in Nat, AnsweredBy(resp, OnWire, k) PROVE AnsweredBy(resp', OnWire', k)
  <2>1. PICK r \in 1..Len(resp) : /\ resp[r].req = k /\ resp[r].kind = "final"
                                  /\ {<<r, i>> : i \in 0..resp[r].body} \subseteq OnWire
    BY <1>4 DEF AnsweredBy
  <2>2. r \in 1..Len(resp') /\ resp'[r].req = k /\ resp'[r].kind = "final" /\ resp'[r].body = resp[r].body
    BY <1>1, <1>2, <2>1 DEF RespGrows, SameResponse
  <2> QED BY <1>2, <2>1, <2>2 DEF AnsweredBy
<1> QED BY <1>3, <1>4

-------------------------------------------------------------------------------
(* The stream. *)

Prefix(u, s) == Len(u) \in 0..Len(s) /\ \A i \in 1..Len(u) : u[i] = s[i]

\* The stream stays as it is, or nothing more comes.
StreamCut == Prefix(Stream', Stream) /\ (Alive' => Alive /\ Stream' = Stream)

\* The first token is taken from it.
StreamTail == /\ Stream # <<>> /\ Stream[1] = Head(parser.data)
              /\ Prefix(Stream', Tail(Stream)) /\ (Alive' => Alive /\ Stream' = Tail(Stream))

LEMMA CutConcat ==
  ASSUME NEW a \in Bytes, NEW n \in Bytes, NEW v \in BOOLEAN, NEW w \in BOOLEAN, w => v
  PROVE  Prefix(a \o (IF w THEN n ELSE <<>>), a \o (IF v THEN n ELSE <<>>))
<1>0. <<>> \in Bytes /\ a \o <<>> = a
  BY EmptySeq, ConcatEmptySeq DEF Bytes
<1>1. /\ Len(a) \in Nat /\ Len(n) \in Nat /\ Len(a \o n) = Len(a) + Len(n)
      /\ \A i \in 1..Len(a) : (a \o n)[i] = a[i]
  BY ConcatTypes DEF Bytes
<1> DEFINE s == a \o n
<1> HIDE DEF s
<1>2. Len(a) \in 0..Len(s) /\ Len(s) \in 0..Len(s) /\ Len(a) \in 0..Len(a)
  BY <1>1 DEF s
<1>3. Prefix(a, a) /\ Prefix(s, s) /\ Prefix(a, s)
  BY <1>1, <1>2 DEF Prefix, s
<1> QED BY <1>0, <1>3 DEF s

LEMMA QuietStream ==
  ASSUME TypeOK, req'.requestBuffer \o parser'.data = req.requestBuffer \o parser.data,
         client'.net = client.net, Alive' => Alive
  PROVE  StreamCut
<1> DEFINE a == req.requestBuffer \o parser.data
           n == client.net
           v == Alive
           w == Alive'
<1>1. a \in Bytes /\ n \in Bytes /\ v \in BOOLEAN /\ w \in BOOLEAN /\ (w => v)
  BY StreamTypes DEF Alive
<1>2. Stream = a \o (IF v THEN n ELSE <<>>) /\ Stream' = a \o (IF w THEN n ELSE <<>>)
  BY DEF Stream
<1> HIDE DEF a, n, v, w
<1>3. Prefix(Stream', Stream)
  BY <1>1, <1>2, CutConcat
<1>4. ASSUME w PROVE v /\ Stream' = Stream
  BY <1>1, <1>2, <1>4
<1> QED BY <1>3, <1>4 DEF StreamCut, v, w

LEMMA SameStream ==
  ASSUME TypeOK, Stream' = Stream, Alive' => Alive
  PROVE  StreamCut
<1>1. Len(Stream) \in Nat
  BY StreamTypes, LenProperties DEF Bytes
<1>2. Len(Stream) \in 0..Len(Stream)
  BY <1>1
<1> QED BY <1>2 DEF StreamCut, Prefix

LEMMA NoStream ==
  ASSUME TypeOK, req'.requestBuffer = <<>>, parser'.data = <<>>, ~Alive'
  PROVE  StreamCut
<1>1. Stream' = (<<>> \o <<>>) \o <<>>
  BY DEF Stream
<1>2. <<>> \o <<>> = <<>>
  BY ConcatEmptySeq, EmptySeq
<1>3. Stream' = <<>> /\ Len(Stream') = 0
  BY <1>1, <1>2, EmptySeq
<1>4. Len(Stream) \in Nat
  BY StreamTypes, LenProperties DEF Bytes
<1> QED BY <1>3, <1>4 DEF StreamCut, Prefix

LEMMA TailStream ==
  ASSUME TypeOK, parser.data # <<>>, req.requestBuffer = <<>>, req'.requestBuffer = <<>>,
         parser'.data = Tail(parser.data), client'.net = client.net, Alive' => Alive
  PROVE  StreamTail
<1> DEFINE a == parser.data
           n == client.net
           v == Alive
           w == Alive'
           t == Tail(a)
           b == IF v THEN n ELSE <<>>
           c == IF w THEN n ELSE <<>>
<1>1. a \in Bytes /\ n \in Bytes /\ v \in BOOLEAN /\ w \in BOOLEAN /\ (w => v) /\ b \in Bytes
  BY StreamTypes DEF Alive
<1>2. <<>> \o a = a /\ <<>> \o t = t /\ t \in Bytes /\ Head(a) = a[1] /\ a # <<>>
  <2>1. t \in Bytes /\ Head(a) = a[1]
    BY <1>1, TailRange DEF Bytes
  <2> HIDE DEF a, t
  <2>2. <<>> \o a = a /\ <<>> \o t = t
    BY <1>1, <2>1, ConcatEmptySeq DEF Bytes
  <2> QED BY <2>1, <2>2 DEF a
<1>3. Stream = a \o b /\ Stream' = t \o c
  BY <1>2 DEF Stream
<1> HIDE DEF a, n, v, w
<1>4. Tail(a \o b) = t \o b /\ a \o b # <<>> /\ (a \o b)[1] = a[1]
  <2> HIDE DEF b
  <2> QED BY <1>1, <1>2, TailOfConcat
<1>5. Prefix(t \o c, t \o b)
  <2> HIDE DEF t
  <2> QED BY <1>1, <1>2, CutConcat
<1>6. ASSUME w PROVE v /\ t \o c = t \o b
  BY <1>1, <1>6
<1>7. Stream # <<>> /\ Stream[1] = Head(a) /\ Tail(Stream) = t \o b /\ Stream' = t \o c
  <2> HIDE DEF b, c, t
  <2> QED BY <1>2, <1>3, <1>4
<1> QED BY <1>5, <1>6, <1>7 DEF StreamTail, a, v, w

\* The bytes being parsed are in the stream.
LEMMA DataInStream ==
  ASSUME TypeOK, NEW i \in 1..Len(parser.data)
  PROVE  \E j \in 1..Len(Stream) : Stream[j] = parser.data[i]
<1> DEFINE a == req.requestBuffer
           d == parser.data
           s == a \o d
           b == IF Alive THEN client.net ELSE <<>>
<1>1. a \in Bytes /\ d \in Bytes /\ b \in Bytes /\ s \in Bytes /\ Stream = s \o b
  BY StreamTypes DEF Stream
<1> HIDE DEF a, b
<1>2. Len(a) \in Nat /\ Len(d) \in Nat /\ Len(s) = Len(a) + Len(d) /\ \A j \in 1..Len(d) : s[Len(a) + j] = d[j]
  BY <1>1, ConcatTypes DEF Bytes
<1> HIDE DEF s, d
<1>3. Len(b) \in Nat /\ Len(s \o b) = Len(s) + Len(b) /\ \A j \in 1..Len(s) : (s \o b)[j] = s[j]
  BY <1>1, ConcatTypes DEF Bytes
<1>4. i \in 1..Len(d)
  BY DEF d
<1>5. Len(a) + i \in 1..Len(s)
  BY <1>2, <1>4
<1>6. Len(a) + i \in 1..Len(Stream)
  BY <1>1, <1>2, <1>3, <1>5
<1>7. Stream[Len(a) + i] = d[i]
  BY <1>1, <1>2, <1>3, <1>4, <1>5
<1> QED BY <1>6, <1>7 DEF d

\* Steps that leave the bytes and the parser alone.
BytesKept == /\ parser'.data = parser.data /\ client'.net = client.net
             /\ req'.requestBuffer = req.requestBuffer

LEMMA BytesStep ==
  ASSUME TypeOK, HandedOver,
         \/ ClientLeaves \/ OnReadError \/ ServerStops
         \/ BodyError \/ MessageCompleteComplete \/ ScheduledClose \/ ScheduledWsRead
         \/ WriteOut \/ WriteFails \/ OnResponseWritten \/ OnChunkWritten \/ OnClosed
         \/ InitializeEnv \/ CallOnHeaders \/ CallOnBodyData \/ CallGetResponse
         \/ CallWsOpen \/ CallWsMessage \/ CallWsClose
         \/ ParseWaiting \/ ParseRefuses \/ ParseHeadersComplete
         \/ PromiseResolves \/ UNCHANGED vars
  PROVE  /\ BytesKept /\ req'.protocol = req.protocol
         /\ Alive' => Alive
         /\ Alive' = Alive \/ parser.data = <<>>
<1>0. parser \in Parser /\ client \in Client /\ req \in Request
  BY Types
<1>1. parser'.data = parser.data /\ client'.net = client.net
  <2>1. CASE BodyError \/ ParseWaiting \/ ParseRefuses \/ ParseHeadersComplete
    BY <1>0, <2>1 DEF BodyError, ParseWaiting, ParseRefuses, ParseHeadersComplete, Parser
  <2>2. CASE ClientLeaves \/ WriteFails
    BY <1>0, <2>2 DEF ClientLeaves, WriteFails, Client
  <2>3. CASE \/ OnReadError \/ ServerStops
             \/ MessageCompleteComplete \/ ScheduledClose \/ ScheduledWsRead
             \/ WriteOut \/ OnResponseWritten \/ OnChunkWritten \/ OnClosed
             \/ InitializeEnv \/ CallOnHeaders \/ CallOnBodyData \/ CallGetResponse
             \/ CallWsOpen \/ CallWsMessage \/ CallWsClose
             \/ PromiseResolves \/ UNCHANGED vars
    <3>1. parser' = parser /\ client' = client
      BY <2>3, ZenonT(40) DEF OnReadError, ServerStops, MessageCompleteComplete, ScheduledClose,
                  ScheduledWsRead, WriteOut, OnResponseWritten, OnChunkWritten, OnClosed,
                  InitializeEnv, CallOnHeaders, CallOnBodyData, CallGetResponse,
                  CallWsOpen, CallWsMessage, CallWsClose, PromiseResolves, vars
    <3> QED BY <3>1, Zenon
  <2> QED BY <2>1, <2>2, <2>3
<1>2. /\ req'.protocol = req.protocol /\ req'.requestBuffer = req.requestBuffer
      /\ Alive' => Alive
  <2>1. CASE ReqKept(req, req')
    BY <2>1, KeptAlive
  <2>2. CASE OnClosed \/ ParseHeadersComplete
    BY <2>2, ReqOther DEF Alive
  <2>3. ReqKept(req, req') \/ OnClosed \/ ParseHeadersComplete
    <3>1. CASE OnClosed \/ ParseHeadersComplete
      BY <3>1
    <3>2. CASE \/ ClientLeaves \/ ScheduledWsRead \/ WriteOut \/ WriteFails \/ InitializeEnv
               \/ CallWsOpen \/ CallWsMessage \/ CallWsClose \/ ParseWaiting \/ ParseRefuses
               \/ UNCHANGED vars
      <4>1. req' = req
        BY <3>2, Zenon DEF ClientLeaves, ScheduledWsRead, WriteOut, WriteFails, InitializeEnv,
                  CallWsOpen, CallWsMessage, CallWsClose, ParseWaiting, ParseRefuses, vars
      <4> QED BY <1>0, <4>1, ReqEffects
    <3>3. CASE OnReadError \/ ServerStops \/ ScheduledClose \/ OnResponseWritten \/ OnChunkWritten
      <4>1. req' = req \/ req' = Closed(req)
        BY <3>3 DEF OnReadError, ServerStops, ScheduledClose, OnResponseWritten,
                    OnChunkWritten, Release, NextChunk
      <4> QED BY <1>0, <4>1, ReqEffects
    <3>4. CASE BodyError \/ MessageCompleteComplete
      <4>1. \/ req' = req \/ req' = RequestCompleted(req) \/ req' = StopReading(RequestCompleted(req))
        BY <3>4 DEF BodyError, MessageCompleteComplete
      <4> QED BY <1>0, <4>1, ReqEffects
    <3>5. CASE CallOnHeaders \/ CallOnBodyData \/ CallGetResponse \/ PromiseResolves
      <4>1. req' = req \/ req' = [req EXCEPT !.responseScheduled = TRUE]
        BY <3>5 DEF CallOnHeaders, CallOnBodyData, CallGetResponse, PromiseResolves, Respond
      <4> QED BY <1>0, <4>1, ReqEffects
    <3> QED BY <3>1, <3>2, <3>3, <3>4, <3>5
  <2> QED BY <2>1, <2>2, <2>3
<1>3. Alive' = Alive \/ parser.data = <<>>
  <2>1. CASE \/ OnReadError \/ ServerStops \/ BodyError \/ MessageCompleteComplete \/ ScheduledClose
             \/ OnResponseWritten \/ OnChunkWritten \/ OnClosed
    <3>1. parser.exec = "no"
      BY <2>1, Zenon DEF OnReadError, ServerStops, BodyError, MessageCompleteComplete, ScheduledClose,
             OnResponseWritten, OnChunkWritten, OnClosed, Flush, WriteDone, BgIdle
    <3> QED BY <3>1 DEF HandedOver
  <2>2. CASE ParseHeadersComplete
    BY <2>2, ReqOther DEF Alive
  <2>3. CASE \/ ClientLeaves \/ ScheduledWsRead \/ WriteOut \/ WriteFails \/ InitializeEnv
             \/ CallWsOpen \/ CallWsMessage \/ CallWsClose \/ ParseWaiting \/ ParseRefuses
             \/ UNCHANGED vars
    <3>1. req' = req
      BY <2>3, Zenon DEF ClientLeaves, ScheduledWsRead, WriteOut, WriteFails, InitializeEnv,
                CallWsOpen, CallWsMessage, CallWsClose, ParseWaiting, ParseRefuses, vars
    <3> QED BY <3>1, Zenon DEF Alive
  <2>4. CASE CallOnHeaders \/ CallOnBodyData \/ CallGetResponse \/ PromiseResolves
    <3>1. req' = req \/ req' = [req EXCEPT !.responseScheduled = TRUE]
      BY <2>4 DEF CallOnHeaders, CallOnBodyData, CallGetResponse, PromiseResolves, Respond
    <3>2. req'.reading = req.reading /\ req'.ignoreNewData = req.ignoreNewData
      BY <1>0, <3>1 DEF Request
    <3> QED BY <3>2, Zenon DEF Alive
  <2> QED BY <2>1, <2>2, <2>3, <2>4
<1> QED BY <1>1, <1>2, <1>3 DEF BytesKept

\* What each step does to the stream of an HTTP connection.
LEMMA StreamStep ==
  ASSUME IInv, [Next]_vars, req'.protocol = "HTTP"
  PROVE  /\ req.protocol = "HTTP"
         /\ \/ StreamCut
            \/ (ParseMessageBegin \/ ParseHeadersDone \/ ParseBody) /\ StreamTail
            \/ ClientSendWs \/ \E s \in Shapes : ClientSend(s)
<1>0. TypeOK /\ HandedOver /\ Waits /\ InStep /\ parser \in Parser /\ req \in Request /\ client \in Client
  BY Types DEF IInv
<1>1. CASE ClientSendWs \/ \E s \in Shapes : ClientSend(s)
  <2>1. req' = req
    BY <1>1 DEF ClientSendWs, ClientSend
  <2> QED BY <1>1, <2>1
<1>2. CASE OnRead
  <2>1. req.protocol = "HTTP"
    BY <1>2 DEF OnRead
  <2> QED BY <1>0, <1>2, <2>1, ReadInStep, SameStream
<1>3. CASE KeepForLater
  <2>1. req.protocol = "HTTP"
    BY <1>0, <1>3, ReqOther
  <2> QED BY <1>0, <1>3, <2>1, AfterExecuteInStep, SameStream
<1>4. CASE UpgradeConnection
  <2>1. (req' = req /\ ~req.wsc) \/ req' = Closed(req)
    BY <1>0, <1>4, UpgradeEffects
  <2>2. req'.protocol = req.protocol /\ req'.requestBuffer = req.requestBuffer /\ ~Alive'
    <3>1. CASE req' = req /\ ~req.wsc
      BY <1>0, <3>1 DEF HandedOver, Alive
    <3>2. CASE req' = Closed(req)
      BY <1>0, <3>2 DEF Closed, Request, Alive
    <3> QED BY <2>1, <3>1, <3>2
  <2>3. req.requestBuffer = <<>> /\ parser'.data = <<>>
    BY <1>0, <1>4, <2>2, UpgradeEffects DEF InStep
  <2> QED BY <1>0, <2>2, <2>3, NoStream
<1>5. CASE ParseDone
  <2>1. parser'.data = <<>> /\ client'.net = client.net
    BY <1>0, <1>5 DEF ParseDone, AfterExecute, Parser
  <2>2. req'.protocol = req.protocol /\ req'.requestBuffer = req.requestBuffer
    <3>1. req' = req \/ req' = Closed(req)
      BY <1>5 DEF ParseDone
    <3> QED BY <1>0, <3>1 DEF Closed, Request
  <2>3. (req' = req /\ parser.data = <<>>) \/ ~Alive'
    <3>1. \/ req' = req /\ parser.data = <<>>
          \/ req' = req /\ req.ignoreNewData
          \/ req' = Closed(req)
      BY <1>5 DEF ParseDone
    <3>2. req' = Closed(req) => ~req'.reading
      BY <1>0 DEF Closed, Request
    <3> QED BY <3>1, <3>2 DEF Alive
  <2>4. CASE req' = req /\ parser.data = <<>>
    <3>1. Alive' => Alive
      BY <2>4 DEF Alive
    <3>2. req'.requestBuffer \o parser'.data = req.requestBuffer \o parser.data
      BY <2>1, <2>4
    <3> QED BY <1>0, <2>1, <2>2, <3>1, <3>2, QuietStream
  <2>5. CASE ~Alive'
    <3>1. req.requestBuffer = <<>>
      BY <1>0, <1>5, <2>2 DEF InStep, ParseDone
    <3> QED BY <1>0, <2>1, <2>2, <2>5, <3>1, NoStream
  <2> QED BY <2>3, <2>4, <2>5
<1>6. CASE HeadersCompleteComplete
  <2>1. parser'.data = req.requestBuffer /\ client'.net = client.net
    BY <1>0, <1>6 DEF HeadersCompleteComplete, Execute, Parser
  <2>2. parser.data = <<>>
    BY <1>0, <1>6 DEF HeadersCompleteComplete, Flush, BgIdle, HandedOver
  <2>3. req'.requestBuffer = <<>> /\ req'.protocol = req.protocol /\ (Alive' => Alive)
    BY <1>0, <1>6, ReqOther DEF Alive
  <2>4. <<>> \o req.requestBuffer = req.requestBuffer \o <<>>
    BY <1>0, StreamTypes, ConcatEmptySeq DEF Bytes
  <2>5. req'.requestBuffer \o parser'.data = req.requestBuffer \o parser.data
    BY <2>1, <2>2, <2>3, <2>4
  <2> QED BY <1>0, <2>1, <2>3, <2>5, QuietStream
<1>7. CASE PassRequestBuffer
  <2>1. later # <<>> /\ later[1].op = "wsOpened" /\ 1 \in 1..Len(later)
    BY <1>0, <1>7, LaterFront DEF PassRequestBuffer, RunLater
  <2>2. req.protocol = "WebSockets"
    BY <1>0, <2>1 DEF HandedOver
  <2>3. req'.protocol = req.protocol
    BY <1>0, <1>7, ReqOther
  <2> QED BY <2>2, <2>3
<1>8. CASE ParseMessageBegin \/ ParseHeadersDone \/ ParseBody
  <2>1. /\ parser.data # <<>> /\ parser.st # "wait" /\ client' = client
        /\ ParseHeadersDone \/ ParseBody => req' = req
    BY <1>8 DEF ParseMessageBegin, ParseHeadersDone, ParseBody, Executing
  <2>2. parser'.data = Tail(parser.data)
    <3>1. CASE ParseMessageBegin
      BY <1>0, <3>1 DEF ParseMessageBegin, Parser
    <3>2. CASE ParseHeadersDone
      BY <1>0, <3>2 DEF ParseHeadersDone, Parser
    <3>3. CASE ParseBody
      BY <1>0, <3>3 DEF ParseBody, Parser
    <3> QED BY <1>8, <3>1, <3>2, <3>3
  <2>3. ReqKept(req, req')
    <3>1. CASE ParseMessageBegin
      <4>1. \/ req' = [req EXCEPT !.handlingRequest = TRUE, !.responseScheduled = FALSE]
            \/ req' = [Closed(req) EXCEPT !.handlingRequest = TRUE, !.responseScheduled = FALSE]
        BY <3>1 DEF ParseMessageBegin
      <4> QED BY <1>0, <4>1, ReqEffects
    <3>2. CASE req' = req
      BY <1>0, <3>2, ReqEffects
    <3> QED BY <1>8, <2>1, <3>1, <3>2
  <2>4. req'.protocol = req.protocol /\ req'.requestBuffer = req.requestBuffer /\ (Alive' => Alive)
    BY <2>3, KeptAlive
  <2>5. req.requestBuffer = <<>>
    BY <1>0, <2>1, <2>4 DEF InStep
  <2> QED BY <1>0, <1>8, <2>1, <2>2, <2>4, <2>5, TailStream
<1>9. CASE \/ ClientLeaves \/ OnReadError \/ ServerStops
           \/ BodyError \/ MessageCompleteComplete \/ ScheduledClose \/ ScheduledWsRead
           \/ WriteOut \/ WriteFails \/ OnResponseWritten \/ OnChunkWritten \/ OnClosed
           \/ InitializeEnv \/ CallOnHeaders \/ CallOnBodyData \/ CallGetResponse
           \/ CallWsOpen \/ CallWsMessage \/ CallWsClose
           \/ ParseWaiting \/ ParseRefuses \/ ParseHeadersComplete
           \/ PromiseResolves \/ UNCHANGED vars
  <2>1. BytesKept /\ req'.protocol = req.protocol /\ (Alive' => Alive)
    BY <1>0, <1>9, BytesStep
  <2>2. req'.requestBuffer \o parser'.data = req.requestBuffer \o parser.data
    BY <2>1 DEF BytesKept
  <2> QED BY <1>0, <2>1, <2>2, QuietStream DEF BytesKept
<1> QED BY <1>1, <1>2, <1>3, <1>4, <1>5, <1>6, <1>7, <1>8, <1>9, ZenonT(40)
        DEF Next, ClientStep, Parse, FlushTask, WriteCallback, MainTask

-------------------------------------------------------------------------------
(* What a stream holds. *)

LEMMA ScriptPrefix ==
  ASSUME NEW u, NEW s \in Bytes, Prefix(u, s), NEW a \in Nat, NEW lf, NEW k, NEW f \in Nat,
         NEW n, NEW ws, Script(s, a, lf, k, f, n, ws)
  PROVE  Script(u, a, lf, k, f, n, ws)
<1>1. Len(u) \in Nat /\ Len(s) \in Nat /\ Len(u) <= Len(s)
  BY LenProperties DEF Prefix, Bytes
<1>2. \A i \in 1..Len(u) : i \in 1..Len(s) /\ u[i] = s[i]
  BY <1>1 DEF Prefix
<1> QED BY <1>2 DEF Script

\* The first token of the current request is taken.
LEMMA ScriptTail ==
  ASSUME NEW s \in Bytes, s # <<>>, NEW a \in Nat, a > 0, NEW lf \in BOOLEAN, NEW k, NEW f \in Nat,
         NEW n, NEW ws, Script(s, a, lf, k, f, n, ws)
  PROVE  /\ Script(Tail(s), a - 1, FALSE, k, f, n, ws)
         /\ a = 1 => Script(Tail(s), 0, TRUE, k, f, n, ws)
         /\ s[1] = Token(IF lf THEN "L" ELSE "B", k)
<1> DEFINE r == Tail(s)
<1>1. Len(s) \in Nat \ {0} /\ Len(r) = Len(s) - 1 /\ \A i \in 1..Len(r) : r[i] = s[i + 1]
  BY TailRange DEF Bytes
<1> HIDE DEF r
<1>2. ASSUME NEW i \in 1..Len(r)
      PROVE  /\ i <= a - 1 => r[i] = Token("B", k)
             /\ i > a - 1 /\ i <= a - 1 + f =>
                  r[i] = Token(IF i = a - 1 + 1 THEN "H" ELSE IF i = a - 1 + 2 THEN "L" ELSE "B", n)
             /\ i > a - 1 + f => r[i].t = "W" /\ ws
  <2> DEFINE j == i + 1
  <2>1. /\ j \in 1..Len(s) /\ j # 1 /\ (i <= a - 1 <=> j <= a) /\ (i > a - 1 <=> j > a)
        /\ (i <= a - 1 + f <=> j <= a + f) /\ (i > a - 1 + f <=> j > a + f)
        /\ (i = a - 1 + 1 <=> j = a + 1) /\ (i = a - 1 + 2 <=> j = a + 2)
    BY <1>1
  <2>2. r[i] = s[j]
    BY <1>1
  <2> HIDE DEF j
  <2>3. /\ j <= a => s[j] = Token(IF j = 1 /\ lf THEN "L" ELSE "B", k)
        /\ j > a /\ j <= a + f =>
             s[j] = Token(IF j = a + 1 THEN "H" ELSE IF j = a + 2 THEN "L" ELSE "B", n)
        /\ j > a + f => s[j].t = "W" /\ ws
    BY <2>1 DEF Script
  <2> QED BY <2>1, <2>2, <2>3
<1>3. s[1] = Token(IF lf THEN "L" ELSE "B", k)
  <2>1. 1 \in 1..Len(s) /\ 1 <= a
    BY <1>1
  <2> QED BY <2>1 DEF Script
<1>4. Script(r, a - 1, FALSE, k, f, n, ws)
  <2>1. \A i \in 1..Len(r) :
             /\ i <= a - 1 => r[i] = Token(IF i = 1 /\ FALSE THEN "L" ELSE "B", k)
             /\ i > a - 1 /\ i <= a - 1 + f =>
                  r[i] = Token(IF i = a - 1 + 1 THEN "H" ELSE IF i = a - 1 + 2 THEN "L" ELSE "B", n)
             /\ i > a - 1 + f => r[i].t = "W" /\ ws
    BY <1>2
  <2> QED BY <2>1 DEF Script
<1>5. ASSUME a = 1 PROVE Script(r, 0, TRUE, k, f, n, ws)
  <2>0. a - 1 = 0
    BY <1>5
  <2>1. Script(r, 0, FALSE, k, f, n, ws)
    BY <1>4, <2>0, Zenon
  <2>2. \A i \in 1..Len(r) : ~(i <= 0)
    OBVIOUS
  <2> QED BY <2>1, <2>2 DEF Script
<1> QED BY <1>3, <1>4, <1>5 DEF r

\* The head of the next request is taken.
LEMMA ScriptTailHead ==
  ASSUME NEW s \in Bytes, s # <<>>, NEW f \in Nat, f > 0, NEW lf \in BOOLEAN, NEW k, NEW n, NEW ws,
         Script(s, 0, lf, k, f, n, ws), NEW m
  PROVE  /\ Script(Tail(s), f - 1, TRUE, n, 0, m, ws)
         /\ s[1] = Token("H", n)
<1> DEFINE r == Tail(s)
<1>1. Len(s) \in Nat \ {0} /\ Len(r) = Len(s) - 1 /\ \A i \in 1..Len(r) : r[i] = s[i + 1]
  BY TailRange DEF Bytes
<1> HIDE DEF r
<1>2. \A i \in 1..Len(s) :
        /\ i > 0 /\ i <= 0 + f => s[i] = Token(IF i = 0 + 1 THEN "H" ELSE IF i = 0 + 2 THEN "L" ELSE "B", n)
        /\ i > 0 + f => s[i].t = "W" /\ ws
  BY DEF Script
<1>3. ASSUME NEW i \in 1..Len(r)
      PROVE  /\ i <= f - 1 => r[i] = Token(IF i = 1 /\ TRUE THEN "L" ELSE "B", n)
             /\ ~(i > f - 1 /\ i <= f - 1 + 0)
             /\ i > f - 1 + 0 => r[i].t = "W" /\ ws
  <2> DEFINE j == i + 1
  <2>1. /\ j \in 1..Len(s) /\ j # 0 + 1 /\ (i <= f - 1 <=> j <= 0 + f) /\ j > 0
        /\ (i > f - 1 + 0 <=> j > 0 + f) /\ (i = 1 <=> j = 0 + 2) /\ ~(i > f - 1 /\ i <= f - 1 + 0)
    BY <1>1
  <2>2. r[i] = s[j]
    BY <1>1
  <2> HIDE DEF j
  <2> QED BY <1>2, <2>1, <2>2
<1>4. s[1] = Token("H", n)
  <2>1. 1 \in 1..Len(s) /\ 1 > 0 /\ 1 <= 0 + f /\ 1 = 0 + 1
    BY <1>1
  <2> QED BY <1>2, <2>1
<1>5. Script(r, f - 1, TRUE, n, 0, m, ws)
  BY <1>3 DEF Script
<1> QED BY <1>4, <1>5 DEF r

\* There is no head in the rest of a request.
LEMMA ScriptNoHead ==
  ASSUME NEW s \in Bytes, NEW a \in Nat, NEW lf \in BOOLEAN, NEW k, NEW n, NEW ws,
         Script(s, a, lf, k, 0, n, ws)
  PROVE  \A i \in 1..Len(s) : s[i].t # "H"
<1> SUFFICES ASSUME NEW i \in 1..Len(s), s[i].t = "H" PROVE FALSE
  OBVIOUS
<1>1. i \in Nat /\ (i <= a \/ i > a + 0)
  BY LenProperties DEF Bytes
<1>2. /\ i <= a => s[i] = Token(IF i = 1 /\ lf THEN "L" ELSE "B", k)
      /\ i > a + 0 => s[i].t = "W"
  BY DEF Script
<1> QED BY <1>1, <1>2 DEF Token

\* A stream that holds no more than the rest of a request.
LEMMA ScriptShort ==
  ASSUME NEW s \in Bytes, NEW a \in Nat, NEW lf, NEW k, NEW n, Script(s, a, lf, k, 0, n, FALSE)
  PROVE  /\ Len(s) <= a
         /\ \A f \in Nat : \A m, ws : Script(s, a, lf, k, f, m, ws)
<1>1. Len(s) \in Nat
  BY LenProperties DEF Bytes
<1>2. \A i \in 1..Len(s) : i <= a /\ s[i] = Token(IF i = 1 /\ lf THEN "L" ELSE "B", k)
  <2> SUFFICES ASSUME NEW i \in 1..Len(s)
               PROVE  i <= a /\ s[i] = Token(IF i = 1 /\ lf THEN "L" ELSE "B", k)
    OBVIOUS
  <2>1. i <= a \/ i > a + 0
    BY <1>1
  <2> QED BY <2>1 DEF Script
<1>3. Len(s) <= a
  <2>1. Len(s) = 0 \/ Len(s) \in 1..Len(s)
    BY <1>1
  <2> QED BY <1>2, <2>1
<1>4. ASSUME NEW f \in Nat, NEW m, NEW ws PROVE Script(s, a, lf, k, f, m, ws)
  <2>1. \A i \in 1..Len(s) : ~(i > a) /\ ~(i > a + f)
    BY <1>1, <1>2
  <2> QED BY <1>2, <2>1 DEF Script
<1> QED BY <1>3, <1>4

\* A request follows.
LEMMA ScriptGrow ==
  ASSUME NEW s \in Bytes, NEW lf, NEW k, NEW n, Script(s, Len(s), lf, k, 0, n, FALSE),
         NEW w \in Bytes, NEW m, NEW ws,
         \A i \in 1..Len(w) : w[i] = Token(IF i = 1 THEN "H" ELSE IF i = 2 THEN "L" ELSE "B", m)
  PROVE  Script(s \o w, Len(s), lf, k, Len(w), m, ws) /\ Len(s \o w) = Len(s) + Len(w)
<1> DEFINE r == s \o w
           a == Len(s)
           f == Len(w)
<1>1. /\ Len(r) = a + f /\ a \in Nat /\ f \in Nat /\ \A i \in 1..a : r[i] = s[i]
      /\ \A i \in 1..f : r[a + i] = w[i]
  BY ConcatTypes DEF Bytes
<1>0. \A i \in 1..f : w[i] = Token(IF i = 1 THEN "H" ELSE IF i = 2 THEN "L" ELSE "B", m)
  OBVIOUS
<1>2. \A i \in 1..a : s[i] = Token(IF i = 1 /\ lf THEN "L" ELSE "B", k)
  BY DEF Script
<1> HIDE DEF r, a, f
<1>3. \A i \in 1..Len(r) : ~(i > a + f)
  BY <1>1
<1>4. ASSUME NEW i \in 1..Len(r), i <= a PROVE r[i] = Token(IF i = 1 /\ lf THEN "L" ELSE "B", k)
  <2>1. i \in 1..a
    BY <1>1, <1>4
  <2> QED BY <1>1, <1>2, <2>1
<1>5. ASSUME NEW i \in 1..Len(r), i > a
      PROVE  r[i] = Token(IF i = a + 1 THEN "H" ELSE IF i = a + 2 THEN "L" ELSE "B", m)
  <2> DEFINE j == i - a
  <2>1. j \in 1..f /\ a + j = i /\ (j = 1 <=> i = a + 1) /\ (j = 2 <=> i = a + 2)
    BY <1>1, <1>5
  <2> HIDE DEF j
  <2>2. r[a + j] = w[j]
    BY <1>1, <2>1
  <2> QED BY <1>0, <2>1, <2>2
<1>6. Script(r, a, lf, k, f, m, ws)
  BY <1>3, <1>4, <1>5 DEF Script
<1> QED BY <1>1, <1>6 DEF r, a, f

\* Data of a WebSocket follows.
LEMMA ScriptGrowWs ==
  ASSUME NEW s \in Bytes, NEW a \in Nat, NEW lf, NEW k, NEW f \in Nat, NEW n, NEW ws, ws,
         Len(s) >= a + f, Script(s, a, lf, k, f, n, ws), NEW e \in AnyToken, e.t = "W"
  PROVE  Script(Append(s, e), a, lf, k, f, n, ws)
<1> DEFINE r == Append(s, e)
<1>1. Len(s) \in Nat /\ Len(r) = Len(s) + 1 /\ r[Len(s) + 1] = e /\ \A i \in 1..Len(s) : r[i] = s[i]
  BY LenProperties, AppendProperties DEF Bytes
<1> HIDE DEF r
<1>2. \A i \in 1..Len(r) : i \in 1..Len(s) \/ (i = Len(s) + 1 /\ ~(i <= a) /\ ~(i <= a + f))
  BY <1>1
<1>3. Script(r, a, lf, k, f, n, ws)
  <2> SUFFICES ASSUME NEW i \in 1..Len(r)
               PROVE  /\ i <= a => r[i] = Token(IF i = 1 /\ lf THEN "L" ELSE "B", k)
                      /\ i > a /\ i <= a + f =>
                         r[i] = Token(IF i = a + 1 THEN "H" ELSE IF i = a + 2 THEN "L" ELSE "B", n)
                      /\ i > a + f => r[i].t = "W" /\ ws
    BY DEF Script
  <2>1. CASE i \in 1..Len(s)
    BY <1>1, <2>1 DEF Script
  <2>2. CASE i = Len(s) + 1 /\ ~(i <= a) /\ ~(i <= a + f)
    BY <1>1, <2>2
  <2> QED BY <1>2, <2>1, <2>2
<1> QED BY <1>3 DEF r

-------------------------------------------------------------------------------
(* Where the parser stands. *)

PosKept == /\ parser'.st = parser.st /\ parser'.status = parser.status
           /\ parser'.cur = parser.cur /\ parser'.need = parser.need

LEMMA PosStep ==
  ASSUME TypeOK, [Next]_vars
  PROVE  \/ PosKept
         \/ ParseMessageBegin \/ ParseHeadersComplete \/ ParseHeadersDone \/ ParseBody
         \/ HeadersCompleteComplete
<1>0. parser \in Parser
  BY Types
<1>1. CASE \/ ParseMessageBegin \/ ParseHeadersComplete \/ ParseHeadersDone \/ ParseBody
           \/ HeadersCompleteComplete
  BY <1>1
<1>2. CASE OnRead
  <2>1. parser' = parser \/ \E d : parser' = Execute(parser, d)
    BY <1>2 DEF OnRead
  <2> QED BY <1>0, <2>1 DEF Execute, Parser, PosKept
<1>3. CASE ParseWaiting \/ ParseRefuses \/ BodyError
  BY <1>0, <1>3 DEF ParseWaiting, ParseRefuses, BodyError, Parser, PosKept
<1>4. CASE KeepForLater \/ UpgradeConnection \/ ParseDone
  BY <1>0, <1>4 DEF KeepForLater, UpgradeConnection, ParseDone, AfterExecute, Parser, PosKept
<1>5. CASE \/ \E s \in Shapes : ClientSend(s)
           \/ ClientSendWs \/ ClientLeaves \/ OnReadError \/ ServerStops
           \/ MessageCompleteComplete \/ ScheduledClose \/ ScheduledWsRead
           \/ WriteOut \/ WriteFails \/ OnResponseWritten \/ OnChunkWritten \/ OnClosed
           \/ InitializeEnv \/ CallOnHeaders \/ CallOnBodyData \/ CallGetResponse
           \/ CallWsOpen \/ PassRequestBuffer \/ CallWsMessage \/ CallWsClose
           \/ PromiseResolves \/ UNCHANGED vars
  <2>1. parser' = parser
    BY <1>5, ZenonT(40) DEF ClientSend, ClientSendWs, ClientLeaves, OnReadError, ServerStops,
                    MessageCompleteComplete, ScheduledClose, ScheduledWsRead, WriteOut, WriteFails,
                    OnResponseWritten, OnChunkWritten, OnClosed, PromiseResolves, vars,
                    InitializeEnv, CallOnHeaders, CallOnBodyData, CallGetResponse,
                    CallWsOpen, PassRequestBuffer, CallWsMessage, CallWsClose
  <2> QED BY <2>1, Zenon DEF PosKept
<1> QED BY <1>1, <1>2, <1>3, <1>4, <1>5, ZenonT(40)
        DEF Next, ClientStep, Parse, FlushTask, WriteCallback, MainTask

ShapesKept == client'.shape = client.shape /\ client'.piped = client.piped

LEMMA ShapeStep ==
  ASSUME TypeOK, [Next]_vars
  PROVE  ShapesKept \/ \E s \in Shapes : ClientSend(s)
<1>0. client \in Client
  BY Types
<1>1. CASE \E s \in Shapes : ClientSend(s)
  BY <1>1
<1>2. CASE ClientSendWs \/ ClientLeaves \/ WriteFails
  BY <1>0, <1>2 DEF ClientSendWs, ClientLeaves, WriteFails, Client, ShapesKept
<1>3. CASE OnRead
  <2>1. \E d : client' = [client EXCEPT !.net = d]
    BY <1>3 DEF OnRead
  <2> QED BY <1>0, <2>1 DEF Client, ShapesKept
<1>4. CASE \/ Parse \/ OnReadError \/ ServerStops
           \/ FlushTask \/ WriteOut \/ OnResponseWritten \/ OnChunkWritten \/ OnClosed
           \/ MainTask \/ PromiseResolves \/ UNCHANGED vars
  <2>1. CASE Parse
    BY <2>1, ZenonT(40) DEF Parse, ParseMessageBegin, ParseHeadersComplete, ParseWaiting, ParseHeadersDone,
         ParseBody, ParseRefuses, KeepForLater, UpgradeConnection, ParseDone, ShapesKept
  <2>2. CASE FlushTask
    BY <2>2, ZenonT(40) DEF FlushTask, HeadersCompleteComplete, BodyError, MessageCompleteComplete,
         ScheduledClose, ScheduledWsRead, ShapesKept
  <2>3. CASE MainTask
    BY <2>3, ZenonT(40) DEF MainTask, InitializeEnv, CallOnHeaders, CallOnBodyData, CallGetResponse,
         CallWsOpen, PassRequestBuffer, CallWsMessage, CallWsClose, ShapesKept
  <2>4. CASE \/ OnReadError \/ ServerStops \/ WriteOut \/ OnResponseWritten \/ OnChunkWritten
             \/ OnClosed \/ PromiseResolves \/ UNCHANGED vars
    BY <2>4, ZenonT(40) DEF OnReadError, ServerStops, WriteOut, OnResponseWritten, OnChunkWritten, OnClosed,
         PromiseResolves, vars, ShapesKept
  <2> QED BY <1>4, <2>1, <2>2, <2>3, <2>4
<1> QED BY <1>1, <1>2, <1>3, <1>4, ZenonT(40) DEF Next, ClientStep, WriteCallback

\* The request the parser stands at, and the requests sent.
LEMMA CurTypes ==
  ASSUME TypeOK
  PROVE  /\ Sent \in Nat /\ parser.cur \in Nat /\ parser.cur <= Sent /\ Sent <= MaxReq /\ MaxReq \in Nat
         /\ \A k \in 1..Sent : /\ client.shape[k] \in Shapes /\ client.shape[k] \in Shape /\ k \in ReqNo
                               /\ client.shape[k].body \in Nat
                               /\ client.shape[k].body > 0 => client.shape[k].length
                               /\ client.shape[k].upgrade # "no" => client.shape[k].body = 0
         /\ parser.cur # 0 => parser.cur \in 1..Sent
         /\ parser.st # "start" => parser.cur # 0
         /\ parser.st \in {"start", "headers", "wait", "ready", "body", "dead"}
         /\ parser.status \in {0, 3} /\ parser.need \in Nat
<1>1. /\ client.shape \in Seq(Shapes) /\ Sent \in Nat /\ Sent <= MaxReq /\ MaxReq \in Nat
      /\ parser.cur \in 0..Sent /\ parser.st \in {"start", "headers", "wait", "ready", "body", "dead"}
      /\ parser.status \in {0, 3} /\ parser.need \in Nat
      /\ parser.st # "start" => parser.cur # 0
  BY Types, ParserTypes DEF Client, Sent, TypeOK
<1>2. \A k \in 1..Sent : client.shape[k] \in Shapes
  BY <1>1, ElementOfSeq DEF Sent
<1>3. \A s \in Shapes : /\ s \in Shape /\ s.body \in Nat /\ (s.body > 0 => s.length)
                        /\ (s.upgrade # "no" => s.body = 0)
  BY ConstantsAssumption DEF Shape
<1>4. \A k \in 1..Sent : k \in ReqNo
  BY <1>1 DEF ReqNo
<1>5. parser.cur \in Nat /\ parser.cur <= Sent /\ (parser.cur # 0 => parser.cur \in 1..Sent)
  BY <1>1
<1> QED BY <1>1, <1>2, <1>3, <1>4, <1>5, Zenon

\* A client that is patient after a request was sent had all its answers.
LEMMA SendFacts ==
  ASSUME TypeOK, NEW s \in Shapes, ClientSend(s), Patient'
  PROVE  /\ Patient /\ \A k \in 1..Sent : Answered(k) /\ client.shape[k].upgrade = "no"
         /\ Sent' = Sent + 1 /\ client'.shape[Sent + 1] = s
         /\ \A k \in 1..Sent : client'.shape[k] = client.shape[k]
<1>0. client \in Client /\ client.shape \in Seq(Shapes) /\ client.piped \in BOOLEAN
  BY Types DEF Client
<1>1. DOMAIN client.shape = 1..Sent /\ Sent \in Nat
  BY <1>0, LenProperties DEF Sent
<1>2. /\ client'.shape = Append(client.shape, s)
      /\ client'.piped = (client.piped \/ \E k \in DOMAIN client.shape : ~Answered(k))
      /\ \A k \in DOMAIN client.shape : client.shape[k].upgrade = "no"
  BY <1>0 DEF ClientSend, Client
<1>3. ~client.piped /\ \A k \in DOMAIN client.shape : Answered(k)
  BY <1>2 DEF Patient
<1>4. /\ Len(client'.shape) = Len(client.shape) + 1
      /\ client'.shape[Len(client.shape) + 1] = s
      /\ \A k \in 1..Len(client.shape) : client'.shape[k] = client.shape[k]
  BY <1>0, <1>2, AppendProperties
<1> QED BY <1>1, <1>2, <1>3, <1>4 DEF Sent, Patient

LEMMA PatientStep ==
  ASSUME TypeOK, [Next]_vars, Patient'
  PROVE  Patient
BY ShapeStep, SendFacts DEF ShapesKept, Patient

\* Nothing about the request the parser stands at changes.
CurKept == /\ Sent <= Sent' /\ \A k \in 1..Sent : client'.shape[k] = client.shape[k]
           /\ parser'.cur # 0 => Cur' = Cur
           /\ Ended' = Ended /\ Over' = Over /\ Leftover' = Leftover

LEMMA CurFrame ==
  ASSUME TypeOK, PosKept, Sent <= Sent', \A k \in 1..Sent : client'.shape[k] = client.shape[k]
  PROVE  CurKept
<1>1. parser.cur # 0 => parser.cur \in 1..Sent
  BY CurTypes
<1>2. parser.cur # 0 => Cur' = Cur
  BY <1>1 DEF Cur, PosKept
<1>3. parser'.cur # 0 => Cur' = Cur
  BY <1>2 DEF PosKept
<1>4. Ended' = Ended
  BY DEF Ended, PosKept
<1>5. Ended \in BOOLEAN
  BY DEF Ended
<1>6. Over' = Over /\ Leftover' = Leftover
  <2>1. Ended => parser.cur # 0
    BY DEF Ended
  <2>2. CASE Ended
    BY <1>2, <1>4, <2>1, <2>2, Zenon DEF Over, Leftover, PosKept
  <2>3. CASE ~Ended
    BY <1>4, <2>3, Zenon DEF Over, Leftover
  <2> QED BY <2>2, <2>3
<1> QED BY <1>3, <1>4, <1>6 DEF CurKept

LEMMA SameShapesFrame ==
  ASSUME TypeOK, PosKept, ShapesKept
  PROVE  /\ CurKept /\ Sent' = Sent /\ Cur' = Cur /\ Ahead' = Ahead /\ Fresh' = Fresh
         /\ Upgraded' = Upgraded
<1>1. Sent' = Sent /\ Cur' = Cur
  BY DEF Sent, Cur, PosKept, ShapesKept
<1>2. Sent <= Sent' /\ \A k \in 1..Sent : client'.shape[k] = client.shape[k]
  BY <1>1, CurTypes DEF ShapesKept
<1>3. Ahead' = Ahead
  BY <1>1, Zenon DEF Ahead, PosKept
<1>4. Fresh' = Fresh
  BY <1>1, Zenon DEF Fresh, PosKept, ShapesKept
<1>5. Upgraded' = Upgraded
  BY Zenon DEF Upgraded, ShapesKept
<1> QED BY <1>1, <1>2, <1>3, <1>4, <1>5, CurFrame

LEMMA AheadFresh ==
  ASSUME TypeOK
  PROVE  Ahead \in Nat /\ Fresh \in Nat /\ (Sent > parser.cur <=> Fresh > 0)
<1>0. /\ Sent \in Nat /\ parser.cur \in Nat /\ parser.need \in Nat
      /\ \A k \in 1..Sent : client.shape[k].body \in Nat
      /\ parser.cur # 0 => parser.cur \in 1..Sent
      /\ parser.st # "start" => parser.cur # 0
  BY CurTypes
<1>1. Ahead \in Nat
  <2>1. CASE parser.st \in {"headers", "wait", "ready"}
    <3>1. Cur.body \in Nat
      BY <1>0, <2>1 DEF Cur
    <3>2. Ahead = 1 + Cur.body
      BY <2>1 DEF Ahead
    <3> QED BY <3>1, <3>2
  <2>2. CASE parser.st \notin {"headers", "wait", "ready"}
    BY <1>0, <2>2 DEF Ahead
  <2> QED BY <2>1, <2>2
<1>2. CASE Sent > parser.cur
  <2>1. Sent \in 1..Sent
    BY <1>0, <1>2
  <2>2. Fresh = 2 + client.shape[Sent].body /\ client.shape[Sent].body \in Nat
    BY <1>0, <1>2, <2>1 DEF Fresh
  <2> QED BY <1>1, <1>2, <2>2
<1>3. CASE ~(Sent > parser.cur)
  BY <1>1, <1>3 DEF Fresh
<1> QED BY <1>2, <1>3

-------------------------------------------------------------------------------
(* What the invariant says where it matters. *)

LEMMA FinalsIn ==
  ASSUME NEW q, NEW k, NEW r
  PROVE  r \in Finals(q, k) <=> r \in 1..Len(q) /\ q[r].req = k /\ q[r].kind = "final"
BY DEF Finals

\* An answered request has a response that was written.
LEMMA AnsweredIsWritten ==
  ASSUME TypeOK, Written, NEW k, Answered(k)
  PROVE  \E r \in Finals(resp, k) : resp[r].st # "made"
<1>0. resp \in Seq(Response) /\ wire \in Seq(Nat \X Nat)
  BY Types
<1>1. DOMAIN resp = 1..Len(resp) /\ DOMAIN wire = 1..Len(wire)
  BY <1>0, LenProperties
<1>2. PICK r \in 1..Len(resp) : resp[r].req = k /\ resp[r].kind = "final" /\ Parts(r) \subseteq OnWire
  BY <1>1, Zenon DEF Answered
<1>3. resp[r].body \in Nat
  <2>1. r \in 1..Len(resp)
    OBVIOUS
  <2>2. resp[r] \in Response
    BY <1>0, <2>1, ElementOfSeq
  <2> QED BY <2>2 DEF Response
<1>4. 0 \in 0..resp[r].body
  BY <1>3
<1>5. <<r, 0>> \in Parts(r)
  BY <1>4, Zenon DEF Parts
<1>6. PICK i \in 1..Len(wire) : wire[i] = <<r, 0>>
  BY <1>1, <1>2, <1>5, Zenon DEF OnWire
<1>7. wire[i][1] = r
  BY <1>6
<1>8. resp[r].st # "made"
  BY <1>7 DEF Written
<1> QED BY <1>2, <1>8, FinalsIn

LEMMA TaskKinds ==
  ASSUME TypeOK
  PROVE  /\ \A e \in Asked(later) : /\ e.op \in NeedsEnv /\ e \in LaterTask /\ e.k \in ReqNo
                                    /\ \E i \in 1..Len(later) : later[i] = e
         /\ \A e \in Replies(bgq) : /\ e.op \in Outcome /\ e \in BgTask /\ e.k \in ReqNo /\ e.r \in Nat
                                    /\ \E i \in 1..Len(bgq) : bgq[i] = e
<1>0. later \in Seq(LaterTask) /\ bgq \in Seq(BgTask)
  BY Types
<1>1. ASSUME NEW e \in Asked(later)
      PROVE  /\ e.op \in NeedsEnv /\ e \in LaterTask /\ e.k \in ReqNo
             /\ \E i \in 1..Len(later) : later[i] = e
  <2>1. PICK i \in 1..Len(later) : later[i].op \in NeedsEnv /\ later[i] = e
    BY <1>1, TasksIn DEF Asked
  <2>2. e \in LaterTask /\ e.op \in NeedsEnv
    BY <1>0, <2>1, ElementOfSeq
  <2>3. e.k \in ReqNo
    BY <2>2 DEF LaterTask, NeedsEnv
  <2> QED BY <2>1, <2>2, <2>3
<1>2. ASSUME NEW e \in Replies(bgq)
      PROVE  /\ e.op \in Outcome /\ e \in BgTask /\ e.k \in ReqNo /\ e.r \in Nat
             /\ \E i \in 1..Len(bgq) : bgq[i] = e
  <2>1. PICK i \in 1..Len(bgq) : bgq[i].op \in Outcome /\ bgq[i] = e
    BY <1>2, TasksIn DEF Replies
  <2>2. e \in BgTask /\ e.op \in Outcome
    BY <1>0, <2>1, ElementOfSeq
  <2>3. e.k \in ReqNo /\ e.r \in Nat
    BY <2>2 DEF BgTask, Outcome
  <2> QED BY <2>1, <2>2, <2>3
<1> QED BY <1>1, <1>2

\* R has a call for the headers, or has answered it, only while the parser waits.
LEMMA HeadersTasks ==
  ASSUME TypeOK, Waits
  PROVE  /\ \A e \in Asked(later) : e.op = "onHeaders" =>
              parser.st = "wait" /\ e.k = parser.cur /\ \A x \in Replies(bgq) : x.op # "headersDone"
         /\ \A e \in Replies(bgq) : e.op = "headersDone" => parser.st = "wait" /\ e.k = parser.cur
         /\ parser.st = "wait" => \/ \E e \in Asked(later) : e.op = "onHeaders"
                                  \/ \E e \in Replies(bgq) : e.op = "headersDone"
<1>1. ASSUME NEW e \in Asked(later), e.op = "onHeaders"
      PROVE  parser.st = "wait" /\ e.k = parser.cur /\ \A x \in Replies(bgq) : x.op # "headersDone"
  <2>1. PICK i \in 1..Len(later) : later[i] = e
    BY <1>1, TaskKinds
  <2>2. \A j \in 1..Len(bgq) : bgq[j].op # "headersDone"
    BY <1>1, <2>1 DEF Waits
  <2>3. \A x \in Replies(bgq) : x.op # "headersDone"
    BY <2>2, TaskKinds
  <2> QED BY <1>1, <2>1, <2>3 DEF Waits
<1>2. ASSUME NEW e \in Replies(bgq), e.op = "headersDone" PROVE parser.st = "wait" /\ e.k = parser.cur
  <2>1. PICK i \in 1..Len(bgq) : bgq[i] = e
    BY <1>2, TaskKinds
  <2> QED BY <1>2, <2>1 DEF Waits
<1>3. ASSUME parser.st = "wait"
      PROVE  \/ \E e \in Asked(later) : e.op = "onHeaders"
             \/ \E e \in Replies(bgq) : e.op = "headersDone"
  <2>1. CASE \E i \in 1..Len(later) : later[i].op = "onHeaders"
    <3>1. PICK i \in 1..Len(later) : later[i].op = "onHeaders"
      BY <2>1
    <3>2. later[i] \in Asked(later)
      BY <3>1, TasksIn DEF Asked, NeedsEnv
    <3> QED BY <3>1, <3>2
  <2>2. CASE \E i \in 1..Len(bgq) : bgq[i].op = "headersDone"
    <3>1. PICK i \in 1..Len(bgq) : bgq[i].op = "headersDone"
      BY <2>2
    <3>2. bgq[i] \in Replies(bgq)
      BY <3>1, TasksIn DEF Replies, Outcome
    <3> QED BY <3>1, <3>2
  <2> QED BY <1>3, <2>1, <2>2 DEF Waits
<1> QED BY <1>1, <1>2, <1>3

\* Before the body of a request and after its answer there is nothing else.
LEMMA QuietTasks ==
  ASSUME TypeOK, Waits, TasksWhen, parser.st # "body", ~Over
  PROVE  /\ app.promised = {}
         /\ \A e \in Asked(later) : e.op = "onHeaders"
         /\ \A e \in Replies(bgq) : e.op = "headersDone"
         /\ parser.st # "wait" => Asked(later) = {} /\ Replies(bgq) = {}
<1>1. app.promised = {} /\ ~Asks("onBodyData") /\ ~Asks("getResponse")
      /\ ~Replied("bodyError") /\ ~Replied("messageDone")
  BY DEF TasksWhen
<1>2. \A e \in Asked(later) : e.op = "onHeaders"
  BY <1>1, TaskKinds DEF Asks, NeedsEnv
<1>3. \A e \in Replies(bgq) : e.op = "headersDone"
  BY <1>1, TaskKinds DEF Replied, Outcome
<1> QED BY <1>1, <1>2, <1>3, HeadersTasks

\* While the parser waits the request is not answered, and nothing follows it.
LEMMA WaitFacts ==
  ASSUME TypeOK, Written, Waits, InTurn, OneAnswer, parser.st = "wait"
  PROVE  Sent = parser.cur /\ Fresh = 0 /\ \A r \in Finals(resp, parser.cur) : resp[r].st = "made"
<1>1. \A r \in Finals(resp, parser.cur) : resp[r].st = "made"
  <2>1. CASE \E e \in Asked(later) : e.op = "onHeaders"
    BY <2>1 DEF OneAnswer, Asks
  <2>2. CASE \E e \in Replies(bgq) : e.op = "headersDone"
    <3>1. PICK e \in Replies(bgq) : e.op = "headersDone"
      BY <2>2
    <3>2. CASE e.r = 0
      BY <3>1, <3>2 DEF OneAnswer
    <3>3. CASE e.r # 0
      <4>1. e.r \in Finals(resp, parser.cur) /\ resp[e.r].st = "made"
        BY <3>1, <3>3 DEF OneAnswer
      <4>2. \A q, r \in Finals(resp, parser.cur) : q = r
        BY DEF OneAnswer
      <4> QED BY <4>1, <4>2
    <3> QED BY <3>2, <3>3
  <2> QED BY <2>1, <2>2, HeadersTasks
<1>2. ~Answered(parser.cur)
  BY <1>1, AnsweredIsWritten
<1>3. parser.cur # 0 /\ Sent \in Nat /\ parser.cur \in Nat
  BY CurTypes
<1>4. ~(Sent > parser.cur) /\ parser.cur <= Sent
  BY <1>2, <1>3 DEF InTurn
<1>5. Fresh = 0
  BY <1>4 DEF Fresh
<1> QED BY <1>1, <1>3, <1>4, <1>5

\* An answered request on a connection that is read from is done with.
LEMMA AnsweredIdle ==
  ASSUME TypeOK, Written, OneAnswer, Alive, Answered(parser.cur)
  PROVE  /\ Asked(later) = {} /\ Replies(bgq) = {} /\ app.promised = {} /\ Cur.keep
         /\ parser.st = "start" \/ (parser.st = "ready" /\ parser.status = 3)
<1>1. PICK r \in Finals(resp, parser.cur) : resp[r].st # "made"
  BY AnsweredIsWritten
<1> QED BY <1>1 DEF OneAnswer

\* The head of a request arrives when the request before is done with.
LEMMA HeadFacts ==
  ASSUME IInv, Written, TurnInv, AnswerInv, ParseMessageBegin
  PROVE  /\ Sent = parser.cur + 1 /\ Head(parser.data).k = Sent /\ Alive
         /\ Fresh = 2 + client.shape[Sent].body
         /\ Stream # <<>> /\ Script(Tail(Stream), Fresh - 1, TRUE, Sent, 0, Sent, Upgraded)
         /\ Asked(later) = {} /\ Replies(bgq) = {} /\ app.promised = {}
         /\ ~req.isUpgrade /\ req.protocol = "HTTP"
<1>0. /\ TypeOK /\ Waits /\ HandedOver /\ InStep /\ InTurn /\ Scripted /\ Flags
      /\ TasksInOrder /\ TasksWhen /\ OneAnswer
  BY DEF IInv, TurnInv, AnswerInv
<1>1. /\ parser.st = "start" /\ parser.exec = "run" /\ parser.data # <<>> /\ Head(parser.data).t = "H"
  BY DEF ParseMessageBegin, Executing
<1>2. req.protocol = "HTTP"
  <2>1. req.protocol \in {"HTTP", "WebSockets"}
    BY <1>0, Types, RequestTypes
  <2> QED BY <1>0, <1>1, <2>1 DEF HandedOver
<1>3. ~Leftover /\ Script(Stream, Ahead, parser.st # "body", parser.cur, Fresh, Sent, Upgraded)
  BY <1>0, <1>1, <1>2 DEF Scripted
<1>4. Ahead = 0 /\ (parser.st # "body") = TRUE
  BY <1>1 DEF Ahead
<1>5. Script(Stream, 0, TRUE, parser.cur, Fresh, Sent, Upgraded)
  BY <1>3, <1>4
<1>6. Stream \in Bytes /\ Fresh \in Nat /\ (Sent > parser.cur <=> Fresh > 0)
  BY <1>0, StreamTypes, AheadFresh
<1>7. parser.data \in Bytes /\ Head(parser.data) = parser.data[1] /\ 1 \in 1..Len(parser.data)
  <2>1. parser.data \in Seq(AnyToken)
    BY <1>0, StreamTypes DEF Bytes
  <2>2. Len(parser.data) \in Nat \ {0} /\ Head(parser.data) = parser.data[1]
    BY <1>1, <2>1, TailRange
  <2> QED BY <2>1, <2>2 DEF Bytes
<1>8. Fresh > 0
  <2>1. PICK j \in 1..Len(Stream) : Stream[j] = parser.data[1]
    BY <1>0, <1>7, DataInStream
  <2>2. CASE Fresh = 0
    <3>1. \A i \in 1..Len(Stream) : Stream[i].t # "H"
      <4>1. Script(Stream, 0, TRUE, parser.cur, 0, Sent, Upgraded)
        BY <1>5, <2>2
      <4> QED BY <1>6, <4>1, ScriptNoHead
    <3> QED BY <1>1, <1>7, <2>1, <3>1
  <2> QED BY <1>6, <2>2
<1>9. Sent = parser.cur + 1 /\ Sent \in Nat /\ parser.cur \in Nat
  <2>1. Sent \in Nat /\ parser.cur \in Nat /\ Sent <= parser.cur + 1
    BY <1>0, CurTypes DEF InTurn
  <2> QED BY <1>6, <1>8, <2>1
<1>10. Fresh = 2 + client.shape[Sent].body
  BY <1>6, <1>8 DEF Fresh
<1>11. Alive
  BY <1>0, <1>1, <1>2, <1>7 DEF Scripted
<1>12. Stream # <<>> /\ Stream[1] = Head(parser.data)
  <2>1. req.requestBuffer = <<>>
    BY <1>0, <1>1, <1>2 DEF InStep
  <2> DEFINE a == parser.data
             b == IF Alive THEN client.net ELSE <<>>
  <2>2. a \in Bytes /\ b \in Bytes /\ a # <<>>
    BY <1>0, <1>1, StreamTypes
  <2>3. <<>> \o a = a
    <3> HIDE DEF a
    <3> QED BY <2>2, ConcatEmptySeq DEF Bytes
  <2>4. Stream = a \o b
    BY <2>1, <2>3 DEF Stream
  <2> HIDE DEF a, b
  <2>5. a \o b # <<>> /\ (a \o b)[1] = a[1]
    BY <2>2, TailOfConcat
  <2> QED BY <1>7, <2>4, <2>5 DEF a
<1>13. Script(Tail(Stream), Fresh - 1, TRUE, Sent, 0, Sent, Upgraded) /\ Stream[1] = Token("H", Sent)
  BY <1>5, <1>6, <1>8, <1>12, ScriptTailHead
<1>14. Head(parser.data).k = Sent
  BY <1>12, <1>13 DEF Token
<1>15. Asked(later) = {} /\ Replies(bgq) = {} /\ app.promised = {}
  <2>1. CASE parser.cur = 0
    <3>1. ~Over
      BY <2>1 DEF Over, Ended
    <3> QED BY <1>0, <1>1, <3>1, QuietTasks
  <2>2. CASE parser.cur # 0
    <3>1. Answered(parser.cur)
      BY <1>0, <1>6, <1>8, <2>2 DEF InTurn
    <3> QED BY <1>0, <1>11, <3>1, AnsweredIdle
  <2> QED BY <2>1, <2>2
<1>16. ~req.isUpgrade
  BY <1>0, <1>9 DEF Flags
<1> QED BY <1>2, <1>9, <1>10, <1>11, <1>12, <1>13, <1>14, <1>15, <1>16

-------------------------------------------------------------------------------
(* One request at a time. *)

LEMMA BeginEffects ==
  ASSUME TypeOK, ParseMessageBegin
  PROVE  /\ parser'.st = "headers" /\ parser'.cur = Head(parser.data).k
         /\ parser'.data = Tail(parser.data) /\ parser'.exec = "run" /\ parser.exec = "run"
         /\ parser'.errno = parser.errno /\ ~parser.errno /\ parser.st = "start" /\ parser.data # <<>>
         /\ req'.responseScheduled = FALSE /\ req'.isUpgrade = req.isUpgrade
         /\ client' = client /\ bgq' = bgq /\ resp' = resp /\ app' = app /\ wire' = wire
<1>0. parser \in Parser /\ req \in Request
  BY Types
<1>1. /\ parser'.st = "headers" /\ parser'.cur = Head(parser.data).k
      /\ parser'.data = Tail(parser.data) /\ parser'.exec = "run" /\ parser.exec = "run"
      /\ parser'.errno = parser.errno /\ ~parser.errno /\ parser.st = "start" /\ parser.data # <<>>
  BY <1>0 DEF ParseMessageBegin, Executing, Parser
<1>2. req'.responseScheduled = FALSE /\ req'.isUpgrade = req.isUpgrade
  <2>1. \/ req' = [req EXCEPT !.handlingRequest = TRUE, !.responseScheduled = FALSE]
        \/ req' = [Closed(req) EXCEPT !.handlingRequest = TRUE, !.responseScheduled = FALSE]
    BY DEF ParseMessageBegin
  <2> QED BY <1>0, <2>1 DEF Closed, Request
<1>3. client' = client /\ bgq' = bgq /\ resp' = resp /\ app' = app /\ wire' = wire
  BY DEF ParseMessageBegin
<1> QED BY <1>1, <1>2, <1>3

LEMMA AnsweredNext ==
  ASSUME IInv, Written, [Next]_vars, IInv', NEW k \in Nat, Answered(k)
  PROVE  AnsweredBy(resp', OnWire', k)
BY AnsweredStep DEF IInv

LEMMA AnsweredPrime ==
  ASSUME TypeOK', AnsweredBy(resp', OnWire', parser'.cur)
  PROVE  Answered(parser.cur)'
<1>0. resp' \in Seq(Response)
  BY DEF TypeOK
<1>1. DOMAIN resp' = 1..Len(resp')
  BY <1>0, LenProperties
<1> QED BY <1>1, Zenon DEF Answered, AnsweredBy, Parts

LEMMA InTurnStep ==
  ASSUME IInv, Written, Patient, TurnInv, AnswerInv, IInv', [Next]_vars, Patient'
  PROVE  InTurn'
<1>0. /\ TypeOK /\ InTurn /\ TasksInOrder /\ TypeOK'
      /\ Sent \in Nat /\ parser.cur \in Nat
  BY CurTypes DEF IInv, TurnInv, AnswerInv
<1>1. CASE \E s \in Shapes : ClientSend(s)
  <2>1. PICK s \in Shapes : ClientSend(s)
    BY <1>1
  <2>2. /\ \A k \in 1..Sent : Answered(k) /\ client.shape[k].upgrade = "no"
        /\ Sent' = Sent + 1 /\ \A k \in 1..Sent : client'.shape[k] = client.shape[k]
    BY <1>0, <2>1, SendFacts
  <2>3. parser' = parser /\ resp' = resp /\ wire' = wire
    BY <2>1 DEF ClientSend
  <2>4. Sent = parser.cur
    <3>1. CASE Sent = 0
      BY <1>0, <3>1 DEF InTurn
    <3>2. CASE Sent # 0
      <4>1. Sent \in 1..Sent
        BY <1>0, <3>2
      <4>2. \E r \in DOMAIN resp : resp[r].req = Sent
        BY <2>2, <4>1 DEF Answered
      <4>3. DOMAIN resp = 1..Len(resp)
        BY <1>0, Types, LenProperties
      <4>4. Sent <= parser.cur
        BY <4>2, <4>3, <1>0 DEF TasksInOrder
      <4> QED BY <1>0, <4>4 DEF InTurn
    <3> QED BY <3>1, <3>2
  <2>5. parser'.cur # 0 => Answered(parser.cur)'
    <3> SUFFICES ASSUME parser.cur # 0 PROVE Answered(parser.cur)'
      BY <2>3
    <3>1. parser.cur \in 1..Sent
      BY <1>0, <2>4
    <3>2. Answered(parser.cur)
      BY <2>2, <3>1
    <3>3. AnsweredBy(resp', OnWire', parser'.cur)
      BY <1>0, <2>3, <3>2, AnsweredNext
    <3> QED BY <1>0, <3>3, AnsweredPrime
  <2>6. \A k \in 1..Len(client'.shape) : k < Sent' => client'.shape[k].upgrade = "no"
    <3>1. Len(client'.shape) = Sent + 1 /\ Sent' = Sent + 1
      BY <2>2 DEF Sent
    <3>2. \A k \in 1..(Sent + 1) : k < Sent + 1 => k \in 1..Sent
      BY <1>0
    <3> QED BY <2>2, <3>1, <3>2
  <2>7. parser'.cur <= Sent' /\ Sent' <= parser'.cur + 1
    BY <1>0, <2>2, <2>3, <2>4
  <2> QED BY <2>5, <2>6, <2>7 DEF InTurn
<1>2. CASE ParseMessageBegin
  <2>1. parser'.cur = Sent /\ client' = client
    BY <1>0, <1>2, HeadFacts, BeginEffects
  <2>2. Sent' = Sent
    BY <2>1 DEF Sent
  <2>3. parser'.cur <= Sent' /\ Sent' <= parser'.cur + 1 /\ ~(Sent' > parser'.cur)
    BY <1>0, <2>1, <2>2
  <2>4. \A k \in 1..Len(client'.shape) : k < Sent' => client'.shape[k].upgrade = "no"
    BY <1>0, <2>1, <2>2 DEF InTurn
  <2> QED BY <2>3, <2>4 DEF InTurn
<1>3. CASE ShapesKept /\ parser'.cur = parser.cur
  <2>1. Sent' = Sent /\ parser'.cur = parser.cur /\ client'.shape = client.shape
    BY <1>3 DEF ShapesKept, Sent
  <2>2. ASSUME Sent' > parser'.cur, parser'.cur # 0 PROVE Answered(parser.cur)'
    <3>1. Answered(parser.cur)
      BY <1>0, <2>1, <2>2 DEF InTurn
    <3>2. AnsweredBy(resp', OnWire', parser'.cur)
      BY <1>0, <2>1, <3>1, AnsweredNext
    <3> QED BY <1>0, <3>2, AnsweredPrime
  <2>3. parser'.cur <= Sent' /\ Sent' <= parser'.cur + 1
    BY <1>0, <2>1 DEF InTurn
  <2>4. \A k \in 1..Len(client'.shape) : k < Sent' => client'.shape[k].upgrade = "no"
    BY <1>0, <2>1 DEF InTurn
  <2> QED BY <2>2, <2>3, <2>4 DEF InTurn
<1>4. parser'.cur = parser.cur \/ ParseMessageBegin
  <2>0. parser \in Parser
    BY <1>0, Types
  <2>1. CASE ParseHeadersComplete
    BY <2>0, <2>1 DEF ParseHeadersComplete, Parser
  <2>2. CASE ParseHeadersDone
    BY <2>0, <2>2 DEF ParseHeadersDone, Parser
  <2>3. CASE ParseBody
    BY <2>0, <2>3 DEF ParseBody, Parser
  <2>4. CASE HeadersCompleteComplete
    BY <2>0, <2>4 DEF HeadersCompleteComplete, Execute, Parser
  <2> QED BY <1>0, <2>1, <2>2, <2>3, <2>4, PosStep DEF PosKept
<1> QED BY <1>0, <1>1, <1>2, <1>3, <1>4, ShapeStep

-------------------------------------------------------------------------------
(* The stream holds the rest of one request and then the next one. *)

NoHead(d) == \A i \in 1..Len(d) : d[i].t # "H"

LEMMA ScriptedFrame ==
  ASSUME TypeOK, Scripted, req.protocol = "HTTP", StreamCut,
         Ahead' = Ahead, Fresh' = Fresh, Sent' = Sent, Upgraded' = Upgraded, parser'.cur = parser.cur,
         parser'.st = "body" <=> parser.st = "body", Leftover => Leftover',
         ~Alive' \/ parser'.st = "ready" => NoHead(parser'.data),
         Leftover' => parser'.exec # "run" \/ parser'.data = <<>>
  PROVE  Scripted'
<1>0. Stream \in Bytes /\ Ahead \in Nat /\ Fresh \in Nat
  BY StreamTypes, AheadFresh
<1>1. Prefix(Stream', Stream) /\ (Alive' => Alive /\ Stream' = Stream)
  BY DEF StreamCut
<1>2. (parser'.st # "body") = (parser.st # "body")
  OBVIOUS
<1> DEFINE lf == parser.st # "body"
<1>3. Leftover' \/ Script(Stream', Ahead', parser'.st # "body", parser'.cur, Fresh', Sent', Upgraded')
  <2>1. CASE Leftover
    BY <2>1
  <2>2. CASE Script(Stream, Ahead, lf, parser.cur, Fresh, Sent, Upgraded)
    <3> HIDE DEF lf
    <3>1. Script(Stream', Ahead, lf, parser.cur, Fresh, Sent, Upgraded)
      BY <1>0, <1>1, <2>2, ScriptPrefix
    <3> QED BY <1>2, <3>1, Zenon DEF lf
  <2> QED BY <2>1, <2>2 DEF Scripted
<1>4. Alive' => Len(Stream') >= Ahead' + Fresh'
  BY <1>1 DEF Scripted
<1> QED BY <1>3, <1>4 DEF Scripted, NoHead

\* More bytes come.
LEMMA StreamGrows ==
  ASSUME TypeOK, NEW w \in Bytes, client'.net = client.net \o w, req' = req, parser' = parser
  PROVE  Alive' = Alive /\ (Alive => Stream' = Stream \o w) /\ (~Alive => Stream' = Stream)
<1>1. Alive' = Alive
  BY DEF Alive
<1> DEFINE a == req.requestBuffer \o parser.data
           b == client.net
<1>2. a \in Bytes /\ b \in Bytes
  BY StreamTypes
<1>3. ASSUME ~Alive PROVE Stream' = Stream
  BY <1>1, <1>3 DEF Stream
<1>4. ASSUME Alive PROVE Stream' = Stream \o w
  <2>1. Stream = a \o b /\ Stream' = a \o (b \o w)
    BY <1>1, <1>4 DEF Stream
  <2> HIDE DEF a, b
  <2> QED BY <1>2, <2>1, ConcatAssociative, SMTT(40) DEF Bytes
<1> QED BY <1>1, <1>3, <1>4

LEMMA TokensOfForm ==
  ASSUME NEW s \in Shapes, NEW n
  PROVE  /\ s.body \in Nat /\ Len(TokensOf(s, n)) = 2 + s.body
         /\ \A i \in 1..(2 + s.body) :
              TokensOf(s, n)[i] = Token(IF i = 1 THEN "H" ELSE IF i = 2 THEN "L" ELSE "B", n)
<1> DEFINE a == <<Token("H", n), Token("L", n)>>
           b == [i \in 1..s.body |-> Token("B", n)]
           S == {Token(t, n) : t \in {"H", "L", "B"}}
           w == a \o b
<1>1. s.body \in Nat
  BY ConstantsAssumption DEF Shape
<1>2. a \in Seq(S) /\ Len(a) = 2 /\ a[1] = Token("H", n) /\ a[2] = Token("L", n)
  OBVIOUS
<1>3. b \in Seq(S) /\ Len(b) = s.body /\ \A i \in 1..s.body : b[i] = Token("B", n)
  <2>1. \A i \in 1..s.body : b[i] \in S
    OBVIOUS
  <2>2. b \in [1..s.body -> S]
    BY <2>1
  <2> HIDE DEF b
  <2>3. b \in Seq(S) /\ Len(b) = s.body
    BY <1>1, <2>2, FunctionIsSeq
  <2> QED BY <2>3 DEF b
<1> HIDE DEF a, b, S
<1>4. /\ Len(w) = Len(a) + Len(b) /\ \A i \in 1..Len(a) : w[i] = a[i]
      /\ \A i \in 1..Len(b) : w[Len(a) + i] = b[i]
  <2>1. a \in Seq(S) /\ b \in Seq(S)
    BY <1>2, <1>3
  <2> QED BY <2>1, ConcatTypes
<1> HIDE DEF w
<1>5. /\ Len(w) = 2 + s.body
      /\ \A i \in 1..2 : w[i] = a[i]
      /\ \A i \in 1..s.body : w[2 + i] = b[i]
  BY <1>2, <1>3, <1>4
<1>6. ASSUME NEW i \in 1..(2 + s.body)
      PROVE  w[i] = Token(IF i = 1 THEN "H" ELSE IF i = 2 THEN "L" ELSE "B", n)
  <2>1. CASE i \in 1..2
    <3>1. i = 1 \/ i = 2
      BY <2>1
    <3> QED BY <1>2, <1>5, <2>1, <3>1
  <2>2. CASE i \notin 1..2
    <3> DEFINE j == i - 2
    <3>1. j \in 1..s.body /\ 2 + j = i /\ i # 1 /\ i # 2
      BY <1>1, <2>2
    <3> HIDE DEF j
    <3> QED BY <1>3, <1>5, <3>1
  <2> QED BY <2>1, <2>2
<1> QED BY <1>1, <1>5, <1>6 DEF w, a, b, TokensOf

\* A client that has its answers has nothing under way.
LEMMA SendScripted ==
  ASSUME IInv, Written, Patient, TurnInv, AnswerInv, IInv', Patient', NEW s \in Shapes, ClientSend(s),
         req.protocol = "HTTP", InTurn'
  PROVE  Scripted'
<1>0. /\ TypeOK /\ InTurn /\ Scripted /\ Flags /\ Sent \in Nat /\ parser.cur \in Nat
      /\ parser.cur # 0 => parser.cur \in 1..Sent
      /\ Stream \in Bytes /\ Ahead \in Nat
      /\ \A k \in 1..Sent : client.shape[k].body > 0 => client.shape[k].length
  BY CurTypes, StreamTypes, AheadFresh DEF IInv, TurnInv
<1> DEFINE w == TokensOf(s, Sent + 1)
           lf == parser.st # "body"
<1>1. /\ \A k \in 1..Sent : client.shape[k].upgrade = "no"
      /\ Sent' = Sent + 1 /\ client'.shape[Sent + 1] = s
      /\ \A k \in 1..Sent : client'.shape[k] = client.shape[k]
  BY <1>0, SendFacts
<1>2. client'.net = client.net \o w /\ w \in Bytes
  BY <1>0, ClientSendTypes DEF Bytes, Sent
<1>3. req' = req /\ parser' = parser
  BY DEF ClientSend
<1>4. s.body \in Nat /\ Len(w) = 2 + s.body
      /\ \A i \in 1..Len(w) : w[i] = Token(IF i = 1 THEN "H" ELSE IF i = 2 THEN "L" ELSE "B", Sent + 1)
  BY TokensOfForm
<1> HIDE DEF w
<1>5. Sent = parser.cur
  <2>1. Sent' <= parser'.cur + 1 /\ parser.cur <= Sent
    BY <1>0 DEF InTurn
  <2> QED BY <1>0, <1>1, <1>3, <2>1
<1>6. Fresh = 0 /\ Fresh' = 2 + s.body
  <2>1. ~(Sent > parser.cur) /\ Sent' > parser'.cur /\ client'.shape[Sent'] = s
    BY <1>0, <1>1, <1>3, <1>5
  <2> QED BY <2>1 DEF Fresh
<1>7. Upgraded = FALSE
  BY <1>1 DEF Upgraded, Sent
<1>8. CurKept
  <2>1. PosKept
    BY <1>3 DEF PosKept
  <2>2. Sent <= Sent'
    BY <1>0, <1>1
  <2> QED BY <1>0, <1>1, <2>1, <2>2, CurFrame
<1>9. Ahead' = Ahead
  <2>1. parser.st # "start" => parser.cur # 0
    BY <1>0, CurTypes
  <2>2. parser.st # "start" => Cur' = Cur
    BY <1>3, <1>8, <2>1 DEF CurKept
  <2> QED BY <1>3, <2>2 DEF Ahead
<1>10. Alive' = Alive /\ (Alive => Stream' = Stream \o w) /\ (~Alive => Stream' = Stream)
  BY <1>0, <1>2, <1>3, StreamGrows
<1>11. Leftover \/ Script(Stream, Ahead, lf, parser.cur, 0, Sent, FALSE)
  BY <1>0, <1>6, <1>7 DEF Scripted
<1>12. CASE ~Alive
  <2>1. Leftover' \/ Script(Stream', Ahead', parser'.st # "body", parser'.cur, Fresh', Sent', Upgraded')
    <3>1. CASE Leftover
      BY <1>8, <3>1 DEF CurKept
    <3>2. CASE Script(Stream, Ahead, lf, parser.cur, 0, Sent, FALSE)
      <4> HIDE DEF lf
      <4>1. Script(Stream, Ahead, lf, parser.cur, Fresh', Sent', Upgraded')
        <5>1. Fresh' \in Nat
          BY <1>4, <1>6
        <5>2. \A f \in Nat : \A m, ws : Script(Stream, Ahead, lf, parser.cur, f, m, ws)
          BY <1>0, <3>2, ScriptShort
        <5> QED BY <5>1, <5>2
      <4> QED BY <1>3, <1>9, <1>10, <1>12, <4>1 DEF lf
    <3> QED BY <1>11, <3>1, <3>2
  <2> QED BY <1>0, <1>3, <1>8, <1>10, <1>12, <2>1 DEF Scripted, CurKept
<1>13. CASE Alive
  <2>1. ~Leftover
    <3> SUFFICES ASSUME Leftover PROVE FALSE
      OBVIOUS
    <3>1. parser.cur # 0 /\ Cur.body > 0 /\ ~Cur.length
      BY <1>0, <1>13 DEF Leftover, Flags, Alive, Ended
    <3>2. client.shape[parser.cur].length
      BY <1>0, <3>1 DEF Cur
    <3> QED BY <3>1, <3>2 DEF Cur
  <2>2. Script(Stream, Ahead, lf, parser.cur, 0, Sent, FALSE)
    BY <1>11, <2>1
  <2> HIDE DEF lf
  <2>3. Len(Stream) <= Ahead
    BY <1>0, <2>2, ScriptShort
  <2>4. Len(Stream) >= Ahead + 0
    BY <1>0, <1>6, <1>13 DEF Scripted
  <2>5. Len(Stream) = Ahead
    BY <1>0, <2>3, <2>4, LenProperties DEF Bytes
  <2>6. /\ Script(Stream \o w, Len(Stream), lf, parser.cur, Len(w), Sent + 1, Upgraded')
        /\ Len(Stream \o w) = Len(Stream) + Len(w)
    <3>1. Script(Stream, Len(Stream), lf, parser.cur, 0, Sent, FALSE)
      BY <2>2, <2>5
    <3> QED BY <1>0, <1>2, <1>4, <3>1, ScriptGrow
  <2>7. Script(Stream', Ahead', lf, parser'.cur, Fresh', Sent', Upgraded')
    BY <1>1, <1>3, <1>4, <1>6, <1>9, <1>10, <1>13, <2>5, <2>6
  <2>8. Len(Stream') >= Ahead' + Fresh'
    BY <1>0, <1>4, <1>6, <1>9, <1>10, <1>13, <2>5, <2>6
  <2>9. parser'.st = "ready" => \A i \in 1..Len(parser'.data) : parser'.data[i].t # "H"
    BY <1>0, <1>3 DEF Scripted
  <2> QED BY <1>3, <1>8, <1>10, <1>13, <2>1, <2>7, <2>8, <2>9 DEF Scripted, CurKept, lf
<1> QED BY <1>12, <1>13

LEMMA SendWsScripted ==
  ASSUME IInv, TurnInv, ClientSendWs, req.protocol = "HTTP"
  PROVE  Scripted'
<1>0. /\ TypeOK /\ Scripted /\ Stream \in Bytes /\ Ahead \in Nat /\ Fresh \in Nat
  BY StreamTypes, AheadFresh DEF IInv, TurnInv
<1> DEFINE e == Token("W", client.ws + 1)
           lf == parser.st # "body"
<1>1. client \in Client /\ client.ws \in 0..MaxWs /\ MaxWs \in Nat
  BY <1>0, Types, ConstantsAssumption DEF Client
<1>2. client'.net = Append(client.net, e) /\ ShapesKept
  BY <1>1 DEF ClientSendWs, Client, ShapesKept
<1>3. e \in AnyToken /\ e.t = "W"
  BY <1>1 DEF AnyToken, Token
<1> HIDE DEF e
<1>4. client'.net = client.net \o <<e>> /\ <<e>> \in Bytes
  <2>1. client.net \in Seq(AnyToken)
    BY <1>0, StreamTypes DEF Bytes
  <2>2. Append(client.net, e) = client.net \o <<e>>
    BY <1>3, <2>1, AppendIsConcat
  <2>3. <<e>> \in Seq(AnyToken)
    BY <1>3
  <2> QED BY <1>2, <2>2, <2>3 DEF Bytes
<1>5. req' = req /\ parser' = parser
  BY DEF ClientSendWs
<1>6. PosKept
  BY <1>5 DEF PosKept
<1>7. /\ CurKept /\ Sent' = Sent /\ Cur' = Cur /\ Ahead' = Ahead /\ Fresh' = Fresh
      /\ Upgraded' = Upgraded
  BY <1>0, <1>2, <1>6, SameShapesFrame
<1>8. Upgraded
  <2>1. DOMAIN client.shape = 1..Len(client.shape)
    BY <1>0, Types, LenProperties
  <2> QED BY <2>1 DEF ClientSendWs, Upgraded
<1>9. Alive' = Alive /\ (Alive => Stream' = Stream \o <<e>>) /\ (~Alive => Stream' = Stream)
  BY <1>0, <1>4, <1>5, StreamGrows
<1>10. CASE ~Alive
  BY <1>0, <1>5, <1>7, <1>9, <1>10 DEF Scripted, CurKept
<1>11. CASE Alive
  <2>1. Stream' = Append(Stream, e)
    BY <1>0, <1>3, <1>9, <1>11, AppendIsConcat DEF Bytes
  <2>2. Len(Stream) \in Nat /\ Len(Append(Stream, e)) = Len(Stream) + 1
    BY <1>0, <1>3, AppendProperties, LenProperties DEF Bytes
  <2>3. Len(Stream) >= Ahead + Fresh
    BY <1>0, <1>11 DEF Scripted
  <2>4. Leftover \/ Script(Append(Stream, e), Ahead, lf, parser.cur, Fresh, Sent, Upgraded)
    <3>1. CASE Leftover
      BY <3>1
    <3>2. CASE Script(Stream, Ahead, lf, parser.cur, Fresh, Sent, Upgraded)
      <4> HIDE DEF lf
      <4> QED BY <1>0, <1>3, <1>8, <2>3, <3>2, ScriptGrowWs
    <3> QED BY <1>0, <3>1, <3>2 DEF Scripted
  <2>5. Len(Stream') >= Ahead' + Fresh'
    BY <1>0, <1>7, <2>1, <2>2, <2>3
  <2> QED BY <1>0, <1>5, <1>7, <1>9, <1>11, <2>1, <2>4, <2>5 DEF Scripted, CurKept
<1> QED BY <1>10, <1>11

\* The LF or a piece of the body is taken.
LEMMA ConsumeEffects ==
  ASSUME TypeOK, Flags, ParseHeadersDone \/ ParseBody
  PROVE  /\ parser.st \in {"ready", "body"} /\ parser.cur # 0 /\ Cur.body \in Nat
         /\ parser.exec = "run" /\ parser.data # <<>> /\ ~parser.errno
         /\ parser'.data = Tail(parser.data) /\ parser'.errno = parser.errno
         /\ parser'.cur = parser.cur /\ parser'.status = parser.status
         /\ client' = client /\ req' = req /\ bgq' = bgq /\ resp' = resp /\ app' = app /\ wire' = wire
         /\ Ahead > 0 /\ parser'.exec \in {"run", "return"}
         /\ \/ /\ parser'.st = "body" /\ parser'.need = Ahead - 1 /\ parser'.need > 0
               /\ parser.status = 0 /\ Cur.upgrade = "no" /\ parser'.exec = "run"
            \/ /\ parser'.st = NewMessage /\ Ahead = 1
               /\ parser'.exec = "run" => parser.status = 0 /\ Cur.upgrade = "no"
            \/ /\ parser'.st = NewMessage /\ parser.st = "ready" /\ parser.status = 3 /\ Cur.body > 0
               /\ parser'.exec = "return"
<1>0. /\ parser \in Parser /\ parser.need \in Nat
      /\ \A k \in 1..Sent : client.shape[k].body \in Nat /\ (client.shape[k].upgrade # "no" => client.shape[k].body = 0)
      /\ parser.cur # 0 => parser.cur \in 1..Sent
      /\ parser.st # "start" => parser.cur # 0
  BY Types, CurTypes
<1>1. /\ parser.st \in {"ready", "body"} /\ parser.exec = "run" /\ parser.data # <<>> /\ ~parser.errno
      /\ client' = client /\ req' = req /\ bgq' = bgq /\ resp' = resp /\ app' = app /\ wire' = wire
  BY DEF ParseHeadersDone, ParseBody, Executing
<1>2. parser.cur # 0 /\ Cur.body \in Nat /\ (Cur.upgrade # "no" => Cur.body = 0)
  BY <1>0, <1>1 DEF Cur
<1>3. CASE ParseHeadersDone
  <2>1. parser.st = "ready"
    BY <1>3 DEF ParseHeadersDone, Executing
  <2>2. Ahead = 1 + Cur.body
    BY <2>1 DEF Ahead
  <2>3. /\ parser'.data = Tail(parser.data) /\ parser'.errno = parser.errno
        /\ parser'.cur = parser.cur /\ parser'.status = parser.status
        /\ \/ parser.status = 3 /\ parser'.st = NewMessage /\ parser'.exec = "return"
           \/ parser.status = 0 /\ Cur.upgrade # "no" /\ parser'.st = NewMessage /\ parser'.exec = "return"
           \/ /\ parser.status = 0 /\ Cur.upgrade = "no" /\ Cur.body = 0 /\ parser'.st = NewMessage
              /\ parser'.exec = parser.exec
           \/ /\ parser.status = 0 /\ Cur.upgrade = "no" /\ Cur.body > 0 /\ parser'.st = "body"
              /\ parser'.need = Cur.body /\ parser'.exec = parser.exec
    BY <1>0, <1>3 DEF ParseHeadersDone, Parser
  <2> QED BY <1>1, <1>2, <2>1, <2>2, <2>3
<1>4. CASE ParseBody
  <2>1. parser.st = "body"
    BY <1>4 DEF ParseBody, Executing
  <2>2. Ahead = parser.need /\ parser.need > 0 /\ Cur.upgrade = "no" /\ parser.status = 0
    BY <2>1 DEF Ahead, Flags
  <2>3. /\ parser'.data = Tail(parser.data) /\ parser'.errno = parser.errno
        /\ parser'.cur = parser.cur /\ parser'.status = parser.status /\ parser'.exec = parser.exec
        /\ \/ parser.need > 1 /\ parser'.st = parser.st /\ parser'.need = parser.need - 1
           \/ parser.need = 1 /\ parser'.st = NewMessage
    BY <1>0, <1>4 DEF ParseBody, Parser
  <2> QED BY <1>0, <1>1, <1>2, <2>1, <2>2, <2>3
<1> QED BY <1>3, <1>4

LEMMA ConsumeScripted ==
  ASSUME IInv, TurnInv, ParseHeadersDone \/ ParseBody, StreamTail, req.protocol = "HTTP"
  PROVE  Scripted'
<1>0. /\ TypeOK /\ Scripted /\ Flags /\ Stream \in Bytes /\ Ahead \in Nat /\ Fresh \in Nat
  BY StreamTypes, AheadFresh DEF IInv, TurnInv
<1>1. /\ parser.st \in {"ready", "body"} /\ parser.cur # 0 /\ Cur.body \in Nat
      /\ parser.data # <<>>
      /\ parser'.data = Tail(parser.data)
      /\ parser'.cur = parser.cur /\ parser'.status = parser.status
      /\ client' = client /\ req' = req /\ Ahead > 0
      /\ \/ /\ parser'.st = "body" /\ parser'.need = Ahead - 1
         \/ /\ parser'.st = NewMessage /\ Ahead = 1
            /\ parser'.exec = "run" => parser.status = 0
         \/ /\ parser'.st = NewMessage /\ parser.status = 3 /\ Cur.body > 0
            /\ parser'.exec = "return"
  BY <1>0, ConsumeEffects
<1>2. /\ Stream # <<>> /\ Prefix(Stream', Tail(Stream)) /\ (Alive' => Alive /\ Stream' = Tail(Stream))
  BY DEF StreamTail
<1>3. /\ Sent' = Sent /\ Cur' = Cur /\ Fresh' = Fresh /\ Upgraded' = Upgraded /\ Alive' = Alive
  <2>1. Sent' = Sent /\ Cur' = Cur
    BY <1>1 DEF Sent, Cur
  <2>2. Fresh' = Fresh
    BY <1>1, <2>1, Zenon DEF Fresh
  <2>3. Upgraded' = Upgraded /\ Alive' = Alive
    BY <1>1, Zenon DEF Upgraded, Alive
  <2> QED BY <2>1, <2>2, <2>3
<1>4. ~Leftover
  BY <1>1 DEF Leftover, Ended
<1> DEFINE lf == parser.st # "body"
           T == Tail(Stream)
<1>5. Script(Stream, Ahead, lf, parser.cur, Fresh, Sent, Upgraded)
  BY <1>0, <1>4 DEF Scripted
<1>6. T \in Bytes /\ Len(T) = Len(Stream) - 1 /\ Len(Stream) \in Nat
  <2>1. Stream \in Seq(AnyToken)
    BY <1>0 DEF Bytes
  <2> QED BY <1>2, <2>1, TailRange DEF Bytes
<1>7. lf \in BOOLEAN
  OBVIOUS
<1> HIDE DEF lf
<1>8. /\ Script(T, Ahead - 1, FALSE, parser.cur, Fresh, Sent, Upgraded)
      /\ Ahead = 1 => Script(T, 0, TRUE, parser.cur, Fresh, Sent, Upgraded)
  BY <1>0, <1>1, <1>2, <1>5, <1>7, ScriptTail
<1> HIDE DEF T
<1>9. Prefix(Stream', T) /\ Ahead - 1 \in Nat
  BY <1>0, <1>1, <1>2 DEF T
<1>10. /\ Script(Stream', Ahead - 1, FALSE, parser.cur, Fresh, Sent, Upgraded)
       /\ Ahead = 1 => Script(Stream', 0, TRUE, parser.cur, Fresh, Sent, Upgraded)
  BY <1>0, <1>6, <1>8, <1>9, ScriptPrefix
<1>11. Alive' => Alive /\ Len(Stream') = Len(Stream) - 1 /\ Len(Stream) >= Ahead + Fresh
  BY <1>0, <1>2, <1>6 DEF Scripted, T
<1>12. ~Alive' => NoHead(parser'.data)
  <2> SUFFICES ASSUME ~Alive, NEW i \in 1..Len(Tail(parser.data)) PROVE Tail(parser.data)[i].t # "H"
    BY <1>1, <1>3 DEF NoHead
  <2>1. parser.data \in Seq(AnyToken)
    BY <1>0, StreamTypes DEF Bytes
  <2>2. Len(parser.data) \in Nat \ {0} /\ Len(Tail(parser.data)) = Len(parser.data) - 1
        /\ \A j \in 1..(Len(parser.data) - 1) : Tail(parser.data)[j] = parser.data[j + 1]
    BY <1>1, <2>1, TailRange
  <2>3. i + 1 \in 1..Len(parser.data) /\ Tail(parser.data)[i] = parser.data[i + 1]
    BY <2>2
  <2> QED BY <1>0, <2>3 DEF Scripted
<1>13. NewMessage \in {"start", "dead"}
  BY DEF NewMessage
<1>14. CASE parser'.st = "body" /\ parser'.need = Ahead - 1
  <2>1. Ahead' = Ahead - 1
    BY <1>14 DEF Ahead
  <2>2. ~Leftover'
    BY <1>14 DEF Leftover, Ended
  <2>3. (parser'.st # "body") = FALSE
    BY <1>14
  <2>4. Script(Stream', Ahead', parser'.st # "body", parser'.cur, Fresh', Sent', Upgraded')
    BY <1>1, <1>3, <1>10, <2>1, <2>3
  <2>5. Alive' => Len(Stream') >= Ahead' + Fresh'
    BY <1>0, <1>3, <1>6, <1>11, <2>1
  <2> QED BY <1>12, <1>14, <2>2, <2>4, <2>5 DEF Scripted, NoHead
<1>15. CASE parser'.st = NewMessage /\ Ahead = 1 /\ (parser'.exec = "run" => parser.status = 0)
  <2>1. Ahead' = 0 /\ (parser'.st # "body") = TRUE /\ parser'.st # "ready"
    BY <1>13, <1>15 DEF Ahead
  <2>2. Leftover' => parser'.exec # "run"
    BY <1>1, <1>15 DEF Leftover
  <2>4. Script(Stream', Ahead', parser'.st # "body", parser'.cur, Fresh', Sent', Upgraded')
    BY <1>1, <1>3, <1>10, <1>15, <2>1
  <2>5. Alive' => Len(Stream') >= Ahead' + Fresh'
    BY <1>0, <1>3, <1>6, <1>11, <1>15, <2>1
  <2> QED BY <1>12, <2>1, <2>2, <2>4, <2>5 DEF Scripted, NoHead
<1>16. CASE parser'.st = NewMessage /\ parser.status = 3 /\ Cur.body > 0 /\ parser'.exec = "return"
  <2>1. Ahead' = 0 /\ parser'.st # "ready"
    BY <1>13, <1>16 DEF Ahead
  <2>2. Leftover'
    BY <1>1, <1>3, <1>13, <1>16 DEF Leftover, Ended
  <2>5. Alive' => Len(Stream') >= Ahead' + Fresh'
    BY <1>0, <1>1, <1>3, <1>6, <1>11, <2>1
  <2> QED BY <1>12, <1>16, <2>1, <2>2, <2>5 DEF Scripted, NoHead
<1> QED BY <1>1, <1>14, <1>15, <1>16

LEMMA BeginScripted ==
  ASSUME IInv, Written, TurnInv, AnswerInv, ParseMessageBegin, StreamTail
  PROVE  Scripted'
<1>0. /\ TypeOK /\ Stream \in Bytes /\ Fresh \in Nat /\ Sent \in Nat
  BY StreamTypes, AheadFresh, CurTypes DEF IInv, TurnInv
<1>1. /\ Sent = parser.cur + 1 /\ parser'.cur = Sent /\ Alive
      /\ Fresh = 2 + client.shape[Sent].body
      /\ Script(Tail(Stream), Fresh - 1, TRUE, Sent, 0, Sent, Upgraded)
      /\ parser'.st = "headers" /\ parser'.data = Tail(parser.data) /\ client' = client
      /\ parser.data # <<>> /\ parser.st = "start" /\ req.protocol = "HTTP"
  BY <1>0, HeadFacts, BeginEffects
<1>2. /\ Stream # <<>> /\ Prefix(Stream', Tail(Stream)) /\ (Alive' => Alive /\ Stream' = Tail(Stream))
  BY DEF StreamTail
<1>3. Sent' = Sent /\ Cur' = client.shape[Sent] /\ Upgraded' = Upgraded
  BY <1>1 DEF Sent, Cur, Upgraded
<1>4. client.shape[Sent].body \in Nat
  BY <1>0, <1>1, CurTypes
<1>5. Ahead' = Fresh - 1 /\ Fresh' = 0 /\ Fresh - 1 \in Nat /\ Fresh > 0
  <2>1. Ahead' = 1 + client.shape[Sent].body
    BY <1>1, <1>3 DEF Ahead
  <2>2. ~(Sent' > parser'.cur)
    BY <1>0, <1>1, <1>3
  <2>3. Fresh' = 0
    BY <2>2 DEF Fresh
  <2> DEFINE b == client.shape[Sent].body
  <2>4. Fresh = 2 + b /\ b \in Nat /\ Ahead' = 1 + b
    BY <1>1, <1>4, <2>1, Zenon
  <2> HIDE DEF b
  <2>5. Ahead' = Fresh - 1 /\ Fresh - 1 \in Nat /\ Fresh > 0
    BY <2>4
  <2> QED BY <2>3, <2>5
<1> DEFINE T == Tail(Stream)
<1>6. T \in Bytes /\ Len(T) = Len(Stream) - 1 /\ Len(Stream) \in Nat /\ \A i \in 1..Len(T) : T[i] = Stream[i + 1]
  <2>1. Stream \in Seq(AnyToken)
    BY <1>0 DEF Bytes
  <2> QED BY <1>2, <2>1, TailRange DEF Bytes
<1> HIDE DEF T
<1>7. Script(Stream', Fresh - 1, TRUE, Sent, 0, Sent, Upgraded)
  BY <1>1, <1>2, <1>5, <1>6, ScriptPrefix DEF T
<1>8. Script(Stream', Ahead', parser'.st # "body", parser'.cur, Fresh', Sent', Upgraded')
  <2>1. (parser'.st # "body") = TRUE
    BY <1>1
  <2> QED BY <1>1, <1>3, <1>5, <1>7, <2>1
<1>9. Alive' => Len(Stream') >= Ahead' + Fresh'
  <2>1. Len(Stream) >= Ahead + Fresh /\ Ahead \in Nat
    BY <1>0, <1>1, AheadFresh DEF TurnInv, Scripted
  <2>2. Alive' => Len(Stream') = Len(Stream) - 1
    BY <1>2, <1>6 DEF T
  <2> QED BY <1>0, <1>5, <1>6, <2>1, <2>2
<1>10. NoHead(parser'.data)
  <2>1. \A i \in 1..Len(T) : T[i].t # "H"
    BY <1>1, <1>5, <1>6, ScriptNoHead DEF T
  <2> DEFINE a == parser.data
             t == Tail(a)
             b == IF Alive THEN client.net ELSE <<>>
  <2>2. a \in Bytes /\ b \in Bytes /\ a # <<>>
    BY <1>0, <1>1, StreamTypes
  <2>3. req.requestBuffer = <<>>
    BY <1>1 DEF IInv, InStep
  <2>4. <<>> \o a = a
    <3> HIDE DEF a
    <3> QED BY <2>2, ConcatEmptySeq DEF Bytes
  <2>5. Stream = a \o b
    BY <2>3, <2>4 DEF Stream
  <2> HIDE DEF a, b
  <2>6. Tail(a \o b) = t \o b /\ t \in Bytes
    BY <2>2, TailOfConcat
  <2> HIDE DEF t
  <2>7. T = t \o b
    BY <2>5, <2>6 DEF T
  <2>8. Len(t) \in Nat /\ Len(b) \in Nat /\ Len(t \o b) = Len(t) + Len(b) /\ \A i \in 1..Len(t) : (t \o b)[i] = t[i]
    BY <2>2, <2>6, ConcatTypes DEF Bytes
  <2>9. \A i \in 1..Len(t) : i \in 1..Len(T) /\ t[i] = T[i]
    BY <2>7, <2>8
  <2>10. NoHead(t)
    BY <2>1, <2>9 DEF NoHead
  <2> QED BY <1>1, <2>10 DEF t, a
<1>11. ~Leftover'
  BY <1>1 DEF Leftover, Ended
<1> QED BY <1>8, <1>9, <1>10, <1>11 DEF Scripted, NoHead

\* The steps that leave the bytes alone.
StillSteps ==
  \/ ClientLeaves \/ OnReadError \/ ServerStops
  \/ BodyError \/ MessageCompleteComplete \/ ScheduledClose \/ ScheduledWsRead
  \/ WriteOut \/ WriteFails \/ OnResponseWritten \/ OnChunkWritten \/ OnClosed
  \/ InitializeEnv \/ CallOnHeaders \/ CallOnBodyData \/ CallGetResponse
  \/ CallWsOpen \/ CallWsMessage \/ CallWsClose
  \/ PromiseResolves \/ UNCHANGED vars

LEMMA StillParser ==
  ASSUME TypeOK, StillSteps
  PROVE  parser' = parser \/ (BodyError /\ parser'.exec = parser.exec /\ parser'.errno)
<1>0. parser \in Parser
  BY Types
<1>1. CASE BodyError
  BY <1>0, <1>1 DEF BodyError, Parser
<1>2. CASE \/ ClientLeaves \/ OnReadError \/ ServerStops
           \/ MessageCompleteComplete \/ ScheduledClose \/ ScheduledWsRead
           \/ WriteOut \/ WriteFails \/ OnResponseWritten \/ OnChunkWritten \/ OnClosed
           \/ InitializeEnv \/ CallOnHeaders \/ CallOnBodyData \/ CallGetResponse
           \/ CallWsOpen \/ CallWsMessage \/ CallWsClose
           \/ PromiseResolves \/ UNCHANGED vars
  BY <1>2, ZenonT(40) DEF ClientLeaves, OnReadError, ServerStops,
                    MessageCompleteComplete, ScheduledClose, ScheduledWsRead, WriteOut, WriteFails,
                    OnResponseWritten, OnChunkWritten, OnClosed, PromiseResolves, vars,
                    InitializeEnv, CallOnHeaders, CallOnBodyData, CallGetResponse,
                    CallWsOpen, CallWsMessage, CallWsClose
<1> QED BY <1>1, <1>2, Zenon DEF StillSteps

\* Only these steps wake the parser or put it to sleep.
LEMMA StepKinds ==
  ASSUME [Next]_vars
  PROVE  \/ StillSteps \/ PassRequestBuffer
         \/ ParseMessageBegin \/ ParseHeadersComplete \/ ParseHeadersDone \/ ParseBody
         \/ ParseWaiting \/ ParseRefuses \/ OnRead
         \/ KeepForLater \/ UpgradeConnection \/ ParseDone \/ HeadersCompleteComplete
         \/ ClientSendWs \/ \E s \in Shapes : ClientSend(s)
BY ZenonT(40) DEF Next, ClientStep, Parse, FlushTask, WriteCallback, MainTask, StillSteps

LEMMA StillBytes ==
  ASSUME TypeOK, HandedOver, StillSteps \/ ParseWaiting \/ ParseRefuses \/ ParseHeadersComplete
  PROVE  /\ BytesKept /\ req'.protocol = req.protocol
         /\ Alive' => Alive
         /\ Alive' = Alive \/ parser.data = <<>>
<1>1. \/ ClientLeaves \/ OnReadError \/ ServerStops
      \/ BodyError \/ MessageCompleteComplete \/ ScheduledClose \/ ScheduledWsRead
      \/ WriteOut \/ WriteFails \/ OnResponseWritten \/ OnChunkWritten \/ OnClosed
      \/ InitializeEnv \/ CallOnHeaders \/ CallOnBodyData \/ CallGetResponse
      \/ CallWsOpen \/ CallWsMessage \/ CallWsClose
      \/ ParseWaiting \/ ParseRefuses \/ ParseHeadersComplete
      \/ PromiseResolves \/ UNCHANGED vars
  BY Zenon DEF StillSteps
<1> QED BY <1>1, BytesStep

LEMMA ReadEffects ==
  ASSUME TypeOK, HandedOver, OnRead
  PROVE  /\ req' = req /\ PosKept /\ parser.exec = "no" /\ parser.data = <<>> /\ Alive' = Alive
         /\ parser'.errno = parser.errno
         /\ parser' = parser \/ (Alive /\ parser'.exec = "run")
         /\ wire' = wire /\ bgq' = bgq /\ resp' = resp /\ outq' = outq /\ app' = app
<1>0. parser \in Parser
  BY Types
<1>1. /\ req' = req /\ parser.exec = "no" /\ req.reading
      /\ wire' = wire /\ bgq' = bgq /\ resp' = resp /\ outq' = outq /\ app' = app
  BY DEF OnRead, BgIdle
<1>2. parser' = parser \/ (~req.ignoreNewData /\ \E d : parser' = Execute(parser, d))
  BY DEF OnRead
<1>3. ASSUME NEW d, parser' = Execute(parser, d)
      PROVE  PosKept /\ parser'.errno = parser.errno /\ parser'.exec = "run"
  BY <1>0, <1>3 DEF Execute, Parser, PosKept
<1>4. PosKept /\ parser'.errno = parser.errno /\ (parser' = parser \/ parser'.exec = "run")
  BY <1>2, <1>3 DEF PosKept
<1>5. Alive' = Alive
  BY <1>1 DEF Alive
<1> QED BY <1>1, <1>2, <1>3, <1>4, <1>5 DEF HandedOver, Alive

LEMMA AfterEffects ==
  ASSUME TypeOK, KeepForLater \/ UpgradeConnection \/ ParseDone
  PROVE  PosKept /\ parser'.exec = "no" /\ parser'.data = <<>> /\ parser'.errno = parser.errno
         /\ ExecuteReturns
<1>0. parser \in Parser
  BY Types
<1>1. parser' = AfterExecute /\ ExecuteReturns
  BY DEF KeepForLater, UpgradeConnection, ParseDone
<1> QED BY <1>0, <1>1 DEF AfterExecute, Parser, PosKept

\* Bytes that are read on a connection that is alive are of no use to a request
\* that was answered from its headers.
LEMMA AliveNotLeftover ==
  ASSUME TypeOK, Flags, ~req.ignoreNewData
  PROVE  ~Leftover
<1> SUFFICES ASSUME Leftover PROVE FALSE
  OBVIOUS
<1>1. parser.cur # 0 /\ Cur.body > 0 /\ ~Cur.length
  BY DEF Leftover, Flags, Ended
<1>2. client.shape[parser.cur].body > 0 => client.shape[parser.cur].length
  BY <1>1, CurTypes
<1> QED BY <1>1, <1>2 DEF Cur

LEMMA ResumeEffects ==
  ASSUME TypeOK, HandedOver, Waits, InStep, HeadersCompleteComplete
  PROVE  /\ parser.st = "wait" /\ parser'.st = "ready" /\ parser'.cur = parser.cur /\ parser.cur # 0
         /\ parser.exec = "no" /\ parser'.exec = "run" /\ parser'.data = req.requestBuffer
         /\ parser.data = <<>> /\ req.requestBuffer # <<>> /\ req.protocol = "HTTP"
         /\ parser'.errno = parser.errno /\ req'.isUpgrade = req.isUpgrade
         /\ req'.protocol = req.protocol /\ req'.responseScheduled = req.responseScheduled
         /\ parser'.status = (IF Head(bgq).r # 0 THEN 3 ELSE 0)
         /\ Head(bgq).r # 0 /\ ~req'.ignoreNewData => Cur.keep /\ ~Cur.length
         /\ client' = client /\ later' = later /\ app' = app /\ wire' = wire /\ bgq' = Tail(bgq)
         /\ bgq # <<>> /\ Head(bgq).op = "headersDone"
<1>0. req \in Request /\ parser \in Parser /\ RequestCompleted(req) \in Request
  BY Types, RequestTypes
<1>1. /\ bgq # <<>> /\ bgq[1].op = "headersDone" /\ 1 \in 1..Len(bgq) /\ parser.exec = "no"
      /\ Head(bgq).op = "headersDone" /\ bgq' = Tail(bgq)
  BY BgFront DEF HeadersCompleteComplete, Flush, BgIdle
<1>2. parser.st = "wait" /\ parser.data = <<>> /\ parser.cur # 0
  BY <1>1, CurTypes DEF HandedOver, Waits
<1>3. /\ parser'.st = "ready" /\ parser'.cur = parser.cur /\ parser'.exec = "run"
      /\ parser'.data = req.requestBuffer /\ parser'.errno = parser.errno
      /\ parser'.status = (IF Head(bgq).r # 0 THEN 3 ELSE 0)
      /\ client' = client /\ later' = later /\ app' = app /\ wire' = wire
  BY <1>0 DEF HeadersCompleteComplete, Execute, Parser
<1>4. req.protocol = "HTTP"
  <2>1. req.protocol \in {"HTTP", "WebSockets"}
    BY RequestTypes, Types
  <2> QED BY <1>2, <2>1 DEF HandedOver
<1>5. req.requestBuffer # <<>>
  <2>1. req.requestBuffer \o <<>> # <<>>
    BY <1>2, <1>4 DEF InStep
  <2>2. <<>> \o <<>> = <<>>
    BY ConcatEmptySeq, EmptySeq
  <2> QED BY <2>1, <2>2
<1> DEFINE c == RequestCompleted(req)
<1>6. c.isUpgrade = req.isUpgrade /\ c.protocol = req.protocol /\ c.responseScheduled = req.responseScheduled
      /\ c \in Request
  BY <1>0 DEF RequestCompleted, Request
<1>7. \/ Head(bgq).r # 0 /\ (Cur.length \/ ~Cur.keep) /\ req' = [StopReading(c) EXCEPT !.requestBuffer = <<>>]
      \/ Head(bgq).r # 0 /\ ~(Cur.length \/ ~Cur.keep) /\ req' = [c EXCEPT !.requestBuffer = <<>>]
      \/ Head(bgq).r = 0 /\ req' = [c EXCEPT !.requestBuffer = <<>>]
      \/ Head(bgq).r = 0 /\ req' = [req EXCEPT !.requestBuffer = <<>>]
  BY DEF HeadersCompleteComplete
<1> HIDE DEF c
<1>8. /\ req'.isUpgrade = req.isUpgrade /\ req'.protocol = req.protocol
      /\ req'.responseScheduled = req.responseScheduled
      /\ Head(bgq).r # 0 /\ ~req'.ignoreNewData => Cur.keep /\ ~Cur.length
  BY <1>0, <1>6, <1>7 DEF StopReading, Request
<1> QED BY <1>1, <1>2, <1>3, <1>4, <1>5, <1>8

\* No head is among the bytes that were kept while the parser waited.
LEMMA ResumeScripted ==
  ASSUME IInv, Written, TurnInv, AnswerInv, HeadersCompleteComplete, StreamCut
  PROVE  Scripted'
<1>0. TypeOK /\ HandedOver /\ Waits /\ InStep /\ InTurn /\ Scripted /\ Flags /\ OneAnswer
  BY DEF IInv, TurnInv, AnswerInv
<1>1. /\ parser.st = "wait" /\ parser'.st = "ready" /\ parser'.cur = parser.cur
      /\ parser'.data = req.requestBuffer /\ parser.data = <<>> /\ req.protocol = "HTTP"
      /\ client' = client
  BY <1>0, ResumeEffects
<1>2. /\ Sent' = Sent /\ Cur' = Cur /\ Upgraded' = Upgraded
  BY <1>1 DEF Sent, Cur, Upgraded
<1>3. Fresh' = Fresh
  BY <1>1, <1>2, Zenon DEF Fresh
<1>4. Ahead' = Ahead
  BY <1>1, <1>2 DEF Ahead
<1>5. ~Leftover /\ ~Leftover'
  BY <1>1 DEF Leftover, Ended
<1>6. Fresh = 0 /\ Stream \in Bytes /\ Ahead \in Nat
  BY <1>0, <1>1, WaitFacts, StreamTypes, AheadFresh
<1>7. Script(Stream, Ahead, TRUE, parser.cur, 0, Sent, Upgraded)
  <2>1. (parser.st # "body") = TRUE
    BY <1>1
  <2> QED BY <1>0, <1>1, <1>5, <1>6, <2>1 DEF Scripted
<1>8. \A i \in 1..Len(Stream) : Stream[i].t # "H"
  BY <1>6, <1>7, ScriptNoHead
<1>9. NoHead(parser'.data)
  <2> DEFINE a == req.requestBuffer
             b == IF Alive THEN client.net ELSE <<>>
  <2>1. a \in Bytes /\ b \in Bytes
    BY <1>0, StreamTypes
  <2>2. a \o <<>> = a
    BY <2>1, ConcatEmptySeq DEF Bytes
  <2>3. Stream = a \o b
    BY <1>1, <2>2 DEF Stream
  <2> HIDE DEF a, b
  <2>4. Len(a) \in Nat /\ Len(b) \in Nat /\ Len(a \o b) = Len(a) + Len(b) /\ \A i \in 1..Len(a) : (a \o b)[i] = a[i]
    BY <2>1, ConcatTypes DEF Bytes
  <2>5. \A i \in 1..Len(a) : i \in 1..Len(Stream) /\ a[i] = Stream[i]
    BY <2>3, <2>4
  <2> QED BY <1>1, <1>8, <2>5 DEF NoHead, a
<1> QED BY <1>0, <1>1, <1>2, <1>3, <1>4, <1>5, <1>9, ScriptedFrame

LEMMA ScriptedStep ==
  ASSUME IInv, Written, Patient, TurnInv, AnswerInv, IInv', [Next]_vars, Patient', InTurn'
  PROVE  Scripted'
<1> SUFFICES ASSUME req'.protocol = "HTTP" PROVE Scripted'
  BY DEF Scripted
<1>0. TypeOK /\ HandedOver /\ Waits /\ InStep /\ InTurn /\ Scripted /\ Flags /\ OneAnswer /\ parser \in Parser
  BY Types DEF IInv, TurnInv, AnswerInv
<1>1. /\ req.protocol = "HTTP"
      /\ \/ StreamCut
         \/ (ParseMessageBegin \/ ParseHeadersDone \/ ParseBody) /\ StreamTail
         \/ ClientSendWs \/ \E s \in Shapes : ClientSend(s)
  BY StreamStep
<1>2. CASE ClientSendWs
  BY <1>1, <1>2, SendWsScripted
<1>3. CASE \E s \in Shapes : ClientSend(s)
  BY <1>1, <1>3, SendScripted
<1>4. CASE (ParseMessageBegin \/ ParseHeadersDone \/ ParseBody) /\ StreamTail
  BY <1>1, <1>4, BeginScripted, ConsumeScripted
<1>5. CASE StreamCut
  <2>1. ASSUME PosKept, ShapesKept,
               ~Alive' \/ parser.st = "ready" => NoHead(parser'.data),
               Leftover => parser'.exec # "run" \/ parser'.data = <<>>
        PROVE  Scripted'
    <3>1. /\ CurKept /\ Sent' = Sent /\ Ahead' = Ahead /\ Fresh' = Fresh /\ Upgraded' = Upgraded
      BY <1>0, <2>1, SameShapesFrame
    <3>2. Leftover' = Leftover
      BY <3>1 DEF CurKept
    <3>3. parser'.st = parser.st /\ parser'.cur = parser.cur
      BY <2>1 DEF PosKept
    <3> QED BY <1>0, <1>1, <1>5, <2>1, <3>1, <3>2, <3>3, ScriptedFrame
  <2>2. CASE StillSteps
    <3>1. BytesKept /\ (Alive' = Alive \/ parser.data = <<>>)
      BY <1>0, <2>2, StillBytes
    <3>2. parser'.data = parser.data /\ parser'.exec = parser.exec
      BY <1>0, <2>2, <3>1, StillParser DEF BytesKept
    <3>3. ShapesKept \/ \E s \in Shapes : ClientSend(s)
      BY <1>0, ShapeStep
    <3>4. \/ PosKept
          \/ ParseMessageBegin \/ ParseHeadersComplete \/ ParseHeadersDone \/ ParseBody
          \/ HeadersCompleteComplete
      BY <1>0, PosStep
    <3>5. PosKept
      <4>0. parser' = parser \/ BodyError
        BY <1>0, <2>2, StillParser
      <4>1. CASE parser' = parser
        BY <4>1 DEF PosKept
      <4>2. CASE BodyError
        BY <1>0, <4>2 DEF BodyError, PosKept, Parser
      <4> QED BY <4>0, <4>1, <4>2
    <3>6. Len(<<>>) = 0
      BY EmptySeq
    <3>7. ~Alive' \/ parser.st = "ready" => NoHead(parser'.data)
      <4>1. CASE parser.data = <<>>
        BY <3>2, <3>6, <4>1 DEF NoHead
      <4>2. CASE Alive' = Alive
        BY <1>0, <1>1, <3>2, <4>2 DEF NoHead, Scripted
      <4> QED BY <3>1, <4>1, <4>2
    <3>8. Leftover => parser'.exec # "run" \/ parser'.data = <<>>
      BY <1>0, <1>1, <3>2 DEF Scripted
    <3> QED BY <1>3, <2>1, <3>3, <3>5, <3>7, <3>8
  <2>3. CASE ParseWaiting \/ ParseRefuses
    <3>1. BytesKept /\ (Alive' = Alive \/ parser.data = <<>>)
      BY <1>0, <2>3, StillBytes
    <3>2. parser'.exec = "return" /\ PosKept /\ req' = req /\ client' = client
      BY <1>0, <2>3 DEF ParseWaiting, ParseRefuses, PosKept, Parser
    <3>3. ShapesKept
      BY <3>2 DEF ShapesKept
    <3>4. Alive' = Alive
      BY <3>2 DEF Alive
    <3>5. ~Alive' \/ parser.st = "ready" => NoHead(parser'.data)
      BY <1>0, <1>1, <3>1, <3>4 DEF NoHead, Scripted, BytesKept
    <3> QED BY <2>1, <3>2, <3>3, <3>5
  <2>4. CASE ParseHeadersComplete
    <3>1. /\ parser.st = "headers" /\ parser'.st = "wait" /\ parser'.cur = parser.cur
          /\ parser'.data = parser.data /\ client' = client
      BY <1>0, <2>4 DEF ParseHeadersComplete, Executing, Parser
    <3>2. Alive' = Alive
      BY <1>0, <2>4, ReqOther DEF Alive
    <3>3. /\ Sent' = Sent /\ Cur' = Cur /\ Upgraded' = Upgraded
      BY <3>1 DEF Sent, Cur, Upgraded
    <3>4. Fresh' = Fresh
      BY <3>1, <3>3, Zenon DEF Fresh
    <3>5. Ahead' = Ahead
      BY <3>1, <3>3 DEF Ahead
    <3>6. ~Leftover /\ ~Leftover'
      BY <3>1 DEF Leftover, Ended
    <3>7. ~Alive' \/ parser'.st = "ready" => NoHead(parser'.data)
      BY <1>0, <1>1, <3>1, <3>2 DEF NoHead, Scripted
    <3> QED BY <1>0, <1>1, <1>5, <3>1, <3>3, <3>4, <3>5, <3>6, <3>7, ScriptedFrame
  <2>5. CASE OnRead
    <3>1. /\ PosKept /\ parser.exec = "no" /\ parser.data = <<>> /\ Alive' = Alive
          /\ parser' = parser \/ (Alive /\ parser'.exec = "run")
      BY <1>0, <2>5, ReadEffects
    <3>2. parser.st # "ready"
      BY <1>0, <3>1 DEF Flags
    <3>3. ShapesKept
      <4>1. \E d : client' = [client EXCEPT !.net = d]
        BY <2>5 DEF OnRead
      <4> QED BY <1>0, <4>1, Types DEF Client, ShapesKept
    <3>4. ~Alive' => NoHead(parser'.data)
      BY <1>0, <1>1, <3>1 DEF NoHead, Scripted
    <3>5. Leftover => parser'.exec # "run" \/ parser'.data = <<>>
      <4>1. Alive => ~Leftover
        BY <1>0, AliveNotLeftover DEF Alive
      <4> QED BY <3>1, <4>1
    <3> QED BY <2>1, <3>1, <3>2, <3>3, <3>4, <3>5
  <2>6. CASE KeepForLater \/ UpgradeConnection \/ ParseDone
    <3>1. PosKept /\ parser'.exec = "no" /\ parser'.data = <<>>
      BY <1>0, <2>6, AfterEffects
    <3>2. ShapesKept
      BY <2>6 DEF KeepForLater, UpgradeConnection, ParseDone, ShapesKept
    <3>3. NoHead(parser'.data)
      BY <3>1, EmptySeq DEF NoHead
    <3> QED BY <2>1, <3>1, <3>2, <3>3
  <2>7. CASE HeadersCompleteComplete
    BY <1>5, <2>7, ResumeScripted
  <2>8. CASE PassRequestBuffer
    <3>1. later # <<>> /\ later[1].op = "wsOpened" /\ 1 \in 1..Len(later)
      BY <1>0, <2>8, LaterFront DEF PassRequestBuffer, RunLater
    <3> QED BY <1>0, <1>1, <3>1 DEF HandedOver
  <2>9. CASE ParseMessageBegin \/ ParseHeadersDone \/ ParseBody
    <3>1. StreamTail
      <4>1. /\ parser.data # <<>> /\ parser.st # "wait" /\ client' = client
            /\ ParseHeadersDone \/ ParseBody => req' = req
        BY <2>9 DEF ParseMessageBegin, ParseHeadersDone, ParseBody, Executing
      <4>2. parser'.data = Tail(parser.data)
        BY <1>0, <2>9, BeginEffects, ConsumeEffects
      <4>3. req'.requestBuffer = req.requestBuffer /\ (Alive' => Alive)
        <5>1. CASE ParseMessageBegin
          <6>1. ReqKept(req, req')
            <7>1. \/ req' = [req EXCEPT !.handlingRequest = TRUE, !.responseScheduled = FALSE]
                  \/ req' = [Closed(req) EXCEPT !.handlingRequest = TRUE, !.responseScheduled = FALSE]
              BY <5>1 DEF ParseMessageBegin
            <7> QED BY <1>0, <7>1, Types, ReqEffects
          <6> QED BY <6>1, KeptAlive
        <5>2. CASE ParseHeadersDone \/ ParseBody
          BY <4>1, <5>2 DEF Alive
        <5> QED BY <2>9, <5>1, <5>2
      <4>4. req.requestBuffer = <<>>
        BY <1>0, <1>1, <4>1 DEF InStep
      <4> QED BY <1>0, <4>1, <4>2, <4>3, <4>4, TailStream
    <3> QED BY <1>4, <2>9, <3>1
  <2> QED BY <1>2, <1>3, <2>2, <2>3, <2>4, <2>5, <2>6, <2>7, <2>8, <2>9, StepKinds
<1> QED BY <1>1, <1>2, <1>3, <1>4, <1>5

-------------------------------------------------------------------------------
(* The states of the parser. *)

LEMMA FlagsFrame ==
  ASSUME TypeOK, Flags, PosKept, CurKept,
         parser'.errno => \/ parser.errno
                          \/ /\ req'.ignoreNewData /\ parser.cur # 0 /\ Cur.upgrade = "no"
                             /\ parser.st = "body" \/ Over,
         req'.isUpgrade = req.isUpgrade, req.isUpgrade => Sent' = Sent,
         req.ignoreNewData => req'.ignoreNewData,
         parser'.exec = "return" /\ parser.st # "wait" /\ ~req.isUpgrade =>
           parser'.data = <<>> \/ req'.ignoreNewData,
         req.isUpgrade /\ Ended /\ req'.protocol = "HTTP" /\ parser'.exec # "return" =>
           ~Alive' /\ parser'.data = <<>>,
         parser.st = "ready" => parser'.exec = "run" /\ parser'.data # <<>>
  PROVE  Flags'
<1>0. /\ parser'.st = parser.st /\ parser'.status = parser.status
      /\ parser'.cur = parser.cur /\ parser'.need = parser.need
      /\ parser'.cur # 0 => Cur' = Cur
      /\ Ended' = Ended /\ Over' = Over
  BY DEF PosKept, CurKept
<1>1. parser.st # "start" => parser.cur # 0
  BY CurTypes
<1>2. Ended => parser.cur # 0
  BY DEF Ended
<1>3. /\ parser'.cur = 0 => parser'.st = "start"
      /\ parser'.st = "body" => parser'.need > 0 /\ Cur'.upgrade = "no" /\ parser'.status = 0
      /\ parser'.st = "dead" => ~Cur'.keep
      /\ parser'.status = 3 /\ (Ended' \/ parser'.st = "ready") /\ ~req'.ignoreNewData => Cur'.keep /\ ~Cur'.length
  BY <1>0, <1>1, <1>2 DEF Flags
<1>4. parser'.errno => /\ req'.ignoreNewData /\ parser'.cur # 0 /\ Cur'.upgrade = "no"
                       /\ parser'.st = "body" \/ Over'
  BY <1>0 DEF Flags
<1>5. req'.isUpgrade => /\ parser'.cur # 0 /\ parser'.cur = Sent' /\ Cur'.upgrade # "no"
                        /\ parser'.st \in {"wait", "ready", "start", "dead"}
  BY <1>0 DEF Flags
<1>6. parser'.st \in {"wait", "ready"} \/ Ended' => (req'.isUpgrade <=> Cur'.upgrade # "no")
  BY <1>0, <1>1, <1>2 DEF Flags
<1>7. /\ parser'.exec = "return" /\ parser'.st # "wait" /\ ~req'.isUpgrade =>
           parser'.data = <<>> \/ req'.ignoreNewData
      /\ req'.isUpgrade /\ Ended' /\ req'.protocol = "HTTP" /\ parser'.exec # "return" =>
           ~Alive' /\ parser'.data = <<>>
      /\ parser'.st = "ready" => parser'.exec = "run" /\ parser'.data # <<>>
  BY <1>0
<1> QED BY <1>3, <1>4, <1>5, <1>6, <1>7 DEF Flags

\* The bytes the parser has come first.
LEMMA StreamFront ==
  ASSUME TypeOK, parser.data # <<>>, req.requestBuffer = <<>>
  PROVE  /\ Stream # <<>> /\ Stream[1] = parser.data[1] /\ Stream \in Bytes
         /\ 1 \in 1..Len(parser.data) /\ Tail(Stream) \in Bytes
         /\ Tail(parser.data) # <<>> =>
              Tail(Stream) # <<>> /\ Tail(Stream)[1] = parser.data[2] /\ 2 \in 1..Len(parser.data)
<1> DEFINE a == parser.data
           b == IF Alive THEN client.net ELSE <<>>
           t == Tail(a)
<1>1. a \in Bytes /\ b \in Bytes /\ a # <<>> /\ Stream \in Bytes
  BY StreamTypes
<1>2. <<>> \o a = a
  <2> HIDE DEF a
  <2> QED BY <1>1, ConcatEmptySeq DEF Bytes
<1>3. Stream = a \o b
  BY <1>2 DEF Stream
<1> HIDE DEF a, b
<1>4. a \o b # <<>> /\ (a \o b)[1] = a[1] /\ Tail(a \o b) = t \o b /\ t \in Bytes
  BY <1>1, TailOfConcat
<1>5. a \in Seq(AnyToken)
  BY <1>1 DEF Bytes
<1>6. Len(a) \in Nat \ {0} /\ Len(t) = Len(a) - 1 /\ \A i \in 1..(Len(a) - 1) : t[i] = a[i + 1]
  BY <1>1, <1>5, TailRange
<1>7. t \o b \in Bytes
  <2> HIDE DEF t
  <2> QED BY <1>1, <1>4, ConcatTypes DEF Bytes
<1>8. ASSUME t # <<>> PROVE t \o b # <<>> /\ (t \o b)[1] = a[2] /\ 2 \in 1..Len(a)
  <2>1. t \o b # <<>> /\ (t \o b)[1] = t[1]
    <3> HIDE DEF t
    <3> QED BY <1>1, <1>4, <1>8, TailOfConcat
  <2>2. Len(t) \in Nat \ {0}
    <3>1. t \in Seq(AnyToken)
      BY <1>4 DEF Bytes
    <3> HIDE DEF t
    <3> QED BY <1>8, <3>1, TailRange
  <2>3. 1 \in 1..(Len(a) - 1) /\ 2 \in 1..Len(a)
    BY <1>6, <2>2
  <2>4. t[1] = a[1 + 1]
    BY <1>6, <2>3
  <2> QED BY <2>1, <2>3, <2>4
<1>9. 1 \in 1..Len(a)
  BY <1>6
<1> QED BY <1>1, <1>3, <1>4, <1>7, <1>8, <1>9 DEF a

\* What follows a request is the head of the next one, or a WebSocket's bytes.
LEMMA WhatFollows ==
  ASSUME TypeOK, InTurn, NEW s \in Bytes, s # <<>>, parser.cur # 0,
         Script(s, 0, TRUE, parser.cur, Fresh, Sent, Upgraded)
  PROVE  (s[1].t = "H" /\ Sent > parser.cur) \/ (Sent = parser.cur /\ Cur.upgrade = "ws")
<1>0. Fresh \in Nat /\ (Sent > parser.cur <=> Fresh > 0) /\ Sent \in Nat /\ parser.cur \in Nat
  BY AheadFresh, CurTypes
<1>1. CASE Fresh > 0
  <2>1. s[1] = Token("H", Sent)
    BY <1>0, <1>1, ScriptTailHead
  <2> QED BY <1>0, <1>1, <2>1 DEF Token
<1>2. CASE Fresh = 0
  <2>1. 1 \in 1..Len(s)
    <3>1. s \in Seq(AnyToken)
      BY DEF Bytes
    <3>2. Len(s) \in Nat \ {0}
      BY <3>1, TailRange
    <3> QED BY <3>2
  <2>2. 1 > 0 + Fresh => Upgraded
    BY <2>1 DEF Script
  <2>3. PICK k \in 1..Len(client.shape) : client.shape[k].upgrade = "ws"
    BY <1>2, <2>2 DEF Upgraded
  <2>4. ~(k < Sent) /\ k \in Nat /\ k <= Sent
    BY <2>3, <1>0 DEF InTurn, Sent
  <2>5. Sent = parser.cur /\ k = Sent
    <3>1. ~(Sent > parser.cur) /\ parser.cur <= Sent
      BY <1>0, <1>2 DEF InTurn
    <3> QED BY <1>0, <2>4, <3>1
  <2> QED BY <2>3, <2>5 DEF Cur
<1> QED BY <1>0, <1>1, <1>2

\* The parser refuses bytes only after R's code has failed on the body.
LEMMA RefusedAfterError ==
  ASSUME IInv, Written, TurnInv, AnswerInv, ParseRefuses
  PROVE  parser.errno
<1> SUFFICES ASSUME ~parser.errno PROVE FALSE
  OBVIOUS
<1>0. /\ TypeOK /\ HandedOver /\ InStep /\ InTurn /\ Scripted /\ Flags /\ OneAnswer
  BY DEF IInv, TurnInv, AnswerInv
<1>1. parser.exec = "run" /\ parser.data # <<>> /\ parser.st = "dead"
  BY DEF ParseRefuses
<1>2. parser.cur # 0 /\ Ended /\ ~Cur.keep
  BY <1>0, <1>1, CurTypes DEF Ended, Flags
<1>3. req.protocol = "HTTP"
  <2>1. req.protocol \in {"HTTP", "WebSockets"}
    BY <1>0, Types, RequestTypes
  <2> QED BY <1>0, <1>1, <2>1 DEF HandedOver
<1>4. req.requestBuffer = <<>>
  BY <1>0, <1>1, <1>3 DEF InStep
<1>5. Stream # <<>> /\ Stream[1] = parser.data[1] /\ Stream \in Bytes /\ 1 \in 1..Len(parser.data)
  BY <1>0, <1>1, <1>4, StreamFront
<1>6. Script(Stream, 0, TRUE, parser.cur, Fresh, Sent, Upgraded)
  <2>1. ~Leftover
    BY <1>0, <1>1, <1>3 DEF Scripted
  <2>2. Ahead = 0 /\ (parser.st # "body") = TRUE
    BY <1>1 DEF Ahead
  <2> QED BY <1>0, <1>3, <2>1, <2>2 DEF Scripted
<1>7. CASE Stream[1].t = "H" /\ Sent > parser.cur
  <2>1. Alive
    BY <1>0, <1>3, <1>5, <1>7 DEF Scripted
  <2>2. Answered(parser.cur)
    BY <1>0, <1>2, <1>7 DEF InTurn
  <2> QED BY <1>0, <1>2, <2>1, <2>2, AnsweredIdle
<1>8. CASE Sent = parser.cur /\ Cur.upgrade = "ws"
  <2>1. req.isUpgrade
    BY <1>0, <1>2, <1>8 DEF Flags
  <2> QED BY <1>0, <1>1, <1>2, <1>3, <2>1 DEF Flags
<1> QED BY <1>0, <1>2, <1>5, <1>6, <1>7, <1>8, WhatFollows

\* Nothing is left over behind a request that was answered from its headers on
\* a connection that is kept.
LEMMA NothingAfterAnswer ==
  ASSUME IInv, TurnInv, parser.st = "ready", parser.status = 3, ~req.ignoreNewData, ~req.isUpgrade,
         req.protocol = "HTTP"
  PROVE  Tail(parser.data) = <<>>
<1> SUFFICES ASSUME Tail(parser.data) # <<>> PROVE FALSE
  OBVIOUS
<1>0. /\ TypeOK /\ HandedOver /\ InStep /\ InTurn /\ Scripted /\ Flags
  BY DEF IInv, TurnInv
<1>1. parser.data # <<>> /\ req.requestBuffer = <<>> /\ parser.cur # 0 /\ Cur.upgrade = "no" /\ ~Cur.length
  BY <1>0, CurTypes DEF Flags, InStep
<1>2. /\ Stream # <<>> /\ Tail(Stream) # <<>> /\ Tail(Stream)[1] = parser.data[2] /\ Stream \in Bytes
      /\ 2 \in 1..Len(parser.data) /\ Tail(Stream) \in Bytes
  BY <1>0, <1>1, StreamFront
<1>3. Ahead = 1 /\ (parser.st # "body") = TRUE /\ ~Leftover
  <2>1. client.shape[parser.cur].body \in Nat /\ (client.shape[parser.cur].body > 0 => client.shape[parser.cur].length)
    BY <1>0, <1>1, CurTypes
  <2>2. Cur.body = 0
    BY <1>1, <2>1 DEF Cur
  <2> QED BY <2>2 DEF Ahead, Leftover, Ended
<1>4. Script(Stream, 1, TRUE, parser.cur, Fresh, Sent, Upgraded)
  BY <1>0, <1>3 DEF Scripted
<1>5. Script(Tail(Stream), 0, TRUE, parser.cur, Fresh, Sent, Upgraded)
  <2>1. Fresh \in Nat
    BY <1>0, AheadFresh
  <2>2. 1 \in Nat /\ 1 > 0 /\ TRUE \in BOOLEAN
    OBVIOUS
  <2> DEFINE s == Stream
  <2>3. s \in Bytes /\ s # <<>> /\ Script(s, 1, TRUE, parser.cur, Fresh, Sent, Upgraded)
    BY <1>2, <1>4
  <2> HIDE DEF s
  <2>4. 1 = 1 => Script(Tail(s), 0, TRUE, parser.cur, Fresh, Sent, Upgraded)
    BY <2>1, <2>2, <2>3, ScriptTail
  <2> QED BY <2>4 DEF s
<1>6. (Tail(Stream)[1].t = "H" /\ Sent > parser.cur) \/ (Sent = parser.cur /\ Cur.upgrade = "ws")
  <2> DEFINE s == Tail(Stream)
  <2>1. s \in Bytes /\ s # <<>> /\ Script(s, 0, TRUE, parser.cur, Fresh, Sent, Upgraded)
    BY <1>2, <1>5
  <2> HIDE DEF s
  <2>2. (s[1].t = "H" /\ Sent > parser.cur) \/ (Sent = parser.cur /\ Cur.upgrade = "ws")
    BY <1>0, <1>1, <2>1, WhatFollows
  <2> QED BY <2>2 DEF s
<1> QED BY <1>0, <1>1, <1>2, <1>6 DEF Scripted

\* The headers are complete: an upgrade is known to be one.
LEMMA HeadersFlags ==
  ASSUME TypeOK, InTurn, Flags, ParseHeadersComplete
  PROVE  Flags'
<1>0. parser \in Parser /\ req \in Request
  BY Types
<1>1. /\ parser.st = "headers" /\ ~parser.errno /\ parser'.st = "wait" /\ parser'.exec = "return"
      /\ parser'.cur = parser.cur /\ parser'.errno = parser.errno /\ client' = client
      /\ req'.isUpgrade = (req.isUpgrade \/ Cur.upgrade # "no")
  BY <1>0 DEF ParseHeadersComplete, Executing, Parser, Request
<1>2. Cur' = Cur /\ Sent' = Sent
  BY <1>1 DEF Cur, Sent
<1>3. ~req.isUpgrade /\ parser.cur # 0
  BY <1>1, CurTypes DEF Flags
<1>4. Cur.upgrade # "no" => parser.cur = Sent
  <2>1. parser.cur \in 1..Sent /\ Sent \in Nat /\ parser.cur \in Nat
    BY <1>3, CurTypes
  <2>2. parser.cur < Sent => Cur.upgrade = "no"
    BY <2>1 DEF InTurn, Sent, Cur
  <2> QED BY <2>1, <2>2
<1>5. ~Ended'
  BY <1>1 DEF Ended
<1> QED BY <1>1, <1>2, <1>3, <1>4, <1>5 DEF Flags

\* A request begins: the one before was no upgrade, and had no error.
LEMMA BeginFlags ==
  ASSUME IInv, Written, TurnInv, AnswerInv, ParseMessageBegin
  PROVE  Flags'
<1>0. TypeOK /\ Flags
  BY DEF IInv, TurnInv
<1>1. /\ parser'.st = "headers" /\ parser'.cur = Head(parser.data).k /\ parser'.exec = "run"
      /\ ~parser'.errno /\ req'.isUpgrade = req.isUpgrade
  BY <1>0, BeginEffects
<1>2. Sent = parser.cur + 1 /\ Head(parser.data).k = Sent /\ ~req.isUpgrade
  BY HeadFacts
<1>3. parser'.cur # 0
  BY <1>0, <1>1, <1>2, CurTypes
<1>4. ~Ended'
  BY <1>1 DEF Ended
<1> QED BY <1>1, <1>2, <1>3, <1>4 DEF Flags

\* The LF, or a piece of the body.
LEMMA ConsumeFlags ==
  ASSUME IInv, TurnInv, ParseHeadersDone \/ ParseBody
  PROVE  Flags'
<1>0. TypeOK /\ HandedOver /\ Flags
  BY DEF IInv, TurnInv
<1>1. /\ parser.st \in {"ready", "body"} /\ parser.cur # 0
      /\ parser.exec = "run" /\ ~parser.errno
      /\ parser'.data = Tail(parser.data) /\ parser'.errno = parser.errno
      /\ parser'.cur = parser.cur /\ parser'.status = parser.status
      /\ client' = client /\ req' = req
      /\ parser'.exec \in {"run", "return"}
      /\ \/ /\ parser'.st = "body" /\ parser'.need > 0
            /\ parser.status = 0 /\ Cur.upgrade = "no" /\ parser'.exec = "run"
         \/ /\ parser'.st = NewMessage
            /\ parser'.exec = "run" => parser.status = 0 /\ Cur.upgrade = "no"
  <2> HIDE DEF Flags
  <2> QED BY <1>0, ConsumeEffects
<1>2. Cur' = Cur /\ Sent' = Sent
  BY <1>1 DEF Cur, Sent
<1>3. parser.st = "body" => Cur.upgrade = "no" /\ parser.status = 0 /\ ~req.isUpgrade
  BY <1>0 DEF Flags
<1>4. parser.st = "ready" => (req.isUpgrade <=> Cur.upgrade # "no")
  BY <1>0 DEF Flags
<1>5. req.protocol = "HTTP"
  <2>1. req.protocol \in {"HTTP", "WebSockets"}
    BY <1>0, Types, RequestTypes
  <2> QED BY <1>0, <1>1, <2>1 DEF HandedOver
<1>6. CASE /\ parser'.st = "body" /\ parser'.need > 0
           /\ parser.status = 0 /\ Cur.upgrade = "no" /\ parser'.exec = "run"
  <2>1. ~Ended' /\ ~req'.isUpgrade
    BY <1>1, <1>3, <1>4, <1>6 DEF Ended
  <2> QED BY <1>1, <1>2, <1>6, <2>1 DEF Flags
<1>7. CASE /\ parser'.st = NewMessage
           /\ parser'.exec = "run" => parser.status = 0 /\ Cur.upgrade = "no"
  <2>1. parser'.st \in {"start", "dead"} /\ (parser'.st = "dead" => ~Cur.keep)
    BY <1>7 DEF NewMessage
  <2>2. parser'.status = 3 /\ ~req'.ignoreNewData => Cur'.keep /\ ~Cur'.length
    BY <1>0, <1>1, <1>2, <1>3 DEF Flags
  <2>3. req'.isUpgrade <=> Cur'.upgrade # "no"
    BY <1>1, <1>2, <1>3, <1>4
  <2>4. req'.isUpgrade => parser'.cur = Sent' /\ parser'.exec = "return"
    BY <1>0, <1>1, <1>2, <1>7, <2>3 DEF Flags
  <2>5. parser'.exec = "return" /\ ~req'.isUpgrade => parser'.data = <<>> \/ req'.ignoreNewData
    <3> SUFFICES ASSUME parser'.exec = "return", ~req.isUpgrade, ~req.ignoreNewData
                 PROVE  Tail(parser.data) = <<>>
      BY <1>1
    <3>1. parser.st = "ready" /\ parser.status = 3
      <4>1. CASE ParseHeadersDone
        <5>1. parser.st = "ready"
          BY <4>1 DEF ParseHeadersDone, Executing
        <5>2. parser'.exec = parser.exec \/ parser.status = 3 \/ Cur.upgrade # "no"
          BY <1>0, <4>1, Types DEF ParseHeadersDone, Parser
        <5> QED BY <1>1, <1>4, <5>1, <5>2
      <4>2. CASE ParseBody
        <5>1. parser'.exec = parser.exec
          BY <1>0, <4>2, Types DEF ParseBody, Parser
        <5> QED BY <1>1, <5>1
      <4> QED BY <4>1, <4>2
    <3> QED BY <1>5, <3>1, NothingAfterAnswer
  <2> QED BY <1>1, <1>2, <2>1, <2>2, <2>3, <2>4, <2>5 DEF Flags
<1> QED BY <1>1, <1>6, <1>7

\* R has let the parser go on.
LEMMA ResumeFlags ==
  ASSUME IInv, TurnInv, HeadersCompleteComplete
  PROVE  Flags'
<1>0. TypeOK /\ HandedOver /\ Waits /\ InStep /\ Flags
  BY DEF IInv, TurnInv
<1>1. /\ parser.st = "wait" /\ parser'.st = "ready" /\ parser'.cur = parser.cur /\ parser.cur # 0
      /\ parser'.exec = "run" /\ parser'.data = req.requestBuffer
      /\ req.requestBuffer # <<>>
      /\ parser'.errno = parser.errno /\ req'.isUpgrade = req.isUpgrade
      /\ parser'.status = (IF Head(bgq).r # 0 THEN 3 ELSE 0)
      /\ Head(bgq).r # 0 /\ ~req'.ignoreNewData => Cur.keep /\ ~Cur.length
      /\ client' = client
  BY <1>0, ResumeEffects
<1>2. Cur' = Cur /\ Sent' = Sent
  BY <1>1 DEF Cur, Sent
<1>3. ~parser.errno
  BY <1>0, <1>1 DEF Flags, Over, Ended
<1>4. ~Ended'
  BY <1>1 DEF Ended
<1>5. parser'.status = 3 => Head(bgq).r # 0
  BY <1>1
<1>6. /\ req.isUpgrade => parser.cur = Sent /\ Cur.upgrade # "no"
      /\ req.isUpgrade <=> Cur.upgrade # "no"
  BY <1>0, <1>1 DEF Flags
<1> QED BY <1>1, <1>2, <1>3, <1>4, <1>5, <1>6 DEF Flags

LEMMA UpgradeFlags ==
  ASSUME TypeOK, HandedOver, UpgradeConnection
  PROVE  /\ req'.isUpgrade = req.isUpgrade /\ req'.ignoreNewData = req.ignoreNewData
         /\ req'.protocol = "WebSockets" \/ ~req'.reading
<1>0. req \in Request
  BY Types
<1>1. \/ req' = req /\ ~req.wsc
      \/ req' = [RequestCompleted(req) EXCEPT !.protocol = "WebSockets",
                                              !.requestBuffer = @ \o parser.data]
      \/ req' = Closed(req)
  BY DEF UpgradeConnection
<1>2. ~req.wsc => ~req.reading
  BY DEF HandedOver
<1> QED BY <1>0, <1>1, <1>2 DEF RequestCompleted, Closed, Request

LEMMA FlagsStep ==
  ASSUME IInv, Written, Patient, TurnInv, AnswerInv, IInv', [Next]_vars, Patient'
  PROVE  Flags'
<1>0. /\ TypeOK /\ HandedOver /\ Waits /\ InStep /\ InTurn /\ Scripted /\ Flags /\ TasksWhen
      /\ parser \in Parser /\ req \in Request
  BY Types DEF IInv, TurnInv, AnswerInv
<1>1. CASE ParseHeadersComplete
  BY <1>0, <1>1, HeadersFlags
<1>2. CASE ParseMessageBegin
  BY <1>2, BeginFlags
<1>3. CASE ParseHeadersDone \/ ParseBody
  BY <1>3, ConsumeFlags
<1>4. CASE HeadersCompleteComplete
  BY <1>4, ResumeFlags
<1>5. ASSUME PosKept, ShapesKept,
             parser'.errno => \/ parser.errno
                              \/ /\ req'.ignoreNewData /\ parser.cur # 0 /\ Cur.upgrade = "no"
                                 /\ parser.st = "body" \/ Over,
             req'.isUpgrade = req.isUpgrade,
             req.ignoreNewData => req'.ignoreNewData,
             parser'.exec = "return" /\ parser.st # "wait" /\ ~req.isUpgrade =>
               parser'.data = <<>> \/ req'.ignoreNewData,
             req.isUpgrade /\ Ended /\ req'.protocol = "HTTP" /\ parser'.exec # "return" =>
               ~Alive' /\ parser'.data = <<>>,
             parser.st = "ready" => parser'.exec = "run" /\ parser'.data # <<>>
      PROVE  Flags'
  <2>1. CurKept /\ Sent' = Sent
    BY <1>0, <1>5, SameShapesFrame
  <2> HIDE DEF Flags, PosKept, ShapesKept, CurKept, Alive, Ended, Over, Cur
  <2> QED BY <1>0, <1>5, <2>1, FlagsFrame
<1>6. CASE ParseWaiting
  <2>1. parser.st = "wait" /\ parser'.exec = "return" /\ parser'.errno = parser.errno /\ PosKept
        /\ req' = req /\ client' = client
    BY <1>0, <1>6 DEF ParseWaiting, Executing, Parser, PosKept
  <2>2. ShapesKept
    BY <2>1 DEF ShapesKept
  <2> QED BY <1>5, <2>1, <2>2
<1>7. CASE ParseRefuses
  <2>1. parser.errno
    BY <1>7, RefusedAfterError
  <2>2. req.ignoreNewData /\ parser.st # "ready"
    BY <1>0, <2>1 DEF Flags, Over, Ended
  <2>3. parser'.exec = "return" /\ PosKept /\ req' = req /\ client' = client
    BY <1>0, <1>7 DEF ParseRefuses, Parser, PosKept
  <2>4. ShapesKept
    BY <2>3 DEF ShapesKept
  <2> QED BY <1>5, <2>1, <2>2, <2>3, <2>4
<1>8. CASE OnRead
  <2>1. /\ req' = req /\ PosKept /\ parser.exec = "no" /\ parser.data = <<>> /\ Alive' = Alive
        /\ parser'.errno = parser.errno
        /\ parser' = parser \/ (Alive /\ parser'.exec = "run")
    BY <1>0, <1>8, ReadEffects
  <2>2. ShapesKept
    <3>1. \E d : client' = [client EXCEPT !.net = d]
      BY <1>8 DEF OnRead
    <3> QED BY <1>0, <3>1, Types DEF Client, ShapesKept
  <2>3. parser.st # "ready" /\ (req.isUpgrade /\ Ended /\ req.protocol = "HTTP" => ~Alive)
    BY <1>0, <2>1 DEF Flags
  <2> QED BY <1>5, <2>1, <2>2, <2>3
<1>9. CASE KeepForLater \/ UpgradeConnection \/ ParseDone
  <2>1. PosKept /\ parser'.exec = "no" /\ parser'.data = <<>> /\ parser'.errno = parser.errno
        /\ ExecuteReturns
    BY <1>0, <1>9, AfterEffects
  <2>2. ShapesKept
    BY <1>9 DEF KeepForLater, UpgradeConnection, ParseDone, ShapesKept
  <2>3. parser.st # "ready"
    BY <1>0, <2>1 DEF Flags, ExecuteReturns
  <2>4. /\ req'.isUpgrade = req.isUpgrade /\ (req.ignoreNewData => req'.ignoreNewData)
        /\ req.isUpgrade /\ Ended /\ req'.protocol = "HTTP" => ~Alive'
    <3>1. CASE KeepForLater
      <4>1. parser.st = "wait"
        BY <3>1 DEF KeepForLater
      <4> QED BY <1>0, <3>1, <4>1, ReqOther DEF Ended
    <3>2. CASE UpgradeConnection
      BY <1>0, <3>2, UpgradeFlags DEF Alive
    <3>3. CASE ParseDone
      <4>1. ~req.isUpgrade /\ (req' = req \/ req' = Closed(req))
        BY <3>3 DEF ParseDone
      <4> QED BY <1>0, <4>1 DEF Closed, Request
    <3> QED BY <1>9, <3>1, <3>2, <3>3
  <2> QED BY <1>5, <2>1, <2>2, <2>3, <2>4
<1>10. CASE \E s \in Shapes : ClientSend(s)
  <2>1. PICK s \in Shapes : ClientSend(s)
    BY <1>10
  <2>2. parser' = parser /\ req' = req
    BY <2>1 DEF ClientSend
  <2>3. /\ \A k \in 1..Sent : client.shape[k].upgrade = "no"
        /\ Sent' = Sent + 1 /\ \A k \in 1..Sent : client'.shape[k] = client.shape[k]
    BY <1>0, <2>1, SendFacts
  <2>4. PosKept
    BY <2>2 DEF PosKept
  <2>5. CurKept
    <3>1. Sent <= Sent'
      BY <1>0, <2>3, CurTypes
    <3> QED BY <1>0, <2>3, <2>4, <3>1, CurFrame
  <2>6. ~req.isUpgrade
    BY <1>0, <2>3, CurTypes DEF Flags, Cur
  <2>7. parser.exec = "return" /\ parser.st # "wait" /\ ~req.isUpgrade => parser.data = <<>> \/ req.ignoreNewData
    BY <1>0 DEF Flags
  <2>8. parser.st = "ready" => parser.exec = "run" /\ parser.data # <<>>
    BY <1>0 DEF Flags
  <2> HIDE DEF Flags, PosKept, CurKept, Alive, Ended, Over, Cur
  <2> QED BY <1>0, <2>2, <2>4, <2>5, <2>6, <2>7, <2>8, FlagsFrame
<1>11. CASE StillSteps \/ ClientSendWs \/ PassRequestBuffer
  <2>1. \/ ReqKept(req, req')
        \/ ParseHeadersComplete \/ KeepForLater \/ UpgradeConnection \/ HeadersCompleteComplete
        \/ OnClosed \/ PassRequestBuffer
    BY <1>0, ReqStep
  <2>2. CASE ReqKept(req, req') \/ OnClosed \/ PassRequestBuffer
    <3>1. /\ req'.isUpgrade = req.isUpgrade /\ (req.ignoreNewData => req'.ignoreNewData)
          /\ req'.protocol = req.protocol /\ (Alive' => Alive)
      <4>1. CASE ReqKept(req, req')
        BY <4>1 DEF ReqKept, Alive
      <4>2. CASE OnClosed \/ PassRequestBuffer
        BY <1>0, <4>2, ReqOther DEF Alive
      <4> QED BY <2>2, <4>1, <4>2
    <3>2. parser' = parser \/ BodyError
      <4>1. CASE StillSteps
        BY <1>0, <4>1, StillParser
      <4>2. CASE ClientSendWs \/ PassRequestBuffer
        BY <4>2 DEF ClientSendWs, PassRequestBuffer
      <4> QED BY <1>11, <4>1, <4>2
    <3>3. /\ parser'.exec = parser.exec /\ parser'.data = parser.data /\ PosKept
          /\ parser'.errno => \/ parser.errno
                              \/ /\ req'.ignoreNewData /\ parser.cur # 0 /\ Cur.upgrade = "no"
                                 /\ parser.st = "body" \/ Over
      <4>1. CASE parser' = parser
        BY <4>1 DEF PosKept
      <4>2. CASE BodyError
        <5>1. /\ parser'.exec = parser.exec /\ parser'.data = parser.data /\ PosKept
          BY <1>0, <4>2 DEF BodyError, PosKept, Parser
        <5>2. req'.ignoreNewData
          <6>1. req' = StopReading(RequestCompleted(req)) /\ RequestCompleted(req) \in Request
            BY <1>0, <4>2, RequestTypes DEF BodyError
          <6> QED BY <6>1 DEF StopReading, Request
        <5>3. parser.st = "body" \/ Over
          <6>1. bgq # <<>> /\ bgq[1].op = "bodyError" /\ 1 \in 1..Len(bgq)
            BY <1>0, <4>2, BgFront DEF BodyError, Flush
          <6>2. bgq[1] \in Replies(bgq)
            BY <6>1, TasksIn DEF Replies, Outcome
          <6> QED BY <1>0, <6>1, <6>2 DEF TasksWhen, Replied
        <5>4. parser.cur # 0 /\ Cur.upgrade = "no"
          BY <1>0, <5>3, CurTypes DEF Flags, Over, Ended
        <5> QED BY <5>1, <5>2, <5>3, <5>4
      <4> QED BY <3>2, <4>1, <4>2
    <3>4. ShapesKept \/ \E s \in Shapes : ClientSend(s)
      BY <1>0, ShapeStep
    <3>5. /\ parser.exec = "return" /\ parser.st # "wait" /\ ~req.isUpgrade => parser.data = <<>> \/ req.ignoreNewData
          /\ parser.st = "ready" => parser.exec = "run" /\ parser.data # <<>>
          /\ req.isUpgrade /\ Ended /\ req.protocol = "HTTP" /\ parser.exec # "return" =>
               ~Alive /\ parser.data = <<>>
      BY <1>0 DEF Flags
    <3> QED BY <1>5, <1>10, <3>1, <3>3, <3>4, <3>5
  <2> QED BY <1>1, <1>4, <1>9, <2>1, <2>2
<1> QED BY <1>1, <1>2, <1>3, <1>4, <1>6, <1>7, <1>8, <1>9, <1>10, <1>11, StepKinds

-------------------------------------------------------------------------------
(* Answers: what the steps leave alone. *)

LEMMA FinalsAlike ==
  ASSUME NEW q, NEW r, Len(r) = Len(q), \A i \in 1..Len(q) : SameResponse(q[i], r[i]), NEW k
  PROVE  /\ Finals(r, k) = Finals(q, k)
         /\ \A c : (\A i \in 1..Len(q) : q[i].req <= c) => \A i \in 1..Len(r) : r[i].req <= c
<1>1. \A i \in 1..Len(q) : r[i].req = q[i].req /\ r[i].kind = q[i].kind
  BY DEF SameResponse
<1>2. \A x : x \in Finals(r, k) <=> x \in Finals(q, k)
  BY <1>1, FinalsIn
<1> QED BY <1>1, <1>2

LEMMA FinalsAppend ==
  ASSUME NEW q \in Seq(Response), NEW e \in Response, NEW k
  PROVE  /\ Finals(Append(q, e), k) =
              Finals(q, k) \cup (IF e.req = k /\ e.kind = "final" THEN {Len(q) + 1} ELSE {})
         /\ \A i \in Finals(q, k) : Append(q, e)[i] = q[i] /\ i \in 1..Len(q)
         /\ Append(q, e)[Len(q) + 1] = e /\ Len(q) \in Nat /\ Len(q) + 1 # 0
         /\ \A c : (\A i \in 1..Len(q) : q[i].req <= c) /\ e.req <= c =>
              \A i \in 1..Len(Append(q, e)) : Append(q, e)[i].req <= c
<1> DEFINE r == Append(q, e)
           n == Len(q)
<1>1. n \in Nat /\ Len(r) = n + 1 /\ r[n + 1] = e /\ \A i \in 1..n : r[i] = q[i]
  BY RespAppend
<1> HIDE DEF r, n
<1>2. \A i \in 1..(n + 1) : i \in 1..n \/ i = n + 1
  BY <1>1
<1>3. n + 1 \in 1..(n + 1) /\ n + 1 # 0 /\ \A i \in 1..n : i \in 1..(n + 1)
  BY <1>1
<1>4. ASSUME NEW x
      PROVE  x \in Finals(r, k) <=> x \in Finals(q, k) \/ (e.req = k /\ e.kind = "final" /\ x = n + 1)
  <2>1. x \in Finals(r, k) <=> x \in 1..(n + 1) /\ r[x].req = k /\ r[x].kind = "final"
    BY <1>1, FinalsIn
  <2>2. x \in Finals(q, k) <=> x \in 1..n /\ q[x].req = k /\ q[x].kind = "final"
    BY FinalsIn DEF n
  <2> QED BY <1>1, <1>2, <1>3, <2>1, <2>2
<1>5. \A i \in Finals(q, k) : r[i] = q[i] /\ i \in 1..n
  BY <1>1, FinalsIn DEF n
<1>6. ASSUME NEW c, \A i \in 1..n : q[i].req <= c, e.req <= c, NEW i \in 1..Len(r) PROVE r[i].req <= c
  BY <1>1, <1>2, <1>6
<1>7. Finals(r, k) = Finals(q, k) \cup (IF e.req = k /\ e.kind = "final" THEN {n + 1} ELSE {})
  BY <1>4
<1> QED BY <1>1, <1>3, <1>5, <1>6, <1>7 DEF r, n

\* No call for a piece of the body is to come.
LEMMA NoBodyCalls ==
  ASSUME NEW q \in Seq(LaterTask), \A e \in Asked(q) : e.op # "onBodyData"
  PROVE  CountIn(q, OnBody) = 0
<1>1. DOMAIN q = 1..Len(q)
  BY LenProperties
<1>2. ASSUME NEW i \in 1..Len(q), q[i] \in OnBody PROVE FALSE
  <2>1. q[i].op = "onBodyData"
    BY <1>2 DEF OnBody
  <2>2. q[i] \in Asked(q)
    BY <2>1, TasksIn DEF Asked, NeedsEnv
  <2> QED BY <2>1, <2>2
<1>3. {i \in DOMAIN q : q[i] \in OnBody} = {}
  BY <1>1, <1>2
<1> QED BY <1>3, FS_EmptySet DEF CountIn

LEMMA SchedStep ==
  ASSUME TypeOK, [Next]_vars
  PROVE  \/ req'.responseScheduled = req.responseScheduled
         \/ ParseMessageBegin \/ CallOnHeaders \/ CallOnBodyData \/ CallGetResponse \/ PromiseResolves
<1>0. req \in Request /\ RequestCompleted(req) \in Request
  BY Types, RequestTypes
<1>1. CASE \/ \E s \in Shapes : ClientSend(s)
           \/ ClientSendWs \/ ClientLeaves \/ OnRead
           \/ ParseWaiting \/ ParseHeadersDone \/ ParseBody \/ ParseRefuses
           \/ ScheduledWsRead \/ WriteOut \/ WriteFails \/ InitializeEnv
           \/ CallWsOpen \/ CallWsMessage \/ CallWsClose \/ UNCHANGED vars
  <2>1. req' = req
    BY <1>1, Zenon DEF ClientSend, ClientSendWs, ClientLeaves, OnRead, ParseWaiting, ParseHeadersDone,
                ParseBody, ParseRefuses, ScheduledWsRead, WriteOut, WriteFails, InitializeEnv,
                CallWsOpen, CallWsMessage, CallWsClose, vars
  <2> QED BY <2>1
<1>2. CASE OnReadError \/ ServerStops \/ ParseDone \/ ScheduledClose
           \/ OnResponseWritten \/ OnChunkWritten
  <2>1. req' = req \/ req' = Closed(req)
    BY <1>2 DEF OnReadError, ServerStops, ParseDone, ScheduledClose, OnResponseWritten,
                OnChunkWritten, Release, NextChunk
  <2> QED BY <1>0, <2>1 DEF Closed, Request
<1>3. CASE BodyError \/ MessageCompleteComplete
  <2>1. \/ req' = req \/ req' = RequestCompleted(req) \/ req' = StopReading(RequestCompleted(req))
    BY <1>3 DEF BodyError, MessageCompleteComplete
  <2> QED BY <1>0, <2>1 DEF RequestCompleted, StopReading, Request
<1>4. CASE ParseHeadersComplete \/ KeepForLater \/ OnClosed
  BY <1>0, <1>4 DEF ParseHeadersComplete, KeepForLater, OnClosed, Request
<1>5. CASE PassRequestBuffer
  <2>1. req' = req \/ req' = [req EXCEPT !.requestBuffer = <<>>]
    BY <1>5 DEF PassRequestBuffer
  <2> QED BY <1>0, <2>1 DEF Request
<1>6. CASE UpgradeConnection
  <2>1. \/ req' = req
        \/ req' = [RequestCompleted(req) EXCEPT !.protocol = "WebSockets",
                                                !.requestBuffer = @ \o parser.data]
        \/ req' = Closed(req)
    BY <1>6 DEF UpgradeConnection
  <2> QED BY <1>0, <2>1 DEF RequestCompleted, Closed, Request
<1>7. CASE HeadersCompleteComplete
  <2> DEFINE c == RequestCompleted(req)
  <2>1. c.responseScheduled = req.responseScheduled /\ c \in Request
    BY <1>0 DEF RequestCompleted, Request
  <2>2. \/ req' = [StopReading(c) EXCEPT !.requestBuffer = <<>>]
        \/ req' = [c EXCEPT !.requestBuffer = <<>>]
        \/ req' = [req EXCEPT !.requestBuffer = <<>>]
    BY <1>7 DEF HeadersCompleteComplete
  <2> HIDE DEF c
  <2> QED BY <1>0, <2>1, <2>2 DEF StopReading, Request
<1> QED BY <1>1, <1>2, <1>3, <1>4, <1>5, <1>6, <1>7, SMTT(40)
        DEF Next, ClientStep, Parse, FlushTask, WriteCallback, MainTask

AppKept == /\ app'.promised = app.promised /\ app'.got = app.got
           /\ app'.failed = app.failed /\ app'.called = app.called

LEMMA AppStep ==
  ASSUME TypeOK, [Next]_vars
  PROVE  AppKept \/ CallOnBodyData \/ CallGetResponse \/ PromiseResolves
<1>0. app \in Application
  BY Types
<1>1. CASE Parse
  BY <1>1, ZenonT(40) DEF Parse, ParseMessageBegin, ParseHeadersComplete, ParseWaiting, ParseHeadersDone,
         ParseBody, ParseRefuses, KeepForLater, UpgradeConnection, ParseDone, AppKept
<1>2. CASE FlushTask
  BY <1>2, ZenonT(40) DEF FlushTask, HeadersCompleteComplete, BodyError, MessageCompleteComplete,
         ScheduledClose, ScheduledWsRead, AppKept
<1>3. CASE InitializeEnv \/ CallWsMessage \/ CallWsClose
  BY <1>0, <1>3 DEF InitializeEnv, CallWsMessage, CallWsClose, AppKept, Application
<1>4. CASE CallWsOpen
  <2>1. app' = app \/ app' = [app EXCEPT !.ws = Append(@, [ev |-> "open", n |-> 0])]
    BY <1>4 DEF CallWsOpen
  <2> QED BY <1>0, <2>1 DEF AppKept, Application
<1>5. CASE \/ (\E s \in Shapes : ClientSend(s)) \/ ClientSendWs \/ ClientLeaves
           \/ OnRead \/ OnReadError \/ ServerStops \/ WriteOut \/ WriteFails
           \/ OnResponseWritten \/ OnChunkWritten \/ OnClosed
           \/ CallOnHeaders \/ PassRequestBuffer \/ UNCHANGED vars
  BY <1>5, ZenonT(40) DEF ClientSend, ClientSendWs, ClientLeaves, OnRead, OnReadError, ServerStops,
         WriteOut, WriteFails, OnResponseWritten, OnChunkWritten, OnClosed, CallOnHeaders,
         PassRequestBuffer, vars, AppKept
<1> QED BY <1>1, <1>2, <1>3, <1>4, <1>5, ZenonT(40) DEF Next, ClientStep, WriteCallback, MainTask

LEMMA AliveStep ==
  ASSUME TypeOK, HandedOver, [Next]_vars
  PROVE  Alive' => Alive
<1>1. CASE ReqKept(req, req')
  BY <1>1, KeptAlive
<1>2. CASE ParseHeadersComplete \/ KeepForLater \/ HeadersCompleteComplete \/ PassRequestBuffer
             \/ OnClosed
  BY <1>2, ReqOther DEF Alive
<1>3. CASE UpgradeConnection
  <2>0. req \in Request
    BY Types
  <2>1. \/ req' = req
        \/ req' = [RequestCompleted(req) EXCEPT !.protocol = "WebSockets",
                                                !.requestBuffer = @ \o parser.data]
        \/ req' = Closed(req)
    BY <1>3 DEF UpgradeConnection
  <2> QED BY <2>0, <2>1 DEF RequestCompleted, Closed, Request, Alive
<1> QED BY <1>1, <1>2, <1>3, ReqStep

\* The tasks, the responses and the request remain.
LEMMA AnswerFrame ==
  ASSUME TypeOK, AnswerInv, PosKept, CurKept, SameAsks(later, later'), SameReplies(bgq, bgq'),
         Finals(resp', parser.cur) = Finals(resp, parser.cur),
         \A r \in Finals(resp, parser.cur) : resp'[r].st = "made" <=> resp[r].st = "made",
         \A r \in 1..Len(resp') : resp'[r].req <= parser.cur,
         req'.responseScheduled = req.responseScheduled, app'.promised = app.promised,
         Alive' => Alive
  PROVE  AnswerInv'
<1>0. /\ parser'.st = parser.st /\ parser'.status = parser.status /\ parser'.cur = parser.cur
      /\ parser'.cur # 0 => Cur' = Cur
      /\ Over' = Over
      /\ Asked(later') = Asked(later) /\ Replies(bgq') = Replies(bgq)
      /\ AskedInOrder(later) => AskedInOrder(later')
      /\ RepliesInOrder(bgq) => RepliesInOrder(bgq')
  BY DEF PosKept, CurKept, SameAsks, SameReplies
<1>1. TasksInOrder /\ TasksWhen /\ OneAnswer
  BY DEF AnswerInv
<1>2. TasksInOrder'
  BY <1>0, <1>1 DEF TasksInOrder
<1>3. TasksWhen'
  BY <1>0, <1>1 DEF TasksWhen, Asks, Replied
<1>4. parser.cur = 0 => Finals(resp, parser.cur) = {}
  <2>1. \A r \in 1..Len(resp) : resp[r].req # 0
    <3>1. resp \in Seq(Response)
      BY Types
    <3>2. \A r \in 1..Len(resp) : resp[r] \in Response
      BY <3>1, ElementOfSeq
    <3> QED BY <3>2, Types DEF Response, ReqNo
  <2> QED BY <2>1 DEF Finals
<1>5. OneAnswer'
  <2> DEFINE F == Finals(resp, parser.cur)
  <2>1. Finals(resp', parser'.cur) = F /\ \A r \in F : resp'[r].st = "made" <=> resp[r].st = "made"
    BY <1>0
  <2>2. /\ \A q, r \in F : q = r
        /\ F # {} /\ (Asks("onBodyData") \/ Asks("getResponse") \/ parser.st = "body") => req.responseScheduled
        /\ parser.st = "headers" \/ (parser.st = "ready" /\ parser.status = 0) =>
             F = {} /\ ~req.responseScheduled
        /\ parser.st = "wait" /\ F = {} => ~req.responseScheduled
        /\ Asks("onHeaders") \/ app.promised # {} => F = {}
        /\ \A e \in Replies(bgq) :
             /\ e.op = "headersDone" /\ e.r = 0 => F = {}
             /\ e.r # 0 => e.r \in F /\ resp[e.r].st = "made"
        /\ \A r \in F : resp[r].st # "made" /\ Alive =>
             /\ Asked(later) = {} /\ Replies(bgq) = {} /\ app.promised = {}
             /\ Cur.keep /\ (parser.st = "start" \/ (parser.st = "ready" /\ parser.status = 3))
    BY <1>1 DEF OneAnswer
  <2>3. parser.cur = 0 => F = {}
    BY <1>4
  <2> HIDE DEF F
  <2>4. \A op : Asks(op)' <=> Asks(op)
    BY <1>0 DEF Asks
  <2>5. /\ \A e \in Replies(bgq') :
             /\ e.op = "headersDone" /\ e.r = 0 => F = {}
             /\ e.r # 0 => e.r \in F /\ resp'[e.r].st = "made"
    BY <1>0, <2>1, <2>2
  <2>6. \A r \in F : resp'[r].st # "made" /\ Alive' =>
             /\ Asked(later') = {} /\ Replies(bgq') = {} /\ app'.promised = {}
             /\ Cur'.keep /\ (parser'.st = "start" \/ (parser'.st = "ready" /\ parser'.status = 3))
    BY <1>0, <2>1, <2>2, <2>3
  <2>7. /\ F # {} /\ (Asks("onBodyData")' \/ Asks("getResponse")' \/ parser'.st = "body") => req'.responseScheduled
        /\ parser'.st = "headers" \/ (parser'.st = "ready" /\ parser'.status = 0) =>
             F = {} /\ ~req'.responseScheduled
        /\ parser'.st = "wait" /\ F = {} => ~req'.responseScheduled
        /\ Asks("onHeaders")' \/ app'.promised # {} => F = {}
    BY <1>0, <2>2, <2>4
  <2> QED BY <2>1, <2>2, <2>5, <2>6, <2>7 DEF OneAnswer
<1> QED BY <1>2, <1>3, <1>5 DEF AnswerInv

\* What R has seen, where nothing was called for an earlier request.
LEMMA SeenStep ==
  ASSUME TypeOK, BodySeen, AppKept, \A k \in 1..Sent : client'.shape[k] = client.shape[k],
         parser'.cur \in Nat, parser.cur <= parser'.cur, parser'.cur # 0 => SeenNow'
  PROVE  BodySeen'
<1>0. /\ app'.got = app.got /\ app'.failed = app.failed /\ app'.called = app.called
      /\ Sent \in Nat /\ parser.cur \in Nat /\ parser.cur <= Sent
  BY CurTypes DEF AppKept
<1>1. ASSUME NEW k \in ReqNo
      PROVE  /\ k > parser'.cur => app'.called[k] = 0 /\ app'.got[k] = 0 /\ ~app'.failed[k]
             /\ app'.called[k] > 0 =>
                  app'.called[k] = 1 /\ ~app'.failed[k] /\ app'.got[k] = client'.shape[k].body
  <2>1. /\ k > parser.cur => app.called[k] = 0 /\ app.got[k] = 0 /\ ~app.failed[k]
        /\ app.called[k] > 0 =>
             app.called[k] = 1 /\ ~app.failed[k] /\ app.got[k] = client.shape[k].body
    BY DEF BodySeen
  <2>2. k \in Nat /\ k # 0
    BY Types DEF ReqNo
  <2>3. app.called[k] > 0 => k \in 1..Sent
    <3> SUFFICES ASSUME app.called[k] > 0 PROVE k \in 1..Sent
      OBVIOUS
    <3>1. ~(k > parser.cur)
      BY <2>1
    <3> QED BY <1>0, <2>2, <3>1
  <2>4. k > parser'.cur => k > parser.cur
    BY <1>0, <2>2
  <2> QED BY <1>0, <2>1, <2>3, <2>4
<1>2. ReqNo' = ReqNo
  BY DEF ReqNo
<1> QED BY <1>1, <1>2 DEF BodySeen

LEMMA BodyFrame ==
  ASSUME TypeOK, BodySeen, PosKept, CurKept, AppKept,
         \A op : Asks(op)' => Asks(op), CountIn(later', OnBody) = CountIn(later, OnBody),
         ~req'.responseScheduled => ~req.responseScheduled
  PROVE  BodySeen'
<1>0. /\ parser'.st = parser.st /\ parser'.cur = parser.cur /\ parser'.need = parser.need
      /\ parser'.cur # 0 => Cur' = Cur
      /\ Over' = Over /\ \A k \in 1..Sent : client'.shape[k] = client.shape[k]
      /\ app'.got = app.got /\ app'.failed = app.failed /\ app'.called = app.called
      /\ parser.cur \in Nat
  BY CurTypes DEF PosKept, CurKept, AppKept
<1>1. ASSUME parser'.cur # 0 PROVE SeenNow'
  <2>1. SeenNow /\ Cur' = Cur
    BY <1>0, <1>1 DEF BodySeen
  <2> QED BY <1>0, <2>1 DEF SeenNow
<1> QED BY <1>0, <1>1, SeenStep

-------------------------------------------------------------------------------
(* Answers: the steps of the parser. *)

\* R's tasks and the outcomes after one more.
LEMMA AskedMore ==
  ASSUME NEW q \in Seq(LaterTask), NEW e \in LaterTask, e.op \in NeedsEnv
  PROVE  Asked(Append(q, e)) = Asked(q) \cup {e}
<1>1. TasksOf(Append(q, e), NeedsEnv) = TasksOf(q, NeedsEnv) \cup (IF e.op \in NeedsEnv THEN {e} ELSE {})
  BY TasksAppend
<1> QED BY <1>1 DEF Asked

LEMMA RepliesMore ==
  ASSUME NEW q \in Seq(BgTask), NEW e \in BgTask, e.op \in Outcome
  PROVE  Replies(Append(q, e)) = Replies(q) \cup {e}
<1>1. TasksOf(Append(q, e), Outcome) = TasksOf(q, Outcome) \cup (IF e.op \in Outcome THEN {e} ELSE {})
  BY TasksAppend
<1> QED BY <1>1 DEF Replies

\* Nothing is to come from R.
LEMMA QuietAnswer ==
  ASSUME Asked(later') = {}, Replies(bgq') = {}, app'.promised = {}
  PROVE  /\ TasksWhen' /\ AskedInOrder(later') /\ RepliesInOrder(bgq')
         /\ \A op : ~Asks(op)'
<1>1. \A op : ~Asks(op)'
  BY DEF Asks
<1>2. \A op : ~Replied(op)'
  BY DEF Replied
<1>3. AskedInOrder(later')
  <2>1. ASSUME NEW i \in 1..Len(later'), later'[i].op = "getResponse" PROVE FALSE
    <3>1. later'[i] \in Asked(later')
      BY <2>1, TasksIn DEF Asked, NeedsEnv
    <3> QED BY <3>1
  <2> QED BY <2>1 DEF AskedInOrder
<1>4. RepliesInOrder(bgq')
  <2>1. ASSUME NEW i \in 1..Len(bgq'), bgq'[i].op \in Outcome PROVE FALSE
    <3>1. \E j \in 1..Len(bgq') : bgq'[j].op \in Outcome /\ bgq'[j] = bgq'[i]
      BY <2>1, Zenon
    <3>2. bgq'[i] \in Replies(bgq')
      BY <3>1, TasksIn, Zenon DEF Replies
    <3> QED BY <3>2
  <2> QED BY <2>1 DEF RepliesInOrder
<1> QED BY <1>1, <1>2, <1>3, <1>4 DEF TasksWhen

\* A request begins: there is nothing of it yet.
LEMMA BeginAnswers ==
  ASSUME IInv, Written, TurnInv, AnswerInv, BodySeen, ParseMessageBegin
  PROVE  AnswerInv' /\ BodySeen'
<1>0. /\ TypeOK /\ TasksInOrder /\ Sent \in Nat /\ parser.cur \in Nat /\ resp \in Seq(Response)
      /\ later \in Seq(LaterTask)
  BY CurTypes, Types DEF IInv, AnswerInv
<1>1. /\ parser'.st = "headers" /\ parser'.cur = Head(parser.data).k
      /\ req'.responseScheduled = FALSE
      /\ client' = client /\ bgq' = bgq /\ resp' = resp /\ app' = app
  BY <1>0, BeginEffects
<1>2. /\ Sent = parser.cur + 1 /\ Head(parser.data).k = Sent
      /\ Asked(later) = {} /\ Replies(bgq) = {} /\ app.promised = {}
  BY HeadFacts
<1>3. Asked(later') = {}
  <2> DEFINE e == [op |-> "initEnv", k |-> Head(parser.data).k]
  <2>1. later' = Append(later, e)
    BY DEF ParseMessageBegin
  <2>2. e \in LaterTask /\ e.op \notin NeedsEnv
    <3>1. Sent \in ReqNo
      BY <1>0, <1>2, CurTypes
    <3> QED BY <1>2, <3>1 DEF LaterTask, NeedsEnv
  <2> HIDE DEF e
  <2>3. SameAsks(later, Append(later, e))
    BY <1>0, <2>2, SameAsksAppend
  <2> QED BY <1>2, <2>1, <2>3 DEF SameAsks
<1>4. /\ TasksWhen' /\ AskedInOrder(later') /\ RepliesInOrder(bgq') /\ \A op : ~Asks(op)'
  BY <1>1, <1>2, <1>3, QuietAnswer
<1>5. \A r \in 1..Len(resp) : resp[r].req <= parser.cur /\ resp[r].req \in Nat
  <2>1. \A r \in 1..Len(resp) : resp[r] \in Response
    BY <1>0, ElementOfSeq
  <2> QED BY <1>0, <2>1, Types DEF TasksInOrder, Response, ReqNo
<1>6. /\ \A r \in 1..Len(resp') : resp'[r].req <= parser'.cur
      /\ Finals(resp', parser'.cur) = {}
  <2>1. parser'.cur = parser.cur + 1
    BY <1>1, <1>2
  <2>2. \A r \in 1..Len(resp) : resp[r].req <= parser.cur + 1 /\ resp[r].req # parser.cur + 1
    BY <1>0, <1>5
  <2> QED BY <1>1, <2>1, <2>2 DEF Finals
<1>7. TasksInOrder'
  BY <1>1, <1>2, <1>3, <1>4, <1>6 DEF TasksInOrder
<1>8. OneAnswer'
  BY <1>1, <1>2, <1>3, <1>4, <1>6 DEF OneAnswer
<1>9. BodySeen'
  <2>1. /\ app.called[Sent] = 0 /\ app.got[Sent] = 0 /\ ~app.failed[Sent]
    <3>1. Sent \in ReqNo /\ Sent > parser.cur
      BY <1>0, <1>2, CurTypes
    <3> QED BY <3>1 DEF BodySeen
  <2>2. SeenNow'
    BY <1>1, <1>2, <1>4, <2>1 DEF SeenNow
  <2>3. AppKept /\ parser'.cur \in Nat /\ parser.cur <= parser'.cur
        /\ \A k \in 1..Sent : client'.shape[k] = client.shape[k]
    BY <1>0, <1>1, <1>2 DEF AppKept
  <2> QED BY <1>0, <2>2, <2>3, SeenStep
<1> QED BY <1>4, <1>7, <1>8, <1>9 DEF AnswerInv

\* What the invariant says of a request whose headers are read.
LEMMA HeadersTime ==
  ASSUME TypeOK, Waits, AnswerInv, parser.st \in {"headers", "ready"}
  PROVE  /\ Asked(later) = {} /\ Replies(bgq) = {} /\ app.promised = {}
         /\ parser.st = "headers" \/ parser.status = 0 =>
              Finals(resp, parser.cur) = {} /\ ~req.responseScheduled
         /\ ~Over /\ parser.cur # 0 /\ parser.cur \in ReqNo
<1>1. ~Over
  BY DEF Over, Ended
<1>2. parser.cur # 0 /\ parser.cur \in ReqNo
  BY CurTypes
<1> QED BY <1>1, <1>2, QuietTasks DEF AnswerInv, OneAnswer

\* The headers are complete: R is asked, or the static files have answered.
LEMMA HeadersAnswers ==
  ASSUME IInv, AnswerInv, BodySeen, ParseHeadersComplete
  PROVE  AnswerInv' /\ BodySeen'
<1>0. /\ TypeOK /\ Waits /\ parser \in Parser /\ req \in Request /\ resp \in Seq(Response)
      /\ later \in Seq(LaterTask) /\ bgq \in Seq(BgTask) /\ TasksInOrder
  BY Types DEF IInv, AnswerInv
<1>1. /\ parser.st = "headers" /\ parser'.st = "wait" /\ parser'.cur = parser.cur
      /\ client' = client /\ app' = app /\ req'.responseScheduled = req.responseScheduled
  BY <1>0 DEF ParseHeadersComplete, Executing, Parser, Request
<1>2. /\ Asked(later) = {} /\ Replies(bgq) = {} /\ app.promised = {}
      /\ Finals(resp, parser.cur) = {} /\ ~req.responseScheduled
      /\ ~Over /\ parser.cur # 0 /\ parser.cur \in ReqNo
  BY <1>0, <1>1, HeadersTime
<1>3. ~Over'
  BY <1>1 DEF Over, Ended
<1>4. /\ \A e \in Asked(later') : e.op = "onHeaders" /\ e.k = parser.cur
      /\ AskedInOrder(later') /\ RepliesInOrder(bgq')
      /\ \A e \in Replies(bgq') : e.op = "headersDone" /\ e.r # 0 /\ e.r \in Finals(resp', parser.cur)
                                  /\ resp'[e.r].st = "made"
      /\ \A q, r \in Finals(resp', parser.cur) : q = r
      /\ \A r \in Finals(resp', parser.cur) : resp'[r].st = "made"
      /\ Asked(later') # {} => Finals(resp', parser.cur) = {}
      /\ \A r \in 1..Len(resp') : resp'[r].req <= parser.cur
  <2>1. CASE later' = later /\ \E b \in Bodies : resp' = Append(resp, NewResponse(parser.cur, "final", b))
              /\ bgq' = Append(bgq, [op |-> "headersDone", k |-> parser.cur, r |-> Len(resp) + 1])
    <3>1. PICK b \in Bodies : resp' = Append(resp, NewResponse(parser.cur, "final", b))
      BY <2>1
    <3> DEFINE x == NewResponse(parser.cur, "final", b)
               e == [op |-> "headersDone", k |-> parser.cur, r |-> Len(resp) + 1]
    <3>2. x \in Response /\ x.req = parser.cur /\ x.kind = "final" /\ x.st = "made"
      BY <1>2, ConstantsAssumption, NewResponseType DEF NewResponse
    <3>3. resp' = Append(resp, x) /\ bgq' = Append(bgq, e)
      BY <2>1, <3>1
    <3>4. e \in BgTask /\ e.op = "headersDone" /\ e.op \in Outcome /\ e.r = Len(resp) + 1
      BY <1>0, <1>2, LenProperties DEF BgTask, Outcome
    <3> HIDE DEF x, e
    <3>5. /\ Finals(Append(resp, x), parser.cur) = {Len(resp) + 1}
          /\ Append(resp, x)[Len(resp) + 1] = x /\ Len(resp) + 1 # 0
      BY <1>0, <1>2, <3>2, FinalsAppend
    <3>6. \A r \in 1..Len(Append(resp, x)) : Append(resp, x)[r].req <= parser.cur
      <4>1. x.req <= parser.cur
        BY <1>0, <3>2, CurTypes
      <4> QED BY <1>0, <3>2, <4>1, FinalsAppend DEF TasksInOrder
    <3>7. Replies(bgq') = {e} /\ RepliesInOrder(bgq')
      <4>1. Replies(Append(bgq, e)) = Replies(bgq) \cup {e}
        BY <1>0, <3>4, RepliesMore
      <4>2. RepliesInOrder(Append(bgq, e))
        BY <1>0, <1>2, <3>4, RepliesAppend DEF TasksInOrder
      <4> QED BY <1>2, <3>3, <4>1, <4>2
    <3>8. Asked(later') = {} /\ AskedInOrder(later')
      BY <1>0, <1>2, <2>1 DEF TasksInOrder
    <3> QED BY <3>2, <3>3, <3>4, <3>5, <3>6, <3>7, <3>8
  <2>2. CASE later' = Append(later, [op |-> "onHeaders", k |-> parser.cur]) /\ bgq' = bgq /\ resp' = resp
    <3> DEFINE e == [op |-> "onHeaders", k |-> parser.cur]
    <3>1. e \in LaterTask /\ e.op \in NeedsEnv /\ e.op = "onHeaders" /\ e.k = parser.cur
      BY <1>2 DEF LaterTask, NeedsEnv
    <3>2. later' = Append(later, e)
      BY <2>2
    <3> HIDE DEF e
    <3>3. Asked(later') = {e}
      BY <1>0, <1>2, <3>1, <3>2, AskedMore
    <3>4. AskedInOrder(later')
      BY <1>0, <1>2, <3>1, <3>2, AskedAppend DEF TasksInOrder
    <3> QED BY <1>0, <1>2, <2>2, <3>1, <3>3, <3>4 DEF TasksInOrder
  <2> QED BY <2>1, <2>2 DEF ParseHeadersComplete
<1>5. TasksInOrder'
  BY <1>1, <1>2, <1>4 DEF TasksInOrder
<1>6. TasksWhen'
  BY <1>1, <1>2, <1>3, <1>4 DEF TasksWhen, Asks, Replied
<1>7. OneAnswer'
  <2>1. /\ ~Asks("onBodyData")' /\ ~Asks("getResponse")'
        /\ Asks("onHeaders")' => Finals(resp', parser.cur) = {}
    BY <1>4 DEF Asks
  <2> QED BY <1>1, <1>2, <1>4, <2>1 DEF OneAnswer
<1>8. BodySeen'
  <2>1. app.called[parser.cur] \in Nat /\ SeenNow
    BY <1>0, <1>2, Types DEF Application, BodySeen
  <2>2. ~Asks("getResponse")'
    BY <1>4 DEF Asks
  <2>3. SeenNow'
    BY <1>1, <1>2, <2>1, <2>2 DEF SeenNow
  <2>4. AppKept /\ parser'.cur \in Nat /\ parser.cur <= parser'.cur
        /\ \A k \in 1..Sent : client'.shape[k] = client.shape[k]
    BY <1>0, <1>1, CurTypes DEF AppKept
  <2> QED BY <1>0, <2>3, <2>4, SeenStep
<1> QED BY <1>5, <1>6, <1>7, <1>8 DEF AnswerInv

\* The LF: the request was answered, or R is asked, or the body follows.
LEMMA LfAnswers ==
  ASSUME IInv, TurnInv, AnswerInv, BodySeen, ParseHeadersDone
  PROVE  AnswerInv' /\ BodySeen'
<1>0. /\ TypeOK /\ Waits /\ Flags /\ later \in Seq(LaterTask) /\ TasksInOrder /\ OneAnswer /\ parser \in Parser
  BY Types DEF IInv, TurnInv, AnswerInv
<1>1. /\ parser.st = "ready" /\ parser'.cur = parser.cur /\ parser'.status = parser.status
      /\ client' = client /\ req' = req /\ bgq' = bgq /\ resp' = resp /\ app' = app
      /\ \/ /\ parser.status = 3 /\ parser'.st = NewMessage /\ later' = later
         \/ /\ parser.status = 0 /\ Cur.upgrade # "no" /\ parser'.st = NewMessage
            /\ MessageComplete(parser.cur)
         \/ /\ parser.status = 0 /\ Cur.upgrade = "no" /\ Cur.body = 0 /\ parser'.st = NewMessage
            /\ MessageComplete(parser.cur)
         \/ /\ parser.status = 0 /\ Cur.upgrade = "no" /\ Cur.body > 0 /\ parser'.st = "body"
            /\ parser'.need = Cur.body /\ later' = later
  BY <1>0 DEF ParseHeadersDone, Executing, Parser
<1>2. /\ Asked(later) = {} /\ Replies(bgq) = {} /\ app.promised = {}
      /\ parser.status = 0 => Finals(resp, parser.cur) = {} /\ ~req.responseScheduled
      /\ ~Over /\ parser.cur # 0 /\ parser.cur \in ReqNo
  BY <1>0, <1>1, HeadersTime
<1>3. Cur' = Cur /\ Alive' = Alive
  BY <1>1 DEF Cur, Alive
<1>4. NewMessage \in {"start", "dead"} /\ (Cur.keep => NewMessage = "start")
  BY DEF NewMessage
<1>5. /\ app.called[parser.cur] = 0 /\ app.got[parser.cur] = 0 /\ ~app.failed[parser.cur]
  <2>1. app.called[parser.cur] \in Nat /\ SeenNow
    BY <1>0, <1>2, Types DEF Application, BodySeen
  <2> QED BY <1>1, <1>2, <2>1 DEF SeenNow
<1>6. ASSUME SeenNow' PROVE BodySeen'
  <2>1. AppKept /\ parser'.cur \in Nat /\ parser.cur <= parser'.cur
        /\ \A k \in 1..Sent : client'.shape[k] = client.shape[k]
    BY <1>0, <1>1, CurTypes DEF AppKept
  <2> QED BY <1>0, <1>6, <2>1, SeenStep
<1>7. \A r \in 1..Len(resp') : resp'[r].req <= parser'.cur
  BY <1>0, <1>1 DEF TasksInOrder
<1>8. ASSUME later' = later, parser'.st = NewMessage, parser.status = 3 \/ Cur.upgrade # "no"
      PROVE  AnswerInv' /\ BodySeen'
  <2>1. /\ TasksWhen' /\ AskedInOrder(later') /\ RepliesInOrder(bgq') /\ \A op : ~Asks(op)'
    BY <1>1, <1>2, <1>8, QuietAnswer
  <2>2. TasksInOrder'
    BY <1>1, <1>2, <1>7, <1>8, <2>1 DEF TasksInOrder
  <2>3. OneAnswer'
    BY <1>0, <1>1, <1>2, <1>3, <1>4, <1>8, <2>1 DEF OneAnswer
  <2>4. SeenNow'
    BY <1>1, <1>4, <1>5, <1>8, <2>1 DEF SeenNow
  <2> QED BY <1>6, <2>1, <2>2, <2>3, <2>4 DEF AnswerInv
<1>9. CASE /\ parser.status = 0 /\ Cur.upgrade # "no" /\ parser'.st = NewMessage
           /\ MessageComplete(parser.cur)
  <2>1. req.isUpgrade
    BY <1>0, <1>1, <1>9 DEF Flags
  <2>2. later' = later
    BY <1>9, <2>1 DEF MessageComplete
  <2> QED BY <1>8, <1>9, <2>2
<1>10. CASE /\ parser.status = 0 /\ Cur.upgrade = "no" /\ Cur.body = 0 /\ parser'.st = NewMessage
            /\ MessageComplete(parser.cur)
  <2>1. ~req.isUpgrade
    BY <1>0, <1>1, <1>10 DEF Flags
  <2> DEFINE e == [op |-> "getResponse", k |-> parser.cur]
  <2>2. later' = Append(later, e)
    BY <1>10, <2>1 DEF MessageComplete
  <2>3. e \in LaterTask /\ e.op \in NeedsEnv /\ e.op = "getResponse" /\ e.k = parser.cur /\ e \notin OnBody
    BY <1>2 DEF LaterTask, NeedsEnv, OnBody
  <2> HIDE DEF e
  <2>4. Asked(later') = {e}
    BY <1>0, <1>2, <2>2, <2>3, AskedMore
  <2>5. AskedInOrder(later') /\ CountIn(later', OnBody) = 0
    <3>1. AskedInOrder(later')
      BY <1>0, <1>2, <2>2, <2>3, AskedAppend DEF TasksInOrder
    <3>2. later' \in Seq(LaterTask)
      BY <1>0, <2>2, <2>3, AppendProperties
    <3>3. \A x \in Asked(later') : x.op # "onBodyData"
      BY <2>3, <2>4
    <3> QED BY <3>1, <3>2, <3>3, NoBodyCalls
  <2>6. Over'
    BY <1>1, <1>2, <1>3, <1>4, <1>10 DEF Over, Ended
  <2>7. TasksInOrder'
    BY <1>0, <1>1, <1>2, <1>7, <2>3, <2>4, <2>5 DEF TasksInOrder
  <2>8. TasksWhen'
    BY <1>1, <1>2, <2>3, <2>4, <2>6 DEF TasksWhen, Asks, Replied
  <2>9. OneAnswer'
    <3>1. ~Asks("onHeaders")'
      BY <2>3, <2>4 DEF Asks
    <3> QED BY <1>1, <1>2, <1>4, <1>10, <3>1 DEF OneAnswer
  <2>10. SeenNow'
    BY <1>1, <1>3, <1>4, <1>5, <1>10, <2>5 DEF SeenNow
  <2> QED BY <1>6, <2>7, <2>8, <2>9, <2>10 DEF AnswerInv
<1>11. CASE /\ parser.status = 0 /\ Cur.upgrade = "no" /\ Cur.body > 0 /\ parser'.st = "body"
            /\ parser'.need = Cur.body /\ later' = later
  <2>1. /\ TasksWhen' /\ AskedInOrder(later') /\ RepliesInOrder(bgq') /\ \A op : ~Asks(op)'
    BY <1>1, <1>2, <1>11, QuietAnswer
  <2>2. TasksInOrder'
    BY <1>1, <1>2, <1>7, <1>11, <2>1 DEF TasksInOrder
  <2>3. OneAnswer'
    BY <1>1, <1>2, <1>11, <2>1 DEF OneAnswer
  <2>4. SeenNow'
    <3>1. CountIn(later', OnBody) = 0
      BY <1>0, <1>2, <1>11, NoBodyCalls
    <3>2. Cur.body \in Nat
      BY <1>0, <1>2, CurTypes DEF Cur
    <3>3. app'.got[parser'.cur] + CountIn(later', OnBody) + (IF parser'.st = "body" THEN parser'.need ELSE 0) = Cur'.body
      BY <1>1, <1>3, <1>5, <1>11, <3>1, <3>2
    <3> QED BY <1>1, <1>5, <1>11, <2>1, <3>3 DEF SeenNow
  <2> QED BY <1>6, <2>1, <2>2, <2>3, <2>4 DEF AnswerInv
<1> QED BY <1>1, <1>8, <1>9, <1>10, <1>11

\* A piece of the body, maybe the last one.
LEMMA BodyAnswers ==
  ASSUME IInv, TurnInv, AnswerInv, BodySeen, ParseBody
  PROVE  AnswerInv' /\ BodySeen'
<1>0. /\ TypeOK /\ Waits /\ Flags /\ later \in Seq(LaterTask) /\ parser \in Parser
      /\ TasksInOrder /\ TasksWhen /\ OneAnswer /\ parser.need \in Nat
  BY Types, CurTypes DEF IInv, TurnInv, AnswerInv
<1> DEFINE e == [op |-> "onBodyData", k |-> parser.cur]
           g == [op |-> "getResponse", k |-> parser.cur]
           q == Append(later, e)
<1>1. /\ parser.st = "body" /\ parser'.cur = parser.cur /\ parser'.status = parser.status
      /\ client' = client /\ req' = req /\ bgq' = bgq /\ resp' = resp /\ app' = app
      /\ \/ parser.need > 1 /\ parser'.st = "body" /\ parser'.need = parser.need - 1 /\ later' = q
         \/ parser.need = 1 /\ parser'.st = NewMessage /\ later' = Append(q, g)
  BY <1>0 DEF ParseBody, Executing, Parser
<1>2. parser.cur # 0 /\ parser.cur \in ReqNo /\ Cur.upgrade = "no" /\ parser.status = 0
  BY <1>0, <1>1, CurTypes DEF Flags
<1>3. ~Over
  BY <1>1 DEF Over, Ended
<1>4. /\ app.promised = {} /\ ~Asks("getResponse") /\ ~Replied("messageDone")
  BY <1>0, <1>3 DEF TasksWhen
<1>5. ~Asks("onHeaders") /\ \A x \in Replies(bgq) : x.op # "headersDone"
  BY <1>0, <1>1, HeadersTasks DEF Asks
<1>6. /\ e \in LaterTask /\ e.op \in NeedsEnv /\ e.op = "onBodyData" /\ e.k = parser.cur /\ e \in OnBody
      /\ g \in LaterTask /\ g.op \in NeedsEnv /\ g.op = "getResponse" /\ g.k = parser.cur /\ g \notin OnBody
  BY <1>2 DEF LaterTask, NeedsEnv, OnBody
<1> HIDE DEF e, g
<1>7. q \in Seq(LaterTask)
  BY <1>0, <1>6, AppendProperties
<1>8. /\ Asked(q) = Asked(later) \cup {e} /\ AskedInOrder(q)
      /\ CountIn(q, OnBody) = CountIn(later, OnBody) + 1 /\ CountIn(later, OnBody) \in Nat
  <2>1. Asked(q) = Asked(later) \cup {e}
    BY <1>0, <1>6, AskedMore
  <2>2. \A x \in Asked(later) : x.op # "getResponse"
    BY <1>4 DEF Asks
  <2>3. AskedInOrder(q)
    BY <1>0, <1>6, <2>2, AskedAppend DEF TasksInOrder
  <2>4. CountIn(q, OnBody) = CountIn(later, OnBody) + (IF e \in OnBody THEN 1 ELSE 0)
    BY <1>0, <1>6, CountAppend
  <2>5. CountIn(later, OnBody) \in Nat
    BY <1>0, CountType
  <2> QED BY <1>6, <2>1, <2>3, <2>4, <2>5
<1> HIDE DEF q
<1>9. /\ Asked(Append(q, g)) = (Asked(later) \cup {e}) \cup {g} /\ AskedInOrder(Append(q, g))
      /\ CountIn(Append(q, g), OnBody) = CountIn(later, OnBody) + 1
  <2>1. Asked(Append(q, g)) = Asked(q) \cup {g}
    BY <1>6, <1>7, AskedMore
  <2>2. \A x \in Asked(q) : x.op # "getResponse"
    BY <1>4, <1>6, <1>8 DEF Asks
  <2>3. AskedInOrder(Append(q, g))
    BY <1>6, <1>7, <1>8, <2>2, AskedAppend
  <2>4. CountIn(Append(q, g), OnBody) = CountIn(q, OnBody) + (IF g \in OnBody THEN 1 ELSE 0)
    BY <1>6, <1>7, CountAppend
  <2> QED BY <1>6, <1>8, <2>1, <2>3, <2>4
<1>10. Cur' = Cur /\ Alive' = Alive
  BY <1>1 DEF Cur, Alive
<1>11. NewMessage \in {"start", "dead"}
  BY DEF NewMessage
<1>12. /\ AskedInOrder(later') /\ CountIn(later', OnBody) = CountIn(later, OnBody) + 1
       /\ \A x \in Asked(later') : x \in Asked(later) \/ x = e \/ x = g
  BY <1>1, <1>8, <1>9
<1>13. TasksInOrder'
  BY <1>0, <1>1, <1>6, <1>12 DEF TasksInOrder
<1>14. TasksWhen'
  <2>1. CASE parser'.st = "body" /\ later' = q
    <3>1. ~Asks("getResponse")' /\ ~Over'
      BY <1>4, <1>6, <1>8, <2>1 DEF Asks, Over, Ended
    <3> QED BY <1>1, <1>4, <2>1, <3>1 DEF TasksWhen, Replied
  <2>2. CASE parser'.st = NewMessage /\ later' = Append(q, g)
    <3>1. Over' /\ Asks("getResponse")'
      BY <1>1, <1>2, <1>6, <1>9, <1>10, <1>11, <2>2 DEF Over, Ended, Asks
    <3> QED BY <1>1, <1>4, <3>1 DEF TasksWhen, Replied
  <2> QED BY <1>1, <2>1, <2>2
<1>15. OneAnswer'
  <2>1. ~Asks("onHeaders")'
    BY <1>5, <1>6, <1>12 DEF Asks
  <2>2. /\ \A x, r \in Finals(resp, parser.cur) : x = r
        /\ Finals(resp, parser.cur) # {} => req.responseScheduled
        /\ \A x \in Replies(bgq) : x.r # 0 => x.r \in Finals(resp, parser.cur) /\ resp[x.r].st = "made"
        /\ \A r \in Finals(resp, parser.cur) : ~(resp[r].st # "made" /\ Alive)
    BY <1>0, <1>1 DEF OneAnswer
  <2>3. parser'.st \in {"body", "start", "dead"}
    BY <1>1, <1>11
  <2> QED BY <1>1, <1>4, <1>5, <1>10, <2>1, <2>2, <2>3 DEF OneAnswer
<1>16. SeenNow'
  <2>1. SeenNow /\ app.called[parser.cur] \in Nat /\ app.got[parser.cur] \in Nat
    BY <1>0, <1>2, Types DEF Application, BodySeen
  <2>2. app.called[parser.cur] = 0
    BY <1>3, <2>1 DEF SeenNow
  <2>3. ASSUME ~req.responseScheduled
        PROVE  /\ ~app.failed[parser.cur]
               /\ app.got[parser.cur] + CountIn(later, OnBody) + parser.need = Cur.body
    BY <1>1, <2>1, <2>3 DEF SeenNow
  <2>4. (IF parser'.st = "body" THEN parser'.need ELSE 0) = parser.need - 1
    BY <1>0, <1>1, <1>11
  <2>5. ASSUME ~req.responseScheduled
        PROVE  app.got[parser.cur] + CountIn(later', OnBody) + (parser.need - 1) = Cur.body
    <3> DEFINE a == app.got[parser.cur]
               c == CountIn(later, OnBody)
               n == parser.need
               d == CountIn(later', OnBody)
    <3>1. a \in Nat /\ c \in Nat /\ n \in Nat /\ d = c + 1 /\ a + c + n = Cur.body
      BY <1>0, <1>8, <1>12, <2>1, <2>3, <2>5
    <3> HIDE DEF a, c, n, d
    <3>2. a + d + (n - 1) = Cur.body
      BY <3>1
    <3> QED BY <3>2 DEF a, d, n
  <2>6. parser'.st \notin {"headers", "wait", "ready"}
    BY <1>1, <1>11
  <2> QED BY <1>1, <1>10, <2>2, <2>3, <2>4, <2>5, <2>6 DEF SeenNow
<1>17. BodySeen'
  <2>1. AppKept /\ parser'.cur \in Nat /\ parser.cur <= parser'.cur
        /\ \A k \in 1..Sent : client'.shape[k] = client.shape[k]
    BY <1>0, <1>1, CurTypes DEF AppKept
  <2> QED BY <1>0, <1>16, <2>1, SeenStep
<1> QED BY <1>13, <1>14, <1>15, <1>17 DEF AnswerInv

-------------------------------------------------------------------------------
(* Answers: the steps of the main thread. *)

\* The application is told something of the current request.
LEMMA SeenUpdate ==
  ASSUME TypeOK, BodySeen, client' = client, parser' = parser,
         \A k \in ReqNo : k # parser.cur =>
           app'.called[k] = app.called[k] /\ app'.got[k] = app.got[k] /\ app'.failed[k] = app.failed[k],
         app'.called[parser.cur] > 0 =>
           /\ app'.called[parser.cur] = 1 /\ ~app'.failed[parser.cur]
           /\ app'.got[parser.cur] = Cur.body,
         SeenNow'
  PROVE  BodySeen'
<1>1. ASSUME NEW k \in ReqNo
      PROVE  /\ k > parser'.cur => app'.called[k] = 0 /\ app'.got[k] = 0 /\ ~app'.failed[k]
             /\ app'.called[k] > 0 =>
                  app'.called[k] = 1 /\ ~app'.failed[k] /\ app'.got[k] = client'.shape[k].body
  <2>1. /\ k > parser.cur => app.called[k] = 0 /\ app.got[k] = 0 /\ ~app.failed[k]
        /\ app.called[k] > 0 =>
             app.called[k] = 1 /\ ~app.failed[k] /\ app.got[k] = client.shape[k].body
    BY DEF BodySeen
  <2>2. k \in Nat /\ parser.cur \in Nat
    BY Types, CurTypes DEF ReqNo
  <2>3. CASE k = parser.cur
    BY <2>2, <2>3 DEF Cur
  <2>4. CASE k # parser.cur
    BY <2>1, <2>4
  <2> QED BY <2>3, <2>4
<1>2. ReqNo' = ReqNo
  BY DEF ReqNo
<1> QED BY <1>1, <1>2 DEF BodySeen

\* The first task for R.
LEMMA FirstAsk ==
  ASSUME TypeOK, TasksInOrder, later # <<>>, Head(later).op \in NeedsEnv
  PROVE  /\ Head(later) \in Asked(later) /\ Asks(Head(later).op)
         /\ Head(later).k = parser.cur /\ parser.cur \in ReqNo /\ parser.cur # 0
         /\ Asked(later) = Asked(Tail(later)) \cup {Head(later)}
         /\ AskedInOrder(Tail(later))
         /\ Tail(later) \in Seq(LaterTask)
<1>1. later \in Seq(LaterTask) /\ Tail(later) \in Seq(LaterTask) /\ Head(later) \in LaterTask
  BY Types, LaterFront
<1>2. TasksOf(later, NeedsEnv) = TasksOf(Tail(later), NeedsEnv)
                                   \cup (IF Head(later).op \in NeedsEnv THEN {Head(later)} ELSE {})
  BY <1>1, TasksTail
<1>3. Asked(later) = Asked(Tail(later)) \cup {Head(later)}
  BY <1>2 DEF Asked
<1>4. Head(later) \in Asked(later)
  BY <1>3
<1>5. Head(later).k \in ReqNo /\ Head(later).k = parser.cur
  BY <1>4, TaskKinds DEF TasksInOrder
<1>6. parser.cur # 0
  BY <1>5, Types DEF ReqNo
<1>7. AskedInOrder(Tail(later))
  BY <1>1, AskedTail DEF TasksInOrder
<1> QED BY <1>1, <1>3, <1>4, <1>5, <1>6, <1>7 DEF Asks

\* A final response to the current request, which has none, is made and handed
\* to the background thread.
LEMMA RespondEffects ==
  ASSUME TypeOK, TasksInOrder, Finals(resp, parser.cur) = {}, parser.cur \in ReqNo,
         Replies(bgq) = {}, NEW op \in Outcome, NEW b \in Nat, Respond(parser.cur, op, "final", b)
  PROVE  /\ Finals(resp', parser.cur) = {Len(resp) + 1} /\ Len(resp) + 1 # 0
         /\ resp'[Len(resp) + 1].st = "made"
         /\ Replies(bgq') = {[op |-> op, k |-> parser.cur, r |-> Len(resp) + 1]}
         /\ RepliesInOrder(bgq')
         /\ \A r \in 1..Len(resp') : resp'[r].req <= parser.cur
         /\ req'.responseScheduled
<1>0. resp \in Seq(Response) /\ bgq \in Seq(BgTask) /\ req \in Request
  BY Types
<1> DEFINE x == NewResponse(parser.cur, "final", b)
           e == [op |-> op, k |-> parser.cur, r |-> Len(resp) + 1]
<1>1. x \in Response /\ x.req = parser.cur /\ x.kind = "final" /\ x.st = "made"
  BY NewResponseType DEF NewResponse
<1>2. resp' = Append(resp, x) /\ bgq' = Append(bgq, e) /\ req' = [req EXCEPT !.responseScheduled = TRUE]
  BY DEF Respond
<1>3. e \in BgTask /\ e.op \in Outcome
  BY <1>0, LenProperties DEF BgTask, Outcome
<1> HIDE DEF x, e
<1>4. /\ Finals(Append(resp, x), parser.cur) = {Len(resp) + 1}
      /\ Append(resp, x)[Len(resp) + 1] = x /\ Len(resp) + 1 # 0
  BY <1>0, <1>1, FinalsAppend
<1>5. \A r \in 1..Len(Append(resp, x)) : Append(resp, x)[r].req <= parser.cur
  <2>1. x.req <= parser.cur
    BY <1>1, CurTypes
  <2> QED BY <1>0, <1>1, <2>1, FinalsAppend DEF TasksInOrder
<1>6. Replies(bgq') = {e} /\ RepliesInOrder(bgq')
  <2>1. Replies(Append(bgq, e)) = Replies(bgq) \cup {e}
    BY <1>0, <1>3, RepliesMore
  <2>2. RepliesInOrder(Append(bgq, e))
    BY <1>0, <1>3, RepliesAppend DEF TasksInOrder
  <2> QED BY <1>2, <2>1, <2>2
<1>7. req'.responseScheduled
  BY <1>0, <1>2 DEF Request
<1> QED BY <1>1, <1>2, <1>4, <1>5, <1>6, <1>7 DEF e

\* R has looked at the headers.
LEMMA OnHeadersAnswers ==
  ASSUME IInv, AnswerInv, BodySeen, CallOnHeaders
  PROVE  AnswerInv' /\ BodySeen'
<1>0. /\ TypeOK /\ Waits /\ TasksInOrder /\ TasksWhen /\ OneAnswer /\ req \in Request
      /\ bgq \in Seq(BgTask) /\ resp \in Seq(Response)
  BY Types DEF IInv, AnswerInv
<1>1. later # <<>> /\ Head(later).op = "onHeaders" /\ later' = Tail(later)
      /\ client' = client /\ parser' = parser /\ app' = app
  BY DEF CallOnHeaders, RunLater
<1>2. /\ Head(later) \in Asked(later) /\ Head(later).k = parser.cur /\ parser.cur \in ReqNo /\ parser.cur # 0
      /\ Asked(later) = Asked(Tail(later)) \cup {Head(later)} /\ AskedInOrder(Tail(later))
      /\ Asks("onHeaders")
  BY <1>0, <1>1, FirstAsk DEF NeedsEnv
<1>3. parser.st = "wait" /\ \A x \in Replies(bgq) : x.op # "headersDone"
  BY <1>0, <1>1, <1>2, HeadersTasks
<1>4. ~Over
  BY <1>3 DEF Over, Ended
<1>5. /\ app.promised = {} /\ Replies(bgq) = {} /\ \A e \in Asked(later) : e.op = "onHeaders"
      /\ Finals(resp, parser.cur) = {} /\ ~req.responseScheduled
  <2>1. app.promised = {} /\ Replies(bgq) = {} /\ \A e \in Asked(later) : e.op = "onHeaders"
    BY <1>0, <1>3, <1>4, QuietTasks
  <2> QED BY <1>0, <1>2, <1>3, <2>1 DEF OneAnswer
<1>6. Asked(later') = {}
  <2> SUFFICES ASSUME NEW e \in Asked(Tail(later)) PROVE FALSE
    BY <1>1
  <2>1. e.op = "onHeaders"
    BY <1>2, <1>5
  <2>2. PICK i \in 1..Len(Tail(later)) : Tail(later)[i] = e
    BY TasksIn DEF Asked
  <2>3. /\ Head(later) = later[1]
        /\ Len(later) \in Nat \ {0} /\ Len(Tail(later)) = Len(later) - 1
        /\ \A j \in 1..Len(later) - 1 : Tail(later)[j] = later[j + 1]
    BY <1>0, <1>1, LaterFront
  <2>4. i + 1 \in 1..Len(later) /\ 1 \in 1..Len(later) /\ i + 1 # 1
    BY <2>3
  <2>5. later[i + 1].op = "onHeaders" /\ later[1].op = "onHeaders"
    BY <1>1, <2>1, <2>2, <2>3
  <2>6. \A m \in 1..Len(later) : later[m].op = "onHeaders" =>
          \A j \in 1..Len(later) : later[j].op = "onHeaders" => j = m
    BY <1>0 DEF Waits
  <2> QED BY <2>4, <2>5, <2>6
<1>7. /\ \A e \in Replies(bgq') : e.op = "headersDone" /\ (e.r = 0 => Finals(resp', parser.cur) = {})
                                  /\ (e.r # 0 => e.r \in Finals(resp', parser.cur) /\ resp'[e.r].st = "made")
      /\ \A q, r \in Finals(resp', parser.cur) : q = r
      /\ \A r \in Finals(resp', parser.cur) : resp'[r].st = "made"
      /\ Finals(resp', parser.cur) = {} => ~req'.responseScheduled
      /\ RepliesInOrder(bgq')
      /\ \A r \in 1..Len(resp') : resp'[r].req <= parser.cur
  <2>1. CASE \E b \in Bodies : Respond(parser.cur, "headersDone", "final", b)
    <3>1. PICK b \in Bodies : Respond(parser.cur, "headersDone", "final", b)
      BY <2>1
    <3>2. b \in Nat /\ "headersDone" \in Outcome
      BY ConstantsAssumption DEF Outcome
    <3>3. /\ Finals(resp', parser.cur) = {Len(resp) + 1} /\ Len(resp) + 1 # 0
          /\ resp'[Len(resp) + 1].st = "made"
          /\ Replies(bgq') = {[op |-> "headersDone", k |-> parser.cur, r |-> Len(resp) + 1]}
          /\ RepliesInOrder(bgq')
          /\ \A r \in 1..Len(resp') : resp'[r].req <= parser.cur
      BY <1>0, <1>2, <1>5, <3>1, <3>2, RespondEffects
    <3> QED BY <3>3
  <2>2. CASE bgq' = Append(bgq, [op |-> "headersDone", k |-> parser.cur, r |-> 0]) /\ req' = req /\ resp' = resp
    <3> DEFINE e == [op |-> "headersDone", k |-> parser.cur, r |-> 0]
    <3>1. e \in BgTask /\ e.op \in Outcome /\ e.op = "headersDone" /\ e.r = 0
      BY <1>2 DEF BgTask, Outcome
    <3>2. bgq' = Append(bgq, e)
      BY <2>2
    <3> HIDE DEF e
    <3>3. Replies(bgq') = {e}
      BY <1>0, <1>5, <3>1, <3>2, RepliesMore
    <3>4. RepliesInOrder(bgq')
      BY <1>0, <1>5, <3>1, <3>2, RepliesAppend DEF TasksInOrder
    <3> QED BY <1>0, <1>5, <2>2, <3>1, <3>3, <3>4 DEF TasksInOrder
  <2>3. \/ \E b \in Bodies : Respond(Head(later).k, "headersDone", "final", b)
        \/ bgq' = Append(bgq, [op |-> "headersDone", k |-> Head(later).k, r |-> 0]) /\ req' = req /\ resp' = resp
    BY Zenon DEF CallOnHeaders
  <2> QED BY <1>2, <2>1, <2>2, <2>3
<1>8. ~Over' /\ AskedInOrder(later') /\ \A op : ~Asks(op)'
  <2>1. Cur' = Cur
    BY <1>1 DEF Cur
  <2> QED BY <1>1, <1>2, <1>3, <1>6 DEF Over, Ended, Asks
<1>9. TasksInOrder'
  BY <1>1, <1>5, <1>6, <1>7, <1>8 DEF TasksInOrder
<1>10. TasksWhen'
  BY <1>1, <1>5, <1>7, <1>8 DEF TasksWhen, Replied
<1>11. OneAnswer'
  BY <1>1, <1>3, <1>5, <1>7, <1>8 DEF OneAnswer
<1>12. BodySeen'
  <2>1. SeenNow /\ app.called[parser.cur] \in Nat
    BY <1>0, <1>2, Types DEF BodySeen, Application
  <2>2. app.called[parser.cur] = 0
    BY <1>4, <2>1 DEF SeenNow
  <2>3. SeenNow'
    BY <1>1, <1>3, <1>8, <2>1, <2>2 DEF SeenNow
  <2>4. AppKept /\ parser'.cur \in Nat /\ parser.cur <= parser'.cur
        /\ \A k \in 1..Sent : client'.shape[k] = client.shape[k]
    BY <1>0, <1>1, CurTypes DEF AppKept
  <2> QED BY <1>0, <2>3, <2>4, SeenStep
<1> QED BY <1>9, <1>10, <1>11, <1>12 DEF AnswerInv

\* Outcomes that name no response, while the body is read or is over: none but
\* the end of the message.
LEMMA NoReplies ==
  ASSUME TypeOK, Written, Waits, OneAnswer, parser.st # "wait", Finals(resp, parser.cur) = {},
         ~Replied("messageDone")
  PROVE  Replies(bgq) = {}
<1> SUFFICES ASSUME NEW e \in Replies(bgq) PROVE FALSE
  OBVIOUS
<1>1. e.op \in Outcome /\ e.op # "messageDone" /\ e.op # "headersDone"
  BY TaskKinds, HeadersTasks DEF Replied
<1>2. e.op = "bodyError" /\ e.r # 0
  BY <1>1 DEF Outcome, Written
<1> QED BY <1>2 DEF OneAnswer

\* R is given a piece of the body.
LEMMA OnBodyAnswers ==
  ASSUME IInv, Written, AnswerInv, BodySeen, CallOnBodyData
  PROVE  AnswerInv' /\ BodySeen'
<1>0. /\ TypeOK /\ Waits /\ TasksInOrder /\ TasksWhen /\ OneAnswer /\ req \in Request
      /\ later \in Seq(LaterTask) /\ app \in Application
  BY Types DEF IInv, AnswerInv
<1>1. later # <<>> /\ Head(later).op = "onBodyData" /\ later' = Tail(later)
      /\ client' = client /\ parser' = parser
  BY DEF CallOnBodyData, RunLater
<1>2. /\ Head(later) \in Asked(later) /\ Head(later).k = parser.cur /\ parser.cur \in ReqNo /\ parser.cur # 0
      /\ Asked(later) = Asked(later') \cup {Head(later)} /\ AskedInOrder(later')
      /\ Asks("onBodyData") /\ later' \in Seq(LaterTask)
  BY <1>0, <1>1, FirstAsk DEF NeedsEnv
<1>3. /\ parser.st = "body" \/ Over
      /\ Over => Asks("getResponse")
      /\ app.promised = {} /\ ~Replied("messageDone")
  <2>1. parser.st = "body" \/ Over
    BY <1>0, <1>2 DEF TasksWhen
  <2>2. Over => Asks("getResponse")
    BY <1>0, <1>2 DEF TasksWhen
  <2>3. parser.st = "body" => ~Over
    BY DEF Over, Ended
  <2> QED BY <1>0, <2>1, <2>2, <2>3 DEF TasksWhen
<1>4. /\ \A op : Asks(op)' => Asks(op)
      /\ Asks("getResponse") => Asks("getResponse")'
  BY <1>1, <1>2 DEF Asks
<1>5. parser.st \in {"body", "start", "dead"} /\ ~Asks("onHeaders")
  <2>1. parser.st \in {"body", "start", "dead"}
    BY <1>3 DEF Over, Ended
  <2> QED BY <1>0, <2>1, HeadersTasks DEF Asks
<1>6. Over' = Over /\ Cur' = Cur
  <2>1. Cur' = Cur
    BY <1>1 DEF Cur
  <2> QED BY <1>1, <2>1, Zenon DEF Over, Ended
<1>7. /\ app.called[parser.cur] = 0 /\ app.got[parser.cur] \in Nat
      /\ ~req.responseScheduled =>
           /\ ~app.failed[parser.cur]
           /\ app.got[parser.cur] + CountIn(later, OnBody)
                + (IF parser.st = "body" THEN parser.need ELSE 0) = Cur.body
  <2>1. SeenNow /\ app.called[parser.cur] \in Nat /\ app.got[parser.cur] \in Nat
    BY <1>0, <1>2 DEF BodySeen, Application
  <2> QED BY <1>3, <2>1 DEF SeenNow
<1>8. CountIn(later', OnBody) \in Nat /\ CountIn(later, OnBody) = CountIn(later', OnBody) + 1
  <2>1. Head(later) \in OnBody
    <3>1. Head(later) \in LaterTask
      BY <1>0, <1>1, LaterFront
    <3> QED BY <1>1, <3>1 DEF OnBody
  <2>2. CountIn(later, OnBody) = CountIn(Tail(later), OnBody) + (IF Head(later) \in OnBody THEN 1 ELSE 0)
    BY <1>0, <1>1, CountTail
  <2>3. CountIn(later', OnBody) \in Nat
    BY <1>2, CountType
  <2> QED BY <1>1, <2>1, <2>2, <2>3
<1>9. \A r \in Finals(resp, parser.cur) : ~(resp[r].st # "made" /\ Alive)
  BY <1>0, <1>2 DEF OneAnswer
<1>10. CASE /\ req' = req /\ bgq' = bgq /\ resp' = resp
            /\ \/ app' = app /\ req.responseScheduled
               \/ app' = [app EXCEPT !.got[parser.cur] = @ + 1] /\ ~req.responseScheduled
  <2>1. /\ app'.promised = app.promised /\ app'.called = app.called /\ app'.failed = app.failed
        /\ \A k \in ReqNo : k # parser.cur => app'.got[k] = app.got[k]
        /\ ~req.responseScheduled => app'.got[parser.cur] = app.got[parser.cur] + 1
    <3>1. CASE app' = app /\ req.responseScheduled
      BY <3>1
    <3>2. CASE app' = [app EXCEPT !.got[parser.cur] = @ + 1] /\ ~req.responseScheduled
      <4>1. app'.promised = app.promised /\ app'.called = app.called /\ app'.failed = app.failed
        BY <1>0, <3>2 DEF Application
      <4>2. app'.got = [app.got EXCEPT ![parser.cur] = @ + 1] /\ app.got \in [ReqNo -> Nat]
        BY <1>0, <3>2 DEF Application
      <4> QED BY <1>2, <4>1, <4>2
    <3> QED BY <1>10, <3>1, <3>2
  <2>2. TasksInOrder'
    BY <1>0, <1>1, <1>2, <1>10, <2>1 DEF TasksInOrder
  <2>3. TasksWhen'
    BY <1>0, <1>1, <1>3, <1>4, <1>6, <1>10, <2>1 DEF TasksWhen, Replied
  <2>4. OneAnswer'
    <3>1. Alive' = Alive
      BY <1>10 DEF Alive
    <3> QED BY <1>0, <1>1, <1>3, <1>4, <1>5, <1>9, <1>10, <2>1, <3>1 DEF OneAnswer
  <2>5. SeenNow'
    <3>1. app'.called[parser.cur] = 0
      BY <1>7, <2>1
    <3>2. ASSUME ~req.responseScheduled
          PROVE  /\ ~app'.failed[parser.cur]
                 /\ app'.got[parser.cur] + CountIn(later', OnBody)
                      + (IF parser.st = "body" THEN parser.need ELSE 0) = Cur.body
      <4> DEFINE a == app.got[parser.cur]
                 b == app'.got[parser.cur]
                 c == CountIn(later, OnBody)
                 d == CountIn(later', OnBody)
                 n == IF parser.st = "body" THEN parser.need ELSE 0
      <4>1. n \in Nat
        BY <1>0, CurTypes
      <4>2. a \in Nat /\ b = a + 1 /\ d \in Nat /\ c = d + 1 /\ a + c + n = Cur.body
        BY <1>7, <1>8, <2>1, <3>2
      <4> HIDE DEF a, b, c, d, n
      <4>3. b + d + n = Cur.body
        BY <4>1, <4>2
      <4> QED BY <1>7, <2>1, <3>2, <4>3 DEF b, d, n
    <3> QED BY <1>1, <1>5, <1>6, <1>10, <3>1, <3>2 DEF SeenNow
  <2>6. BodySeen'
    BY <1>0, <1>1, <1>7, <2>1, <2>5, SeenUpdate
  <2> QED BY <2>2, <2>3, <2>4, <2>6 DEF AnswerInv
<1>11. CASE /\ ~req.responseScheduled /\ app' = [app EXCEPT !.failed[parser.cur] = TRUE]
            /\ Respond(parser.cur, "bodyError", "final", 1)
  <2>1. /\ app'.promised = app.promised /\ app'.called = app.called /\ app'.got = app.got
        /\ \A k \in ReqNo : k # parser.cur => app'.failed[k] = app.failed[k]
    <3>1. app'.promised = app.promised /\ app'.called = app.called /\ app'.got = app.got
      BY <1>0, <1>11 DEF Application
    <3>2. app'.failed = [app.failed EXCEPT ![parser.cur] = TRUE] /\ app.failed \in [ReqNo -> BOOLEAN]
      BY <1>0, <1>11 DEF Application
    <3> QED BY <3>1, <3>2
  <2>2. Finals(resp, parser.cur) = {}
    BY <1>0, <1>2, <1>11 DEF OneAnswer
  <2>3. Replies(bgq) = {}
    BY <1>0, <1>3, <1>5, <2>2, NoReplies
  <2>4. /\ Finals(resp', parser.cur) = {Len(resp) + 1} /\ Len(resp) + 1 # 0
        /\ resp'[Len(resp) + 1].st = "made"
        /\ Replies(bgq') = {[op |-> "bodyError", k |-> parser.cur, r |-> Len(resp) + 1]}
        /\ RepliesInOrder(bgq')
        /\ \A r \in 1..Len(resp') : resp'[r].req <= parser.cur
        /\ req'.responseScheduled
    <3>1. "bodyError" \in Outcome /\ 1 \in Nat
      BY DEF Outcome
    <3> QED BY <1>0, <1>2, <1>11, <2>2, <2>3, <3>1, RespondEffects
  <2>5. TasksInOrder'
    BY <1>0, <1>1, <1>2, <2>1, <2>4 DEF TasksInOrder
  <2>6. TasksWhen'
    <3>1. ~Replied("messageDone")'
      BY <2>4 DEF Replied
    <3> QED BY <1>0, <1>1, <1>3, <1>4, <1>6, <2>1, <3>1 DEF TasksWhen
  <2>7. OneAnswer'
    <3>1. ~Asks("onHeaders")' /\ app'.promised = {}
      BY <1>3, <1>4, <1>5, <2>1
    <3>2. \A e \in Replies(bgq') : e.op = "bodyError" /\ e.r # 0 /\ e.r = Len(resp) + 1
      BY <2>4
    <3> QED BY <1>1, <1>5, <2>4, <3>1, <3>2 DEF OneAnswer
  <2>8. SeenNow'
    BY <1>1, <1>5, <1>7, <2>1, <2>4 DEF SeenNow
  <2>9. BodySeen'
    BY <1>0, <1>1, <1>7, <2>1, <2>8, SeenUpdate
  <2> QED BY <2>5, <2>6, <2>7, <2>9 DEF AnswerInv
<1>12. \/ req.responseScheduled /\ UNCHANGED <<req, bgq, resp, app>>
       \/ /\ ~req.responseScheduled
          /\ app' = [app EXCEPT !.got[Head(later).k] = @ + 1]
          /\ UNCHANGED <<req, bgq, resp>>
       \/ /\ ~req.responseScheduled
          /\ app' = [app EXCEPT !.failed[Head(later).k] = TRUE]
          /\ Respond(Head(later).k, "bodyError", "final", 1)
  BY Zenon DEF CallOnBodyData
<1>13. Head(later).k = parser.cur
  BY <1>2
<1>14. \/ req.responseScheduled /\ UNCHANGED <<req, bgq, resp, app>>
       \/ /\ ~req.responseScheduled
          /\ app' = [app EXCEPT !.got[parser.cur] = @ + 1]
          /\ UNCHANGED <<req, bgq, resp>>
       \/ /\ ~req.responseScheduled
          /\ app' = [app EXCEPT !.failed[parser.cur] = TRUE]
          /\ Respond(parser.cur, "bodyError", "final", 1)
  BY <1>12, <1>13
<1>15. CASE req.responseScheduled /\ UNCHANGED <<req, bgq, resp, app>>
  BY <1>10, <1>15, Zenon
<1>16. CASE /\ ~req.responseScheduled
            /\ app' = [app EXCEPT !.got[parser.cur] = @ + 1]
            /\ UNCHANGED <<req, bgq, resp>>
  BY <1>10, <1>16, Zenon
<1> QED BY <1>11, <1>14, <1>15, <1>16, Zenon

\* R is asked for the response.
LEMMA GetResponseAnswers ==
  ASSUME IInv, Written, AnswerInv, BodySeen, CallGetResponse
  PROVE  AnswerInv' /\ BodySeen'
<1>0. /\ TypeOK /\ Waits /\ TasksInOrder /\ TasksWhen /\ OneAnswer /\ req \in Request
      /\ later \in Seq(LaterTask) /\ app \in Application /\ bgq \in Seq(BgTask)
  BY Types DEF IInv, AnswerInv
<1>1. later # <<>> /\ Head(later).op = "getResponse" /\ later' = Tail(later)
      /\ client' = client /\ parser' = parser
  BY DEF CallGetResponse, RunLater
<1>2. /\ Head(later) \in Asked(later) /\ Head(later).k = parser.cur /\ parser.cur \in ReqNo /\ parser.cur # 0
      /\ AskedInOrder(later') /\ Asks("getResponse") /\ later' \in Seq(LaterTask)
  BY <1>0, <1>1, FirstAsk DEF NeedsEnv
<1>3. Asked(later') = {}
  BY <1>0, <1>1, AskedTail DEF TasksInOrder
<1>4. Over /\ app.promised = {} /\ ~Replied("messageDone")
  BY <1>0, <1>2 DEF TasksWhen
<1>5. parser.st \in {"start", "dead"} /\ \A x \in Replies(bgq) : x.op = "bodyError"
  <2>1. parser.st \in {"start", "dead"}
    BY <1>4 DEF Over, Ended
  <2>2. \A x \in Replies(bgq) : x.op \in Outcome /\ x.op # "headersDone" /\ x.op # "messageDone"
    BY <1>0, <1>4, <2>1, HeadersTasks, TaskKinds DEF Replied
  <2> QED BY <2>1, <2>2 DEF Outcome
<1>6. Over' = Over /\ Cur' = Cur /\ \A op : ~Asks(op)'
  <2>1. Cur' = Cur
    BY <1>1 DEF Cur
  <2>2. Over' = Over
    BY <1>1, <2>1, Zenon DEF Over, Ended
  <2> QED BY <1>3, <2>1, <2>2 DEF Asks
<1>7. /\ app.called[parser.cur] = 0
      /\ ~req.responseScheduled => ~app.failed[parser.cur] /\ app.got[parser.cur] = Cur.body
  <2>1. SeenNow /\ app.called[parser.cur] \in Nat /\ app.got[parser.cur] \in Nat
    BY <1>0, <1>2 DEF BodySeen, Application
  <2>2. CountIn(later, OnBody) = 0
    <3>1. Head(later) \notin OnBody
      BY <1>1 DEF OnBody
    <3>2. CountIn(later, OnBody) = CountIn(Tail(later), OnBody) + (IF Head(later) \in OnBody THEN 1 ELSE 0)
      BY <1>0, <1>1, CountTail
    <3>3. CountIn(later', OnBody) = 0
      BY <1>2, <1>3, NoBodyCalls
    <3> QED BY <1>1, <3>1, <3>2, <3>3
  <2>3. app.called[parser.cur] = 0
    BY <1>2, <2>1 DEF SeenNow
  <2>4. ASSUME ~req.responseScheduled
        PROVE  ~app.failed[parser.cur] /\ app.got[parser.cur] + 0 + 0 = Cur.body
    BY <1>2, <1>5, <2>1, <2>2, <2>4 DEF SeenNow
  <2> QED BY <2>1, <2>3, <2>4
<1>8. \A r \in Finals(resp, parser.cur) : ~(resp[r].st # "made" /\ Alive)
  BY <1>0, <1>2 DEF OneAnswer
<1>9. ~req.responseScheduled => Finals(resp, parser.cur) = {} /\ Replies(bgq) = {}
  <2>1. ~req.responseScheduled => Finals(resp, parser.cur) = {}
    BY <1>0, <1>2 DEF OneAnswer
  <2> QED BY <1>0, <1>4, <1>5, <2>1, NoReplies
\* What R was told, and whether it was asked.
<1>10. ASSUME app' = app \/ (~req.responseScheduled /\ app'.called[parser.cur] = 1
                /\ (\A k \in ReqNo : k # parser.cur => app'.called[k] = app.called[k])
                /\ app'.got = app.got /\ app'.failed = app.failed)
       PROVE  BodySeen'
  <2>1. app'.got = app.got /\ app'.failed = app.failed
        /\ (\A k \in ReqNo : k # parser.cur => app'.called[k] = app.called[k])
    BY <1>10
  <2>2. app'.called[parser.cur] > 0 => /\ app'.called[parser.cur] = 1 /\ ~app'.failed[parser.cur]
                                       /\ app'.got[parser.cur] = Cur.body
    BY <1>7, <1>10
  <2>3. SeenNow'
    BY <1>1, <1>4, <1>5, <1>6 DEF SeenNow
  <2> QED BY <1>0, <1>1, <2>1, <2>2, <2>3, SeenUpdate
\* No response.
<1>11. ASSUME req' = [req EXCEPT !.responseScheduled = TRUE],
              bgq' = Append(bgq, [op |-> "messageDone", k |-> parser.cur, r |-> 0]),
              resp' = resp, app'.promised = {}
       PROVE  AnswerInv'
  <2> DEFINE e == [op |-> "messageDone", k |-> parser.cur, r |-> 0]
  <2>1. e \in BgTask /\ e.op \in Outcome /\ e.op = "messageDone" /\ e.r = 0
    BY <1>2 DEF BgTask, Outcome
  <2>2. bgq' = Append(bgq, e)
    BY <1>11
  <2> HIDE DEF e
  <2>3. Replies(bgq') = Replies(bgq) \cup {e}
    BY <1>0, <2>1, <2>2, RepliesMore
  <2>4. RepliesInOrder(bgq')
    BY <1>0, <1>5, <2>1, <2>2, RepliesAppend DEF TasksInOrder
  <2>5. req'.responseScheduled /\ Alive' = Alive
    BY <1>0, <1>11 DEF Request, Alive
  <2>6. TasksInOrder'
    BY <1>0, <1>1, <1>2, <1>3, <1>11, <2>4 DEF TasksInOrder
  <2>7. TasksWhen'
    BY <1>1, <1>4, <1>6, <1>11 DEF TasksWhen
  <2>8. OneAnswer'
    <3>1. \A x \in Replies(bgq') : /\ x.op # "headersDone"
                                   /\ x.r # 0 => x.r \in Finals(resp', parser.cur) /\ resp'[x.r].st = "made"
      BY <1>0, <1>5, <1>11, <2>1, <2>3 DEF OneAnswer
    <3>2. \A q, r \in Finals(resp, parser.cur) : q = r
      BY <1>0 DEF OneAnswer
    <3>3. parser'.st \in {"start", "dead"} /\ parser'.cur = parser.cur
      BY <1>1, <1>5
    <3> QED BY <1>6, <1>8, <1>11, <2>5, <3>1, <3>2, <3>3 DEF OneAnswer
  <2> QED BY <2>6, <2>7, <2>8 DEF AnswerInv
<1>12. CASE /\ req.responseScheduled /\ app' = app
            /\ req' = [req EXCEPT !.responseScheduled = TRUE]
            /\ bgq' = Append(bgq, [op |-> "messageDone", k |-> parser.cur, r |-> 0])
            /\ resp' = resp
  BY <1>4, <1>10, <1>11, <1>12
<1>13. ASSUME app' = [app EXCEPT !.called[parser.cur] = @ + 1]
                \/ (\E P : app' = [[app EXCEPT !.called[parser.cur] = @ + 1] EXCEPT !.promised = P])
                \/ (\E P : app' = [[app EXCEPT !.called[parser.cur] = @ + 1] EXCEPT !.declined = P]),
              ~req.responseScheduled
       PROVE  BodySeen'
  <2> DEFINE call == [app EXCEPT !.called[parser.cur] = @ + 1]
  <2>a. app.called \in [ReqNo -> Nat]
    BY <1>0 DEF Application
  <2>b. call.got = app.got /\ call.failed = app.failed /\ call.called = [app.called EXCEPT ![parser.cur] = @ + 1]
    BY <1>0 DEF Application
  <2>c. call \in Application
    <3>1. [app.called EXCEPT ![parser.cur] = @ + 1] \in [ReqNo -> Nat]
      BY <1>2, <2>a
    <3>2. \A f \in [ReqNo -> Nat] : [app EXCEPT !.called = f] \in Application
      BY <1>0 DEF Application
    <3>3. call = [app EXCEPT !.called = [app.called EXCEPT ![parser.cur] = @ + 1]]
      BY <1>0 DEF Application
    <3> QED BY <3>1, <3>2, <3>3
  <2>1. call \in Application /\ call.got = app.got /\ call.failed = app.failed
        /\ call.called = [app.called EXCEPT ![parser.cur] = @ + 1] /\ app.called \in [ReqNo -> Nat]
    BY <2>a, <2>b, <2>c
  <2> HIDE DEF call
  <2>2. app' = call \/ (\E P : app' = [call EXCEPT !.promised = P]) \/ (\E P : app' = [call EXCEPT !.declined = P])
    BY <1>13 DEF call
  <2>3. app'.called = call.called /\ app'.got = call.got /\ app'.failed = call.failed
    BY <2>1, <2>2 DEF Application
  <2>4. app'.called[parser.cur] = 1 /\ \A k \in ReqNo : k # parser.cur => app'.called[k] = app.called[k]
    BY <1>2, <1>7, <2>1, <2>3
  <2> QED BY <1>10, <1>13, <2>1, <2>3, <2>4
<1>14. CASE /\ ~req.responseScheduled /\ \E b \in Bodies : Respond(parser.cur, "messageDone", "final", b)
            /\ app' = [app EXCEPT !.called[parser.cur] = @ + 1]
  <2>1. PICK b \in Bodies : Respond(parser.cur, "messageDone", "final", b)
    BY <1>14
  <2>2. b \in Nat /\ "messageDone" \in Outcome
    BY ConstantsAssumption DEF Outcome
  <2>3. /\ Finals(resp', parser.cur) = {Len(resp) + 1} /\ Len(resp) + 1 # 0
        /\ resp'[Len(resp) + 1].st = "made"
        /\ Replies(bgq') = {[op |-> "messageDone", k |-> parser.cur, r |-> Len(resp) + 1]}
        /\ RepliesInOrder(bgq')
        /\ \A r \in 1..Len(resp') : resp'[r].req <= parser.cur
        /\ req'.responseScheduled
    BY <1>0, <1>2, <1>9, <1>14, <2>1, <2>2, RespondEffects
  <2>4. app'.promised = {}
    BY <1>0, <1>4, <1>14 DEF Application
  <2>5. TasksInOrder'
    BY <1>1, <1>2, <1>3, <2>3, <2>4 DEF TasksInOrder
  <2>6. TasksWhen'
    <3>1. ~Replied("bodyError")'
      BY <2>3 DEF Replied
    <3> QED BY <1>4, <1>6, <2>4, <3>1 DEF TasksWhen
  <2>7. OneAnswer'
    <3>1. \A x \in Replies(bgq') : x.op # "headersDone" /\ x.r = Len(resp) + 1
      BY <2>3
    <3>2. parser'.st \in {"start", "dead"} /\ parser'.cur = parser.cur
      BY <1>1, <1>5
    <3> QED BY <1>6, <2>3, <2>4, <3>1, <3>2 DEF OneAnswer
  <2> QED BY <1>13, <1>14, <2>5, <2>6, <2>7 DEF AnswerInv
<1>15. CASE /\ ~req.responseScheduled /\ req' = req /\ bgq' = bgq /\ resp' = resp
            /\ app' = [[app EXCEPT !.called[parser.cur] = @ + 1] EXCEPT !.promised = @ \cup {parser.cur}]
  <2>1. app'.promised = {parser.cur}
    BY <1>0, <1>4, <1>15 DEF Application
  <2>2. TasksInOrder'
    BY <1>0, <1>1, <1>2, <1>3, <1>15, <2>1 DEF TasksInOrder
  <2>3. TasksWhen'
    BY <1>4, <1>6, <1>9, <1>15, <2>1 DEF TasksWhen, Replied
  <2>4. OneAnswer'
    <3>2. parser'.st \in {"start", "dead"} /\ parser'.cur = parser.cur
      BY <1>1, <1>5
    <3> QED BY <1>6, <1>9, <1>15, <3>2 DEF OneAnswer
  <2>5. BodySeen'
    <3>1. \E P : app' = [[app EXCEPT !.called[parser.cur] = @ + 1] EXCEPT !.promised = P]
      <4> DEFINE call == [app EXCEPT !.called[parser.cur] = @ + 1]
      <4>1. app' = [call EXCEPT !.promised = call.promised \cup {parser.cur}]
        BY <1>15
      <4> HIDE DEF call
      <4>2. \E P : app' = [call EXCEPT !.promised = P]
        BY <4>1, Zenon
      <4> QED BY <4>2 DEF call
    <3> QED BY <1>13, <1>15, <3>1
  <2> QED BY <2>2, <2>3, <2>4, <2>5 DEF AnswerInv
<1>16. CASE /\ ~req.responseScheduled
            /\ req' = [req EXCEPT !.responseScheduled = TRUE]
            /\ bgq' = Append(bgq, [op |-> "messageDone", k |-> parser.cur, r |-> 0])
            /\ resp' = resp
            /\ app' = [[app EXCEPT !.called[parser.cur] = @ + 1] EXCEPT !.declined = @ \cup {parser.cur}]
  <2>1. app'.promised = {}
    BY <1>0, <1>4, <1>16 DEF Application
  <2>2. BodySeen'
    <3>1. \E P : app' = [[app EXCEPT !.called[parser.cur] = @ + 1] EXCEPT !.declined = P]
      <4> DEFINE call == [app EXCEPT !.called[parser.cur] = @ + 1]
      <4>1. app' = [call EXCEPT !.declined = call.declined \cup {parser.cur}]
        BY <1>16
      <4> HIDE DEF call
      <4>2. \E P : app' = [call EXCEPT !.declined = P]
        BY <4>1, Zenon
      <4> QED BY <4>2 DEF call
    <3> QED BY <1>13, <1>16, <3>1
  <2> QED BY <1>11, <1>16, <2>1, <2>2
<1>17. LET k == Head(later).k
           noResponse == /\ req' = [req EXCEPT !.responseScheduled = TRUE]
                         /\ bgq' = Append(bgq, [op |-> "messageDone", k |-> k, r |-> 0])
                         /\ resp' = resp
           call == [app EXCEPT !.called[k] = @ + 1] IN
       \/ req.responseScheduled /\ noResponse /\ app' = app
       \/ /\ ~req.responseScheduled
          /\ \E b \in Bodies : Respond(k, "messageDone", "final", b)
          /\ app' = call
       \/ /\ ~req.responseScheduled
          /\ app' = [call EXCEPT !.promised = @ \cup {k}]
          /\ req' = req /\ bgq' = bgq /\ resp' = resp
       \/ /\ ~req.responseScheduled
          /\ noResponse
          /\ app' = [call EXCEPT !.declined = @ \cup {k}]
  BY DEF CallGetResponse
<1>18. LET k == parser.cur
           noResponse == /\ req' = [req EXCEPT !.responseScheduled = TRUE]
                         /\ bgq' = Append(bgq, [op |-> "messageDone", k |-> k, r |-> 0])
                         /\ resp' = resp
           call == [app EXCEPT !.called[k] = @ + 1] IN
       \/ req.responseScheduled /\ noResponse /\ app' = app
       \/ /\ ~req.responseScheduled
          /\ \E b \in Bodies : Respond(k, "messageDone", "final", b)
          /\ app' = call
       \/ /\ ~req.responseScheduled
          /\ app' = [call EXCEPT !.promised = @ \cup {k}]
          /\ req' = req /\ bgq' = bgq /\ resp' = resp
       \/ /\ ~req.responseScheduled
          /\ noResponse
          /\ app' = [call EXCEPT !.declined = @ \cup {k}]
  <2>1. Head(later).k = parser.cur
    BY <1>2
  <2> QED BY <1>17, <2>1
<1> QED BY <1>12, <1>14, <1>15, <1>16, <1>18, Zenon

\* A promise is resolved.
LEMMA PromiseAnswers ==
  ASSUME IInv, Written, AnswerInv, BodySeen, PromiseResolves
  PROVE  AnswerInv' /\ BodySeen'
<1>0. /\ TypeOK /\ Waits /\ TasksInOrder /\ TasksWhen /\ OneAnswer /\ app \in Application
  BY Types DEF IInv, AnswerInv
<1>1. PICK k \in app.promised, b \in Bodies :
        Respond(k, "messageDone", "final", b) /\ app' = [app EXCEPT !.promised = @ \ {k}]
  BY DEF PromiseResolves
<1>2. k = parser.cur /\ k \in ReqNo /\ app.promised = {parser.cur} /\ parser.cur # 0
  BY <1>0, <1>1, Types DEF TasksInOrder, Application, ReqNo
<1>3. client' = client /\ parser' = parser /\ later' = later
  BY DEF PromiseResolves
<1>4. /\ Over /\ ~Asks("getResponse") /\ ~Asks("onBodyData") /\ ~Replied("messageDone")
      /\ Finals(resp, parser.cur) = {}
  BY <1>0, <1>2 DEF TasksWhen, OneAnswer
<1>5. parser.st \in {"start", "dead"}
  BY <1>4 DEF Over, Ended
<1>6. Asked(later) = {} /\ Replies(bgq) = {}
  <2>1. ~Asks("onHeaders")
    BY <1>0, <1>5, HeadersTasks DEF Asks
  <2>2. Asked(later) = {}
    BY <1>0, <1>4, <2>1, TaskKinds DEF Asks, NeedsEnv
  <2>3. Replies(bgq) = {}
    BY <1>0, <1>4, <1>5, NoReplies
  <2> QED BY <2>2, <2>3
<1>7. b \in Nat /\ "messageDone" \in Outcome
  BY ConstantsAssumption DEF Outcome
<1>8. /\ Finals(resp', parser.cur) = {Len(resp) + 1} /\ Len(resp) + 1 # 0
      /\ resp'[Len(resp) + 1].st = "made"
      /\ Replies(bgq') = {[op |-> "messageDone", k |-> parser.cur, r |-> Len(resp) + 1]}
      /\ RepliesInOrder(bgq')
      /\ \A r \in 1..Len(resp') : resp'[r].req <= parser.cur
      /\ req'.responseScheduled
  <2>1. Respond(parser.cur, "messageDone", "final", b) /\ parser.cur \in ReqNo
    BY <1>1, <1>2
  <2> QED BY <1>0, <1>4, <1>6, <1>7, <2>1, RespondEffects
<1>9. app'.promised = {} /\ app'.got = app.got /\ app'.failed = app.failed /\ app'.called = app.called
  BY <1>0, <1>1, <1>2 DEF Application
<1>10. Over' = Over /\ Cur' = Cur /\ \A op : ~Asks(op)'
  <2>1. Cur' = Cur
    BY <1>3 DEF Cur
  <2>2. Over' = Over
    BY <1>3, <2>1, Zenon DEF Over, Ended
  <2> QED BY <1>3, <1>6, <2>1, <2>2 DEF Asks
<1>11. TasksInOrder'
  BY <1>0, <1>3, <1>6, <1>8, <1>9 DEF TasksInOrder
<1>12. TasksWhen'
  <2>1. ~Replied("bodyError")'
    BY <1>8 DEF Replied
  <2> QED BY <1>4, <1>9, <1>10, <2>1 DEF TasksWhen
<1>13. OneAnswer'
  <2>1. \A x \in Replies(bgq') : x.op # "headersDone" /\ x.r = Len(resp) + 1
    BY <1>8
  <2> QED BY <1>3, <1>5, <1>8, <1>9, <1>10, <2>1 DEF OneAnswer
<1>14. BodySeen'
  <2>1. SeenNow'
    BY <1>3, <1>4, <1>5, <1>10 DEF SeenNow
  <2>2. app'.called[parser.cur] > 0 => /\ app'.called[parser.cur] = 1 /\ ~app'.failed[parser.cur]
                                       /\ app'.got[parser.cur] = Cur.body
    BY <1>2, <1>9 DEF BodySeen, Cur
  <2> QED BY <1>0, <1>3, <1>9, <2>1, <2>2, SeenUpdate
<1> QED BY <1>11, <1>12, <1>13, <1>14 DEF AnswerInv

\* The first task of the background queue is an outcome: what is behind it.
LEMMA FirstOutcome ==
  ASSUME TypeOK, Written, TasksInOrder, bgq # <<>>, Head(bgq).op \in Outcome
  PROVE  /\ Head(bgq) \in Replies(bgq) /\ Head(bgq).r \in Nat
         /\ Head(bgq).r # 0 => Head(bgq).r \in 1..Len(resp)
         /\ Head(bgq).op = "bodyError" => Head(bgq).r # 0
         /\ RepliesInOrder(Tail(bgq)) /\ Replies(Tail(bgq)) \subseteq Replies(bgq)
         /\ \A x \in Replies(Tail(bgq)) : Head(bgq).op = "bodyError" /\ x.op = "messageDone" /\ x.r = 0
<1>0. bgq \in Seq(BgTask) /\ RepliesInOrder(bgq)
  BY Types DEF TasksInOrder
<1>1. /\ Head(bgq) \in Replies(bgq) /\ (Head(bgq).r # 0 => Head(bgq).r \in 1..Len(resp))
  BY FirstReply
<1>2. Head(bgq).r \in Nat /\ (Head(bgq).op = "bodyError" => Head(bgq).r # 0)
  BY <1>1, TaskKinds DEF Written
<1>3. RepliesInOrder(Tail(bgq))
      /\ \A x \in Replies(Tail(bgq)) : Head(bgq).op = "bodyError" /\ x.op = "messageDone" /\ x.r = 0
  BY <1>0, RepliesTail
<1>4. TasksOf(bgq, Outcome) = TasksOf(Tail(bgq), Outcome) \cup {Head(bgq)}
  BY <1>0, TasksTail
<1> QED BY <1>1, <1>2, <1>3, <1>4 DEF Replies

\* A response is written, or a 100 or a 101 is made: the final responses remain.
LEMMA SameFinals ==
  ASSUME TypeOK, HandedOver, Waits, Written, TasksInOrder,
         HeadersCompleteComplete \/ BodyError \/ MessageCompleteComplete \/ UpgradeConnection
  PROVE  /\ Finals(resp', parser.cur) = Finals(resp, parser.cur)
         /\ \A r \in 1..Len(resp') : resp'[r].req <= parser.cur
         /\ UpgradeConnection => \A r \in Finals(resp, parser.cur) : resp'[r] = resp[r]
<1>0. resp \in Seq(Response) /\ parser.cur \in Nat /\ \A r \in 1..Len(resp) : resp[r].req <= parser.cur
  BY Types, CurTypes DEF TasksInOrder
<1>1. ASSUME NEW e \in Response, e.req = parser.cur, e.kind # "final", resp' = Append(resp, e)
      PROVE  /\ Finals(resp', parser.cur) = Finals(resp, parser.cur)
             /\ \A r \in 1..Len(resp') : resp'[r].req <= parser.cur
             /\ \A r \in Finals(resp, parser.cur) : resp'[r] = resp[r]
  <2>1. e.req <= parser.cur
    BY <1>0, <1>1
  <2>2. Finals(Append(resp, e), parser.cur) = Finals(resp, parser.cur)
        /\ \A r \in Finals(resp, parser.cur) : Append(resp, e)[r] = resp[r]
    <3>1. /\ Finals(Append(resp, e), parser.cur) = Finals(resp, parser.cur)
                \cup (IF e.req = parser.cur /\ e.kind = "final" THEN {Len(resp) + 1} ELSE {})
          /\ \A i \in Finals(resp, parser.cur) : Append(resp, e)[i] = resp[i]
      BY <1>0, FinalsAppend
    <3>2. ~(e.req = parser.cur /\ e.kind = "final")
      BY <1>1
    <3> QED BY <3>1, <3>2
  <2>3. \A r \in 1..Len(Append(resp, e)) : Append(resp, e)[r].req <= parser.cur
    BY <1>0, <1>1, <2>1, FinalsAppend
  <2> QED BY <1>1, <2>2, <2>3
<1>2. CASE UpgradeConnection
  <2> DEFINE e == [NewResponse(parser.cur, "switch", 0) EXCEPT !.st = HeadState(req)]
  <2>1. resp' = resp \/ (resp' = Append(resp, e) /\ req.isUpgrade)
    BY <1>2 DEF UpgradeConnection
  <2>2. ASSUME req.isUpgrade PROVE e \in Response /\ e.req = parser.cur /\ e.kind # "final"
    BY <2>2, UpgradeRequest, NewResponseType DEF NewResponse
  <2> HIDE DEF e
  <2> QED BY <1>0, <1>1, <2>1, <2>2
<1>3. CASE HeadersCompleteComplete \/ BodyError \/ MessageCompleteComplete
  <2> DEFINE r == Head(bgq).r
             e == [NewResponse(parser.cur, "continue", 0) EXCEPT !.st = HeadState(req)]
  <2>1. bgq # <<>> /\ Head(bgq).op \in Outcome
    BY <1>3 DEF HeadersCompleteComplete, BodyError, MessageCompleteComplete, Flush, Outcome
  <2>2. (r # 0 => r \in 1..Len(resp)) /\ (Head(bgq).op = "bodyError" => r \in 1..Len(resp))
    BY <2>1, FirstReply
  <2>3. HeadState(req) # "made"
    BY DEF HeadState
  <2>4. \/ \E close : resp' = [resp EXCEPT ![r].closeAfter = close, ![r].st = HeadState(req)] /\ r \in 1..Len(resp)
        \/ resp' = [resp EXCEPT ![r].st = "gone"] /\ r \in 1..Len(resp)
        \/ resp' = resp
        \/ resp' = Append(resp, e) /\ HeadersCompleteComplete
    <3>1. CASE HeadersCompleteComplete
      BY <2>2, <3>1, Zenon DEF HeadersCompleteComplete, WriteResponse
    <3>2. CASE BodyError
      <4>1. r \in 1..Len(resp)
        BY <2>2, <3>2 DEF BodyError, Flush
      <4> QED BY <3>2, <4>1, Zenon DEF BodyError, WriteResponse
    <3>3. CASE MessageCompleteComplete
      BY <2>2, <3>3, Zenon DEF MessageCompleteComplete, WriteResponse
    <3> QED BY <1>3, <3>1, <3>2, <3>3
  <2>5. ASSUME HeadersCompleteComplete PROVE e \in Response /\ e.req = parser.cur /\ e.kind # "final"
    <3>1. Head(bgq) = bgq[1] /\ 1 \in 1..Len(bgq) /\ Head(bgq).op = "headersDone"
      BY <2>1, <2>5, BgFront DEF HeadersCompleteComplete, Flush
    <3>2. parser.st = "wait"
      BY <3>1 DEF Waits
    <3> QED BY <3>2, ParserTypes, NewResponseType DEF NewResponse
  <2>a. ~UpgradeConnection
    <3>1. BgIdle
      BY <1>3 DEF HeadersCompleteComplete, BodyError, MessageCompleteComplete, Flush
    <3> QED BY <3>1 DEF BgIdle, UpgradeConnection, ExecuteReturns
  <2> HIDE DEF r, e
  <2>7. ASSUME RespWritten(resp, resp', r)
        PROVE  /\ Finals(resp', parser.cur) = Finals(resp, parser.cur)
               /\ \A i \in 1..Len(resp') : resp'[i].req <= parser.cur
    <3>1. Len(resp') = Len(resp) /\ \A i \in 1..Len(resp) : SameResponse(resp[i], resp'[i])
      BY <2>7 DEF RespWritten
    <3> QED BY <1>0, <3>1, FinalsAlike
  <2>8. CASE \E close : resp' = [resp EXCEPT ![r].closeAfter = close, ![r].st = HeadState(req)] /\ r \in 1..Len(resp)
    <3>1. PICK close : resp' = [resp EXCEPT ![r].closeAfter = close, ![r].st = HeadState(req)] /\ r \in 1..Len(resp)
      BY <2>8
    <3>2. RespWritten(resp, [resp EXCEPT ![r].closeAfter = close, ![r].st = HeadState(req)], r)
      BY <1>0, <2>3, <3>1, RespUpdate
    <3> QED BY <2>7, <2>a, <3>1, <3>2, Zenon
  <2>9. CASE resp' = [resp EXCEPT ![r].st = "gone"] /\ r \in 1..Len(resp)
    <3>1. RespWritten(resp, [resp EXCEPT ![r].st = "gone"], r)
      BY <1>0, <2>9, RespUpdate
    <3> QED BY <2>7, <2>9, <2>a, <3>1, Zenon
  <2> QED BY <1>0, <1>1, <2>4, <2>5, <2>8, <2>9, <2>a
<1> QED BY <1>2, <1>3

\* The parser goes on after the headers.
LEMMA ResumeAnswers ==
  ASSUME IInv, Written, AnswerInv, BodySeen, HeadersCompleteComplete
  PROVE  AnswerInv' /\ BodySeen'
<1>0. TypeOK /\ HandedOver /\ Waits /\ InStep /\ TasksInOrder /\ TasksWhen /\ OneAnswer /\ later \in Seq(LaterTask)
  BY Types DEF IInv, AnswerInv
<1>1. /\ parser.st = "wait" /\ parser'.st = "ready" /\ parser'.cur = parser.cur /\ parser.cur # 0
      /\ req'.responseScheduled = req.responseScheduled
      /\ parser'.status = (IF Head(bgq).r # 0 THEN 3 ELSE 0)
      /\ Head(bgq).r # 0 /\ ~req'.ignoreNewData => Cur.keep /\ ~Cur.length
      /\ client' = client /\ later' = later /\ app' = app /\ bgq' = Tail(bgq)
      /\ bgq # <<>> /\ Head(bgq).op = "headersDone"
  BY <1>0, ResumeEffects
<1>2. Cur' = Cur /\ Sent' = Sent
  BY <1>1 DEF Cur, Sent
<1>3. /\ Head(bgq) \in Replies(bgq) /\ RepliesInOrder(Tail(bgq)) /\ Replies(Tail(bgq)) = {}
  <2>1. Head(bgq).op \in Outcome /\ Head(bgq).op # "bodyError"
    BY <1>1 DEF Outcome
  <2> QED BY <1>0, <1>1, <2>1, FirstOutcome
<1>4. ~Over
  BY <1>1 DEF Over, Ended
<1>5. Asked(later) = {} /\ app.promised = {}
  <2>1. app.promised = {} /\ \A e \in Asked(later) : e.op = "onHeaders"
    BY <1>0, <1>1, <1>4, QuietTasks
  <2>2. \A e \in Asked(later) : e.op # "onHeaders"
    BY <1>0, <1>1, <1>3, HeadersTasks
  <2> QED BY <2>1, <2>2
<1>6. /\ TasksWhen' /\ AskedInOrder(later') /\ RepliesInOrder(bgq') /\ \A op : ~Asks(op)'
  BY <1>1, <1>3, <1>5, QuietAnswer
<1>7. /\ Finals(resp', parser.cur) = Finals(resp, parser.cur)
      /\ \A r \in 1..Len(resp') : resp'[r].req <= parser.cur
  BY <1>0, SameFinals
<1>8. TasksInOrder'
  BY <1>1, <1>5, <1>6, <1>7 DEF TasksInOrder
<1>9. OneAnswer'
  <2>1. Head(bgq).r = 0 => Finals(resp, parser.cur) = {} /\ ~req.responseScheduled
    BY <1>0, <1>1, <1>3 DEF OneAnswer
  <2>2. \A q, r \in Finals(resp, parser.cur) : q = r
    BY <1>0 DEF OneAnswer
  <2>3. Finals(resp', parser'.cur) # {} /\ Alive' => Cur'.keep /\ parser'.status = 3
    BY <1>1, <1>2, <1>7, <2>1 DEF Alive
  <2>4. parser'.status = 0 => Finals(resp', parser'.cur) = {} /\ ~req'.responseScheduled
    BY <1>1, <1>7, <2>1
  <2>5. Asked(later') = {} /\ Replies(bgq') = {} /\ app'.promised = {}
    BY <1>1, <1>3, <1>5
  <2>6. \A q, r \in Finals(resp', parser'.cur) : q = r
    BY <1>1, <1>7, <2>2
  <2> QED BY <1>1, <1>6, <2>3, <2>4, <2>5, <2>6 DEF OneAnswer
<1>10. BodySeen'
  <2>1. SeenNow /\ app.called[parser.cur] \in Nat
    BY <1>0, <1>1, Types, CurTypes DEF BodySeen, Application
  <2>2. SeenNow'
    BY <1>1, <1>4, <1>6, <2>1 DEF SeenNow
  <2>3. AppKept /\ parser'.cur \in Nat /\ parser.cur <= parser'.cur
        /\ \A k \in 1..Sent : client'.shape[k] = client.shape[k]
    BY <1>0, <1>1, CurTypes DEF AppKept
  <2> QED BY <1>0, <2>2, <2>3, SeenStep
<1> QED BY <1>6, <1>8, <1>9, <1>10 DEF AnswerInv

\* R failed on the body.
LEMMA BodyErrorAnswers ==
  ASSUME IInv, Written, AnswerInv, BodySeen, BodyError
  PROVE  AnswerInv' /\ BodySeen'
<1>0. TypeOK /\ HandedOver /\ Waits /\ TasksInOrder /\ TasksWhen /\ OneAnswer /\ req \in Request /\ parser \in Parser
  BY Types DEF IInv, AnswerInv
<1>1. /\ bgq # <<>> /\ Head(bgq).op = "bodyError" /\ bgq' = Tail(bgq)
      /\ client' = client /\ later' = later /\ app' = app
      /\ parser' = [parser EXCEPT !.errno = TRUE] /\ req' = StopReading(RequestCompleted(req))
  BY DEF BodyError, Flush
<1>2. PosKept /\ ShapesKept /\ AppKept
  BY <1>0, <1>1 DEF PosKept, ShapesKept, AppKept, Parser
<1>3. ~Alive' /\ req'.responseScheduled = req.responseScheduled
  BY <1>0, <1>1 DEF StopReading, RequestCompleted, Request, Alive
<1>4. CurKept /\ Cur' = Cur
  BY <1>0, <1>2, SameShapesFrame
<1>5. /\ Head(bgq) \in Replies(bgq) /\ Head(bgq).r # 0
      /\ RepliesInOrder(Tail(bgq)) /\ Replies(Tail(bgq)) \subseteq Replies(bgq)
      /\ \A x \in Replies(Tail(bgq)) : x.op = "messageDone" /\ x.r = 0
  <2>1. Head(bgq).op \in Outcome
    BY <1>1 DEF Outcome
  <2> QED BY <1>0, <1>1, <2>1, FirstOutcome
<1>6. /\ Finals(resp', parser.cur) = Finals(resp, parser.cur)
      /\ \A r \in 1..Len(resp') : resp'[r].req <= parser.cur
  BY <1>0, SameFinals
<1>7. /\ parser'.st = parser.st /\ parser'.status = parser.status /\ parser'.cur = parser.cur
      /\ Over' = Over /\ (\A op : Asks(op)' <=> Asks(op)) /\ (\A op : Replied(op)' => Replied(op))
  BY <1>1, <1>2, <1>4, <1>5 DEF PosKept, CurKept, Asks, Replied
<1>8. TasksInOrder'
  BY <1>0, <1>1, <1>5, <1>6, <1>7 DEF TasksInOrder
<1>9. TasksWhen'
  BY <1>0, <1>1, <1>7 DEF TasksWhen
<1>10. OneAnswer'
  <2> DEFINE F == Finals(resp, parser.cur)
  <2>1. Finals(resp', parser'.cur) = F
    BY <1>6, <1>7
  <2>2. /\ \A q, r \in F : q = r
        /\ F # {} /\ (Asks("onBodyData") \/ Asks("getResponse") \/ parser.st = "body") => req.responseScheduled
        /\ parser.st = "headers" \/ (parser.st = "ready" /\ parser.status = 0) =>
             F = {} /\ ~req.responseScheduled
        /\ Asks("onHeaders") \/ app.promised # {} => F = {}
        /\ F # {}
    BY <1>0, <1>5 DEF OneAnswer
  <2> HIDE DEF F
  <2>3. \A e \in Replies(bgq') : e.op # "headersDone" /\ e.r = 0
    BY <1>1, <1>5
  <2>4. /\ F # {} /\ (Asks("onBodyData")' \/ Asks("getResponse")' \/ parser'.st = "body") => req'.responseScheduled
        /\ parser'.st = "headers" \/ (parser'.st = "ready" /\ parser'.status = 0) =>
             F = {} /\ ~req'.responseScheduled
        /\ Asks("onHeaders")' \/ app'.promised # {} => F = {}
    BY <1>1, <1>3, <1>7, <2>2
  <2> QED BY <1>3, <2>1, <2>2, <2>3, <2>4 DEF OneAnswer
<1>11. BodySeen'
  BY <1>0, <1>1, <1>2, <1>3, <1>4, <1>7, BodyFrame
<1> QED BY <1>8, <1>9, <1>10, <1>11 DEF AnswerInv

\* The response of call() is written.
LEMMA CompleteAnswers ==
  ASSUME IInv, Written, Flags, AnswerInv, BodySeen, MessageCompleteComplete
  PROVE  AnswerInv' /\ BodySeen'
<1>0. TypeOK /\ HandedOver /\ Waits /\ TasksInOrder /\ TasksWhen /\ OneAnswer /\ req \in Request
  BY Types DEF IInv, AnswerInv
<1>1. /\ bgq # <<>> /\ Head(bgq).op = "messageDone" /\ bgq' = Tail(bgq)
      /\ client' = client /\ later' = later /\ app' = app /\ parser' = parser
  BY DEF MessageCompleteComplete, Flush
<1>2. PosKept /\ ShapesKept /\ AppKept
  BY <1>1 DEF PosKept, ShapesKept, AppKept
<1>3. CurKept /\ Cur' = Cur
  BY <1>0, <1>2, SameShapesFrame
<1>4. Head(bgq) \in Replies(bgq) /\ RepliesInOrder(Tail(bgq)) /\ Replies(Tail(bgq)) = {}
  <2>1. Head(bgq).op \in Outcome /\ Head(bgq).op # "bodyError"
    BY <1>1 DEF Outcome
  <2> QED BY <1>0, <1>1, <2>1, FirstOutcome
<1>5. Over /\ parser.st \in {"start", "dead"} /\ Asked(later) = {} /\ app.promised = {}
  <2>1. Replied("messageDone")
    BY <1>1, <1>4 DEF Replied
  <2>2. Over /\ ~Asks("getResponse") /\ ~Asks("onBodyData") /\ app.promised = {}
    BY <1>0, <2>1 DEF TasksWhen
  <2>3. parser.st \in {"start", "dead"}
    BY <2>2 DEF Over, Ended
  <2>4. ~Asks("onHeaders")
    BY <1>0, <2>3, HeadersTasks DEF Asks
  <2>5. Asked(later) = {}
    BY <1>0, <2>2, <2>4, TaskKinds DEF Asks, NeedsEnv
  <2> QED BY <2>2, <2>3, <2>5
<1>6. /\ TasksWhen' /\ AskedInOrder(later') /\ RepliesInOrder(bgq') /\ \A op : ~Asks(op)'
  BY <1>1, <1>4, <1>5, QuietAnswer
<1>7. /\ Finals(resp', parser.cur) = Finals(resp, parser.cur)
      /\ \A r \in 1..Len(resp') : resp'[r].req <= parser.cur
  BY <1>0, SameFinals
<1>8. TasksInOrder'
  BY <1>1, <1>5, <1>6, <1>7 DEF TasksInOrder
<1>9. /\ req'.responseScheduled = req.responseScheduled
      /\ Alive' => (resp' = resp /\ Alive) \/ Cur.keep
  <2>1. \/ req' = req /\ resp' = resp
        \/ req' = req /\ req.isClosing
        \/ req' = RequestCompleted(req) /\ Cur.keep
        \/ req' = StopReading(RequestCompleted(req))
    <3>1. \/ req' = req /\ resp' = resp
          \/ req' = req /\ req.isClosing
          \/ req' = IF ~Cur.keep THEN StopReading(RequestCompleted(req)) ELSE RequestCompleted(req)
      BY Zenon DEF MessageCompleteComplete
    <3> QED BY <3>1
  <2>2. CASE req' = req /\ resp' = resp
    BY <2>2 DEF Alive
  <2>3. CASE req' = req /\ req.isClosing
    BY <1>0, <2>3 DEF Alive, HandedOver
  <2>4. CASE req' = RequestCompleted(req) /\ Cur.keep
    BY <1>0, <2>4 DEF RequestCompleted, Request
  <2>5. CASE req' = StopReading(RequestCompleted(req))
    BY <1>0, <2>5 DEF StopReading, RequestCompleted, Request, Alive
  <2> QED BY <2>1, <2>2, <2>3, <2>4, <2>5
<1>10. OneAnswer'
  <2> DEFINE F == Finals(resp, parser.cur)
  <2>1. Finals(resp', parser'.cur) = F
    BY <1>1, <1>7
  <2>2. /\ \A q, r \in F : q = r
        /\ \A r \in F : resp[r].st # "made" /\ Alive => Cur.keep /\ (parser.st = "start" \/ parser.st = "ready")
    BY <1>0 DEF OneAnswer
  <2> HIDE DEF F
  <2>3. parser.st = "dead" => ~Cur.keep
    BY <1>0 DEF Flags
  <2>4. \A r \in F : resp'[r].st # "made" /\ Alive' => Cur'.keep /\ parser'.st = "start"
    BY <1>1, <1>3, <1>5, <1>9, <2>2, <2>3
  <2>5. Asked(later') = {} /\ Replies(bgq') = {} /\ app'.promised = {} /\ parser'.st \in {"start", "dead"}
    BY <1>1, <1>4, <1>5
  <2> QED BY <1>6, <2>1, <2>2, <2>4, <2>5 DEF OneAnswer
<1>11. BodySeen'
  BY <1>0, <1>1, <1>2, <1>3, <1>6, <1>9, BodyFrame
<1> QED BY <1>6, <1>8, <1>10, <1>11 DEF AnswerInv

\* Every step keeps what is known of the tasks, the responses and the body.
LEMMA AnswersStep ==
  ASSUME IInv, Written, Patient, TurnInv, AnswerInv, BodySeen, IInv', [Next]_vars, Patient'
  PROVE  AnswerInv' /\ BodySeen'
<1>0. /\ TypeOK /\ HandedOver /\ Waits /\ Environments /\ TasksInOrder /\ Flags
      /\ resp \in Seq(Response) /\ parser.cur \in Nat
  BY Types, CurTypes DEF IInv, AnswerInv, TurnInv
<1>1. CASE \/ ParseMessageBegin \/ ParseHeadersComplete \/ ParseHeadersDone \/ ParseBody
           \/ CallOnHeaders \/ CallOnBodyData \/ CallGetResponse \/ PromiseResolves
           \/ HeadersCompleteComplete \/ BodyError \/ MessageCompleteComplete
  BY <1>0, <1>1, BeginAnswers, HeadersAnswers, LfAnswers, BodyAnswers, OnHeadersAnswers, OnBodyAnswers,
     GetResponseAnswers, PromiseAnswers, ResumeAnswers, BodyErrorAnswers, CompleteAnswers
<1>2. CASE ~ \/ ParseMessageBegin \/ ParseHeadersComplete \/ ParseHeadersDone \/ ParseBody
             \/ CallOnHeaders \/ CallOnBodyData \/ CallGetResponse \/ PromiseResolves
             \/ HeadersCompleteComplete \/ BodyError \/ MessageCompleteComplete
  <2>1. SameAsks(later, later')
    BY <1>0, <1>2, AskedStep
  <2>2. SameReplies(bgq, bgq')
    BY <1>0, <1>2, RepliesStep
  <2>3. PosKept
    BY <1>0, <1>2, PosStep
  <2>4. CurKept
    <3>1. CASE ShapesKept
      BY <1>0, <2>3, <3>1, SameShapesFrame
    <3>2. CASE \E s \in Shapes : ClientSend(s)
      <4>1. PICK s \in Shapes : ClientSend(s)
        BY <3>2
      <4>2. Sent' = Sent + 1 /\ \A k \in 1..Sent : client'.shape[k] = client.shape[k]
        BY <1>0, <4>1, SendFacts
      <4>3. Sent <= Sent'
        BY <1>0, <4>2, CurTypes
      <4> QED BY <1>0, <2>3, <4>2, <4>3, CurFrame
    <3> QED BY <1>0, <3>1, <3>2, ShapeStep
  <2>5. req'.responseScheduled = req.responseScheduled
    BY <1>0, <1>2, SchedStep
  <2>6. AppKept
    BY <1>0, <1>2, AppStep
  <2>7. Alive' => Alive
    BY <1>0, AliveStep
  <2>8. /\ Finals(resp', parser.cur) = Finals(resp, parser.cur)
        /\ \A r \in Finals(resp, parser.cur) : resp'[r].st = "made" <=> resp[r].st = "made"
        /\ \A r \in 1..Len(resp') : resp'[r].req <= parser.cur
    <3>1. CASE UpgradeConnection
      BY <1>0, <3>1, SameFinals
    <3>2. CASE RespAlike(resp, resp')
      <4>1. Len(resp') = Len(resp) /\ \A i \in 1..Len(resp) : SameResponse(resp[i], resp'[i])
        BY <3>2 DEF RespAlike
      <4>2. \A r \in 1..Len(resp) : resp'[r].st = "made" <=> resp[r].st = "made"
        BY <3>2 DEF RespAlike
      <4>3. Finals(resp', parser.cur) = Finals(resp, parser.cur)
        BY <4>1, FinalsAlike
      <4>4. \A r \in 1..Len(resp') : resp'[r].req <= parser.cur
        BY <1>0, <4>1, FinalsAlike DEF TasksInOrder
      <4>5. \A r \in Finals(resp, parser.cur) : r \in 1..Len(resp)
        BY DEF Finals
      <4> QED BY <4>2, <4>3, <4>4, <4>5
    <3> QED BY <1>0, <1>2, <3>1, <3>2, RespStep
  <2>9. AnswerInv'
    BY <1>0, <2>1, <2>2, <2>3, <2>4, <2>5, <2>6, <2>7, <2>8, AnswerFrame DEF AppKept
  <2>10. BodySeen'
    <3>1. (\A op : Asks(op)' => Asks(op)) /\ CountIn(later', OnBody) = CountIn(later, OnBody)
      BY <2>1 DEF SameAsks, Asks
    <3> QED BY <1>0, <2>3, <2>4, <2>5, <2>6, <3>1, BodyFrame
  <2> QED BY <2>9, <2>10
<1> QED BY <1>1, <1>2

LEMMA PInvStep ==
  ASSUME IInv, PInv, IInv', [Next]_vars
  PROVE  PInv'
<1>0. TypeOK /\ HandedOver /\ Waits /\ TypeOK'
  BY DEF IInv
<1>1. Written /\ Written'
  BY <1>0, WrittenStep DEF PInv
<1>2. ASSUME Patient' PROVE (TurnInv /\ AnswerInv /\ BodySeen)'
  <2>1. Patient /\ TurnInv /\ AnswerInv /\ BodySeen
    BY <1>0, <1>2, PatientStep DEF PInv
  <2>2. InTurn'
    BY <1>1, <1>2, <2>1, InTurnStep
  <2>3. Scripted'
    BY <1>1, <1>2, <2>1, <2>2, ScriptedStep
  <2>4. Flags'
    BY <1>1, <1>2, <2>1, FlagsStep
  <2>5. AnswerInv' /\ BodySeen'
    BY <1>1, <1>2, <2>1, AnswersStep
  <2> QED BY <2>2, <2>3, <2>4, <2>5 DEF TurnInv
<1> QED BY <1>1, <1>2 DEF PInv

LEMMA InitPInv == Init => PInv
<1> SUFFICES ASSUME Init PROVE PInv
  OBVIOUS
<1>0. TypeOK
  BY InitIInv DEF IInv
<1>1. /\ client = [shape |-> <<>>, net |-> <<>>, ws |-> 0, eof |-> FALSE,
                   broken |-> FALSE, piped |-> FALSE]
      /\ wire = <<>> /\ later = <<>> /\ bgq = <<>> /\ resp = <<>> /\ outq = <<>>
      /\ parser = [st |-> "start", status |-> 0, cur |-> 0, need |-> 0,
                   errno |-> FALSE, exec |-> "no", data |-> <<>>]
      /\ ~req.ignoreNewData /\ ~req.isUpgrade /\ ~req.responseScheduled
      /\ req.protocol = "HTTP" /\ req.requestBuffer = <<>>
      /\ app.promised = {} /\ app.got = [k \in ReqNo |-> 0]
      /\ app.failed = [k \in ReqNo |-> FALSE] /\ app.called = [k \in ReqNo |-> 0]
  BY DEF Init
<1>2. /\ parser.st = "start" /\ parser.cur = 0 /\ parser.data = <<>> /\ parser.exec = "no" /\ ~parser.errno
      /\ parser.status = 0 /\ client.shape = <<>> /\ client.net = <<>> /\ Sent = 0
  BY <1>1 DEF Sent
<1>3. Asked(later) = {} /\ Replies(bgq) = {} /\ \A k : Finals(resp, k) = {}
  BY <1>1 DEF Asked, Replies, TasksOf, Finals
<1>4. Written
  BY <1>1, <1>3 DEF Written
<1>5. InTurn
  BY <1>2 DEF InTurn
<1>6. ~Ended /\ ~Over /\ ~Leftover
  BY <1>2 DEF Ended, Over, Leftover
<1>7. Stream = <<>>
  <2>1. <<>> \o <<>> = <<>>
    BY ConcatEmptySeq, EmptySeq
  <2> QED BY <1>1, <1>2, <2>1 DEF Stream
<1>8. Scripted
  <2>1. Ahead = 0 /\ Fresh = 0
    BY <1>2 DEF Ahead, Fresh
  <2>2. Len(Stream) = 0
    BY <1>7
  <2>3. Script(Stream, Ahead, parser.st # "body", parser.cur, Fresh, Sent, Upgraded)
    BY <2>2 DEF Script
  <2> QED BY <1>2, <1>6, <2>1, <2>2, <2>3 DEF Scripted
<1>9. Flags
  BY <1>1, <1>2, <1>6 DEF Flags
<1>10. AnswerInv
  <2>1. \A op : ~Asks(op) /\ ~Replied(op)
    BY <1>3 DEF Asks, Replied
  <2>2. TasksInOrder
    BY <1>1, <1>2, <1>3 DEF TasksInOrder, AskedInOrder, RepliesInOrder
  <2>3. TasksWhen
    BY <1>1, <2>1 DEF TasksWhen
  <2>4. OneAnswer
    BY <1>1, <1>2, <1>3, <2>1 DEF OneAnswer
  <2> QED BY <2>2, <2>3, <2>4 DEF AnswerInv
<1>11. BodySeen
  BY <1>1, <1>2 DEF BodySeen
<1> QED BY <1>4, <1>5, <1>8, <1>9, <1>10, <1>11 DEF PInv, TurnInv

\* What a connection and a client that waits for its answers keep: one request
\* at a time, its tasks in order, one answer.
THEOREM PatientInv == Spec => [](IInv /\ PInv)
<1>1. Init => IInv /\ PInv
  BY InitIInv, InitPInv
<1>2. IInv /\ PInv /\ [Next]_vars => IInv' /\ PInv'
  BY IInvStep, PInvStep
<1> QED BY <1>1, <1>2, PTL DEF Spec

\* call() runs at most once for a request, after onBodyData was given every
\* piece of its body and without an error of it, if the client waits for its
\* answers: responseScheduled, which is one flag for all requests of the
\* connection, is then that of the request (getResponse, onBodyData).
THEOREM CallSeesWholeBodyHolds == Spec => []CallSeesWholeBody
<1>1. ASSUME IInv, PInv PROVE CallSeesWholeBody
  <2>1. ASSUME ~client.piped, NEW k \in DOMAIN client.shape, app.called[k] > 0
        PROVE  app.called[k] = 1 /\ ~app.failed[k] /\ app.got[k] = client.shape[k].body
    <3>1. BodySeen
      BY <1>1, <2>1 DEF PInv, Patient
    <3>2. k \in ReqNo
      <4>1. TypeOK /\ DOMAIN client.shape = 1..Len(client.shape)
        BY <1>1, Types, LenProperties DEF IInv
      <4> QED BY <2>1, <4>1, CurTypes DEF Sent
    <3> QED BY <2>1, <3>1, <3>2 DEF BodySeen
  <2> QED BY <2>1 DEF CallSeesWholeBody
<1> QED BY <1>1, PatientInv, PTL

-------------------------------------------------------------------------------
(* What the client receives: the invariant of the writes. *)

\* Responses are made for one request after the other, the final one last, and
\* none for an upgrade.
RespSorted(q) == \A i, j \in 1..Len(q) : i < j =>
  q[i].req <= q[j].req /\ (q[i].kind = "final" => q[i].req < q[j].req)

RespKinds(q, s) == \A r \in 1..Len(q) :
  /\ q[r].kind # "final" => q[r].body = 0
  /\ q[r].kind = "final" => s[q[r].req].upgrade = "no"

\* The writes o are of one response after the other; all but the last are the
\* last part of their response, and those that were sent or failed come first.
QueueOrder(o, q) ==
  /\ \A j \in 1..Len(o) : o[j].part <= q[o[j].r].body
  /\ \A i, j \in 1..Len(o) : i < j =>
       /\ o[i].r < o[j].r /\ o[i].part = q[o[i].r].body /\ o[j].part = 0
       /\ o[j].st # "queued" => o[i].st # "queued"

\* A write is still to go out, or its response has more parts.
Unfinished(e, q) == e.st = "queued" \/ e.part < q[e.r].body

\* What is on the wire w is what comes before the writes that are to go out.
WireBehind(o, w, q) == \A i \in 1..Len(w), j \in 1..Len(o) :
  /\ w[i][1] = o[j].r => w[i][2] <= o[j].part /\ (o[j].st = "queued" => w[i][2] < o[j].part)
  /\ Unfinished(o[j], q) => w[i][1] <= o[j].r

\* Earlier requests were answered.
Delivered(q, w, k) == \A r \in 1..Len(q) :
  q[r].kind = "final" /\ q[r].req < k => \E i \in 1..Len(w) : w[i] = <<r, q[r].body>>

\* Where the wire stops, the writes go on.
FlowWire(o, w, q) ==
  LET n == Len(w)
      e == o[Len(o)] IN
  n # 0 /\ w[n][2] < q[w[n][1]].body =>
     /\ o # <<>> /\ e.r = w[n][1]
     /\ \/ e.st = "sent" /\ e.part = w[n][2]
        \/ e.st = "queued" /\ e.part = w[n][2] + 1
FlowOut(o, w, q) ==
  LET n == Len(w) IN
  \A j \in 1..Len(o) :
     /\ o[j].st # "failed"
     /\ o[j].st = "queued" /\ o[j].part > 0 => j = 1 /\ n # 0 /\ w[n] = <<o[j].r, o[j].part - 1>>
     /\ o[j].st = "sent" /\ o[j].part < q[o[j].r].body => n # 0 /\ w[n] = <<o[j].r, o[j].part>>

WireParts(w, q) == \A i \in 1..Len(w) :
  /\ w[i][2] <= q[w[i][1]].body
  /\ w[i][2] > 0 => i > 1 /\ w[i - 1] = <<w[i][1], w[i][2] - 1>>
  /\ w[i][2] = 0 /\ i > 1 => w[i - 1][2] = q[w[i - 1][1]].body
WireSorted(w) == \A i, j \in 1..Len(w) : i < j => w[i][1] <= w[j][1]

\* The writes o and the wire w, as long as the socket works and later.
Writes(o, w, q, works) ==
  /\ QueueOrder(o, q) /\ WireBehind(o, w, q) /\ WireParts(w, q) /\ WireSorted(w)
  /\ works => FlowWire(o, w, q) /\ FlowOut(o, w, q)

Works == ~req.isClosing /\ ~client.broken

WInv == /\ RespSorted(resp) /\ RespKinds(resp, client.shape)
        /\ Delivered(resp, wire, parser.cur)
        /\ Writes(outq, wire, resp, Works)

-------------------------------------------------------------------------------
(* Steps of the writes. *)

Wire == Seq(Nat \X Nat)
Within(o, w, q) == /\ \A j \in 1..Len(o) : o[j].r \in 1..Len(q)
                   /\ \A i \in 1..Len(w) : w[i][1] \in 1..Len(q)

\* Responses are added, or change their state only.
LEMMA WritesGrow ==
  ASSUME NEW q \in Seq(Response), NEW z \in Seq(Response), RespGrows(q, z),
         NEW o \in Seq(OutWrite), NEW w \in Wire, Within(o, w, q),
         NEW works \in BOOLEAN, NEW still \in BOOLEAN, still => works,
         Writes(o, w, q, works)
  PROVE  Writes(o, w, z, still)
<1>1. /\ Len(q) \in Nat /\ Len(z) \in Nat /\ Len(o) \in Nat /\ Len(w) \in Nat
      /\ \A i \in 1..Len(o) : o[i] \in OutWrite
      /\ \A i \in 1..Len(w) : w[i] \in Nat \X Nat
      /\ DOMAIN w = 1..Len(w)
  BY LenProperties, ElementOfSeq DEF Wire
<1>2. /\ \A j \in 1..Len(o) : z[o[j].r].body = q[o[j].r].body
      /\ \A i \in 1..Len(w) : z[w[i][1]].body = q[w[i][1]].body
  BY DEF Within, RespGrows, SameResponse
<1>3. QueueOrder(o, z)
  BY <1>2 DEF Writes, QueueOrder
<1>4. \A j \in 1..Len(o) : Unfinished(o[j], z) <=> Unfinished(o[j], q)
  BY <1>2 DEF Unfinished
<1>5. WireBehind(o, w, z)
  BY <1>4 DEF Writes, WireBehind
<1>6. WireParts(w, z)
  <2>1. \A i \in 1..Len(w) : i > 1 => i - 1 \in 1..Len(w)
    BY <1>1
  <2> QED BY <1>2, <2>1 DEF Writes, WireParts
<1>7. ASSUME still PROVE FlowWire(o, w, z) /\ FlowOut(o, w, z)
  <2>1. Len(w) # 0 => Len(w) \in 1..Len(w)
    BY <1>1
  <2>2. FlowWire(o, w, q) /\ FlowOut(o, w, q)
    BY <1>7 DEF Writes
  <2> QED BY <1>2, <2>1, <2>2 DEF FlowWire, FlowOut
<1> QED BY <1>3, <1>5, <1>6, <1>7 DEF Writes

\* The first write is taken from the queue; if the socket works, it was the last part
\* of its response.
LEMMA WritesTail ==
  ASSUME NEW q \in Seq(Response), NEW o \in Seq(OutWrite), NEW w \in Wire, Within(o, w, q), o # <<>>,
         NEW works \in BOOLEAN, NEW still \in BOOLEAN,
         still => works /\ o[1].st # "queued" /\ o[1].part = q[o[1].r].body,
         Writes(o, w, q, works)
  PROVE  Writes(Tail(o), w, q, still)
<1> DEFINE t == Tail(o)
<1>1. /\ Len(o) \in Nat \ {0} /\ Len(t) = Len(o) - 1 /\ \A i \in 1..Len(t) : t[i] = o[i + 1]
      /\ t \in Seq(OutWrite) /\ Len(w) \in Nat
  BY TailRange, LenProperties DEF Wire
<1> HIDE DEF t
<1>2. \A i \in 1..Len(t) : i + 1 \in 1..Len(o) /\ i + 1 # 1
  BY <1>1
<1>3. \A i, j \in 1..Len(t) : i < j => i + 1 < j + 1
  BY <1>1
<1>4. QueueOrder(t, q)
  <2>1. QueueOrder(o, q)
    BY DEF Writes
  <2>2. \A j \in 1..Len(t) : t[j].part <= q[t[j].r].body
    BY <1>1, <1>2, <2>1 DEF QueueOrder
  <2>3. ASSUME NEW i \in 1..Len(t), NEW j \in 1..Len(t), i < j
        PROVE  /\ t[i].r < t[j].r /\ t[i].part = q[t[i].r].body /\ t[j].part = 0
               /\ t[j].st # "queued" => t[i].st # "queued"
    <3>1. i + 1 \in 1..Len(o) /\ j + 1 \in 1..Len(o) /\ i + 1 < j + 1 /\ t[i] = o[i + 1] /\ t[j] = o[j + 1]
      BY <1>1, <1>2, <1>3, <2>3
    <3> QED BY <2>1, <3>1 DEF QueueOrder
  <2> QED BY <2>2, <2>3 DEF QueueOrder
<1>5. WireBehind(t, w, q)
  BY <1>1, <1>2 DEF Writes, WireBehind
<1>6. ASSUME still PROVE FlowWire(t, w, q) /\ FlowOut(t, w, q)
  <2>1. FlowWire(o, w, q) /\ FlowOut(o, w, q) /\ QueueOrder(o, q)
    BY <1>6 DEF Writes
  <2>2. FlowOut(t, w, q)
    <3>1. \A j \in 1..Len(t) : t[j].part = 0
      <4>1. \A j \in 1..Len(t) : 1 \in 1..Len(o) /\ 1 < j + 1
        BY <1>1
      <4> QED BY <1>1, <1>2, <2>1, <4>1 DEF QueueOrder
    <3> QED BY <1>1, <1>2, <2>1, <3>1 DEF FlowOut
  <2>3. FlowWire(t, w, q)
    <3> DEFINE n == Len(w)
    <3> SUFFICES ASSUME n # 0, w[n][2] < q[w[n][1]].body
                 PROVE  LET e == t[Len(t)] IN
                        /\ t # <<>> /\ e.r = w[n][1]
                        /\ \/ e.st = "sent" /\ e.part = w[n][2]
                           \/ e.st = "queued" /\ e.part = w[n][2] + 1
      BY DEF FlowWire
    <3>1. LET e == o[Len(o)] IN
          /\ e.r = w[n][1]
          /\ \/ e.st = "sent" /\ e.part = w[n][2]
             \/ e.st = "queued" /\ e.part = w[n][2] + 1
      BY <2>1 DEF FlowWire
    <3>2. Len(o) # 1
      <4>1. n \in 1..Len(w)
        BY <1>1
      <4>2. w[n] \in Nat \X Nat
        BY <4>1, ElementOfSeq DEF Wire
      <4>3. w[n][2] \in Nat
        BY <4>2
      <4> HIDE DEF n
      <4>4. w[n][1] \in 1..Len(q)
        BY <4>1 DEF Within
      <4>5. q[w[n][1]] \in Response
        BY <4>4, ElementOfSeq
      <4>6. q[w[n][1]].body \in Nat
        BY <4>5 DEF Response
      <4> QED BY <1>6, <3>1, <4>3, <4>6
    <3>3. Len(t) \in 1..Len(t) /\ Len(t) + 1 = Len(o)
      BY <1>1, <3>2
    <3>4. t[Len(t)] = o[Len(o)] /\ t # <<>>
      BY <1>1, <3>3
    <3> QED BY <3>1, <3>4
  <2> QED BY <2>2, <2>3
<1> QED BY <1>4, <1>5, <1>6 DEF Writes, t

LEMMA WritesTypes ==
  ASSUME NEW q \in Seq(Response), NEW o \in Seq(OutWrite), NEW w \in Wire, Within(o, w, q)
  PROVE  /\ Len(q) \in Nat /\ Len(o) \in Nat /\ Len(w) \in Nat
         /\ DOMAIN o = 1..Len(o) /\ DOMAIN w = 1..Len(w)
         /\ \A j \in 1..Len(o) : /\ o[j] \in OutWrite /\ o[j].r \in Nat /\ o[j].part \in Nat
                                 /\ o[j].r \in 1..Len(q) /\ q[o[j].r].body \in Nat
                                 /\ o[j].st \in {"queued", "sent", "failed"}
         /\ \A i \in 1..Len(w) : /\ w[i] \in Nat \X Nat /\ w[i][1] \in Nat /\ w[i][2] \in Nat
                                 /\ w[i][1] \in 1..Len(q) /\ q[w[i][1]].body \in Nat
<1>1. /\ Len(q) \in Nat /\ Len(o) \in Nat /\ Len(w) \in Nat
      /\ DOMAIN o = 1..Len(o) /\ DOMAIN w = 1..Len(w)
  BY LenProperties DEF Wire
<1>2. \A r \in 1..Len(q) : q[r].body \in Nat
  <2>1. \A r \in 1..Len(q) : q[r] \in Response
    BY ElementOfSeq
  <2> QED BY <2>1 DEF Response
<1>3. \A j \in 1..Len(o) : o[j] \in OutWrite /\ o[j].r \in 1..Len(q)
  BY ElementOfSeq DEF Within
<1>4. \A i \in 1..Len(w) : w[i] \in Nat \X Nat /\ w[i][1] \in 1..Len(q)
  BY ElementOfSeq DEF Within, Wire
<1>5. \A i \in 1..Len(w) : w[i][1] \in Nat /\ w[i][2] \in Nat
  BY <1>4
<1> QED BY <1>1, <1>2, <1>3, <1>4, <1>5 DEF OutWrite

\* The next chunk of a response takes the place of the part before it.
LEMMA WritesChunk ==
  ASSUME NEW q \in Seq(Response), NEW o \in Seq(OutWrite), NEW w \in Wire, Within(o, w, q), o # <<>>,
         NEW works \in BOOLEAN, NEW still \in BOOLEAN,
         still => works /\ o[1].st # "queued",
         o[1].part < q[o[1].r].body,
         Writes(o, w, q, works),
         NEW z \in Seq(OutWrite), Len(z) = 1,
         z[1].r = o[1].r, z[1].part = o[1].part + 1, z[1].st = "queued"
  PROVE  Writes(z, w, q, still) /\ Len(o) = 1
<1>1. /\ Len(q) \in Nat /\ Len(o) \in Nat /\ Len(w) \in Nat /\ Len(o) # 0 /\ 1 \in 1..Len(o)
      /\ o[1].r \in Nat /\ o[1].part \in Nat /\ q[o[1].r].body \in Nat
      /\ o[1].st \in {"queued", "sent", "failed"}
      /\ \A i \in 1..Len(w) : w[i][1] \in Nat /\ w[i][2] \in Nat
  <2>1. Len(o) \in Nat \ {0} /\ 1 \in 1..Len(o)
    BY TailRange
  <2> QED BY <2>1, WritesTypes
<1>2. QueueOrder(o, q) /\ WireBehind(o, w, q)
  BY DEF Writes
<1>3. Len(o) = 1
  <2>1. CASE Len(o) > 1
    <3>1. Len(o) \in 1..Len(o) /\ 1 < Len(o)
      BY <1>1, <2>1
    <3>2. o[1].part = q[o[1].r].body
      BY <1>1, <1>2, <3>1 DEF QueueOrder
    <3> QED BY <1>1, <3>2
  <2> QED BY <1>1, <2>1
<1>4. QueueOrder(z, q)
  <2>1. \A j \in 1..Len(z) : j = 1
    OBVIOUS
  <2>2. z[1].part <= q[z[1].r].body
    BY <1>1
  <2> QED BY <2>1, <2>2 DEF QueueOrder
<1>5. WireBehind(z, w, q)
  <2> SUFFICES ASSUME NEW i \in 1..Len(w)
               PROVE  /\ w[i][1] = z[1].r => w[i][2] <= z[1].part /\ w[i][2] < z[1].part
                      /\ w[i][1] <= z[1].r
    BY DEF WireBehind
  <2>1. /\ w[i][1] = o[1].r => w[i][2] <= o[1].part
        /\ w[i][1] <= o[1].r
    BY <1>1, <1>2 DEF WireBehind, Unfinished
  <2> QED BY <1>1, <2>1
<1>6. ASSUME still PROVE FlowWire(z, w, q) /\ FlowOut(z, w, q)
  <2>1. FlowWire(o, w, q) /\ FlowOut(o, w, q) /\ o[1].st # "queued"
    BY <1>6 DEF Writes
  <2>2. o[1].st = "sent"
    BY <1>1, <2>1 DEF FlowOut
  <2>3. Len(w) # 0 /\ w[Len(w)] = <<o[1].r, o[1].part>>
    BY <1>1, <2>1, <2>2 DEF FlowOut
  <2>4. w[Len(w)][1] = z[1].r /\ w[Len(w)][2] + 1 = z[1].part /\ z # <<>>
    <3>1. z # <<>>
      <4>1. 1 # 0
        OBVIOUS
      <4> QED BY <4>1, EmptySeq, Zenon
    <3>2. w[Len(w)][1] = o[1].r /\ w[Len(w)][2] = o[1].part
      BY <2>3
    <3> QED BY <3>1, <3>2
  <2>5. FlowWire(z, w, q)
    BY <2>4 DEF FlowWire
  <2>6. z[1].part - 1 = o[1].part
    BY <1>1
  <2>7. FlowOut(z, w, q)
    BY <2>3, <2>6 DEF FlowOut
  <2> QED BY <2>5, <2>7
<1> QED BY <1>3, <1>4, <1>5, <1>6 DEF Writes

\* The head of the last response is written after the responses before it.
LEMMA WritesHead ==
  ASSUME NEW q \in Seq(Response), NEW o \in Seq(OutWrite), NEW w \in Wire, Within(o, w, q),
         NEW works \in BOOLEAN, Writes(o, w, q, works),
         NEW r \in Nat, r = Len(q), r # 0,
         \A j \in 1..Len(o) : o[j].r # r,
         \A i \in 1..Len(w) : w[i][1] # r,
         \A k \in 1..Len(q) : q[k].kind # "final" => q[k].body = 0,
         \A k \in 1..Len(q) : k < r /\ q[k].kind = "final" => \E i \in 1..Len(w) : w[i] = <<k, q[k].body>>
  PROVE  Writes(Append(o, Write(r, 0)), w, q, works)
<1> DEFINE e == Write(r, 0)
           z == Append(o, e)
           m == Len(o) + 1
<1>1. /\ Len(q) \in Nat /\ Len(o) \in Nat /\ Len(w) \in Nat
      /\ \A j \in 1..Len(o) : /\ o[j].r \in Nat /\ o[j].part \in Nat /\ o[j].r \in 1..Len(q) /\ q[o[j].r].body \in Nat
      /\ \A i \in 1..Len(w) : w[i][1] \in Nat /\ w[i][2] \in Nat /\ w[i][1] \in 1..Len(q) /\ q[w[i][1]].body \in Nat
  BY WritesTypes
<1>2. e.r = r /\ e.part = 0 /\ e.st = "queued" /\ e \in OutWrite
  BY DEF Write, OutWrite
<1> HIDE DEF e
<1>3. Len(z) = m /\ z[m] = e /\ \A j \in 1..Len(o) : z[j] = o[j]
  BY <1>1, <1>2, AppendProperties
<1> HIDE DEF z
<1>4. (\A j \in 1..m : j = m \/ j \in 1..Len(o)) /\ (\A j \in 1..Len(o) : j < m /\ ~(m < j)) /\ m \in Nat /\ ~(m < m) /\ m # 0
  BY <1>1
<1>5. QueueOrder(o, q) /\ WireBehind(o, w, q)
  BY DEF Writes
<1>6. ASSUME NEW j \in 1..Len(o) PROVE /\ o[j].r < r /\ o[j].part = q[o[j].r].body
                                       /\ q[o[j].r].body > 0 => o[j].st # "queued"
  <2>1. o[j].r < r /\ o[j].part <= q[o[j].r].body
    BY <1>1, <1>5, <1>6 DEF QueueOrder
  <2>2. CASE q[o[j].r].kind # "final"
    BY <1>1, <2>1, <2>2
  <2>3. CASE q[o[j].r].kind = "final"
    <3>1. PICK i \in 1..Len(w) : w[i] = <<o[j].r, q[o[j].r].body>>
      BY <1>1, <2>1, <2>3
    <3>2. w[i][1] = o[j].r /\ w[i][2] = q[o[j].r].body
      BY <3>1
    <3>3. q[o[j].r].body <= o[j].part /\ (o[j].st = "queued" => q[o[j].r].body < o[j].part)
      BY <1>5, <3>2 DEF WireBehind
    <3> QED BY <1>1, <2>1, <3>3
  <2> QED BY <2>2, <2>3
<1>10. \A j \in 1..Len(o) :
         /\ o[j].r < r /\ o[j].part = q[o[j].r].body
         /\ q[o[j].r].body > 0 => o[j].st # "queued"
  BY <1>6, Zenon
<1>7. QueueOrder(z, q)
  <2>0. e.part <= q[e.r].body
    <3>1. q[r] \in Response
      BY <1>1, ElementOfSeq
    <3> QED BY <1>2, <3>1 DEF Response
  <2>1. \A j \in 1..Len(z) : z[j].part <= q[z[j].r].body
    BY <1>3, <1>4, <1>5, <2>0 DEF QueueOrder
  <2>2. ASSUME NEW i \in 1..Len(z), NEW j \in 1..Len(z), i < j
        PROVE  /\ z[i].r < z[j].r /\ z[i].part = q[z[i].r].body /\ z[j].part = 0
               /\ z[j].st # "queued" => z[i].st # "queued"
    <3>1. i \in 1..Len(o) /\ z[i] = o[i]
      <4>1. i # m
        BY <1>3, <1>4, <2>2
      <4> QED BY <1>3, <1>4, <4>1
    <3>2. CASE j = m
      <4>1. o[i].r < r /\ o[i].part = q[o[i].r].body
        BY <1>10, <3>1, Zenon
      <4>2. z[j] = e
        BY <1>3, <3>2
      <4> QED BY <1>2, <3>1, <4>1, <4>2
    <3>3. CASE j \in 1..Len(o)
      BY <1>3, <1>5, <2>2, <3>1, <3>3 DEF QueueOrder
    <3> QED BY <1>3, <1>4, <3>2, <3>3
  <2> QED BY <2>1, <2>2 DEF QueueOrder
<1>8. WireBehind(z, w, q)
  <2> SUFFICES ASSUME NEW i \in 1..Len(w), NEW j \in 1..Len(z)
               PROVE  /\ w[i][1] = z[j].r => w[i][2] <= z[j].part /\ (z[j].st = "queued" => w[i][2] < z[j].part)
                      /\ Unfinished(z[j], q) => w[i][1] <= z[j].r
    BY DEF WireBehind
  <2>1. CASE j = m
    BY <1>1, <1>2, <1>3, <2>1
  <2>2. CASE j \in 1..Len(o)
    BY <1>3, <1>5, <2>2 DEF WireBehind
  <2> QED BY <1>3, <1>4, <2>1, <2>2
<1>9. ASSUME works PROVE FlowWire(z, w, q) /\ FlowOut(z, w, q)
  <2>1. FlowWire(o, w, q) /\ FlowOut(o, w, q)
    BY <1>9 DEF Writes
  <2>2. FlowOut(z, w, q)
    <3>1. ASSUME NEW j \in 1..Len(z)
          PROVE  /\ z[j].st # "failed"
                 /\ z[j].st = "queued" /\ z[j].part > 0 => j = 1 /\ Len(w) # 0 /\ w[Len(w)] = <<z[j].r, z[j].part - 1>>
                 /\ z[j].st = "sent" /\ z[j].part < q[z[j].r].body => Len(w) # 0 /\ w[Len(w)] = <<z[j].r, z[j].part>>
      <4>1. CASE j = m
        BY <1>2, <1>3, <4>1
      <4>2. CASE j \in 1..Len(o)
        BY <1>3, <2>1, <4>2 DEF FlowOut
      <4> QED BY <1>3, <1>4, <4>1, <4>2
    <3> QED BY <3>1 DEF FlowOut
  <2>3. FlowWire(z, w, q)
    <3> DEFINE n == Len(w)
    <3> SUFFICES ASSUME n # 0, w[n][2] < q[w[n][1]].body PROVE FALSE
      BY DEF FlowWire
    <3>1. /\ o # <<>> /\ o[Len(o)].r = w[n][1]
          /\ \/ o[Len(o)].st = "sent" /\ o[Len(o)].part = w[n][2]
             \/ o[Len(o)].st = "queued" /\ o[Len(o)].part = w[n][2] + 1
      BY <2>1 DEF FlowWire
    <3>2. n \in 1..Len(w) /\ Len(o) \in 1..Len(o)
      <4>1. Len(o) # 0
        BY <3>1, EmptySeq
      <4> QED BY <1>1, <4>1
    <3>3. o[Len(o)].part = q[w[n][1]].body /\ (q[w[n][1]].body > 0 => o[Len(o)].st # "queued")
      <4>1. /\ o[Len(o)].part = q[o[Len(o)].r].body
            /\ q[o[Len(o)].r].body > 0 => o[Len(o)].st # "queued"
        BY <1>10, <3>2, Zenon
      <4>2. o[Len(o)].r = w[n][1]
        BY <3>1
      <4> QED BY <4>1, <4>2
    <3>4. w[n][2] \in Nat /\ q[w[n][1]].body \in Nat
      BY <1>1, <3>2
    <3> HIDE DEF n
    <3> QED BY <3>1, <3>3, <3>4
  <2> QED BY <2>2, <2>3
<1> QED BY <1>7, <1>8, <1>9 DEF Writes, z, e

\* The first waiting write m leaves the state "queued".
Leaves(o, z, m, st) ==
  /\ Len(z) = Len(o) /\ m \in 1..Len(o) /\ o[m].st = "queued" /\ z[m].st = st
  /\ \A j \in 1..Len(o) : /\ z[j].r = o[j].r /\ z[j].part = o[j].part
                          /\ j # m => z[j].st = o[j].st
                          /\ j < m => o[j].st # "queued"

LEMMA QueueLeaves ==
  ASSUME NEW q \in Seq(Response), NEW o \in Seq(OutWrite), NEW w \in Wire, Within(o, w, q),
         NEW z, NEW m, NEW st, st # "queued", Leaves(o, z, m, st),
         QueueOrder(o, q), WireBehind(o, w, q)
  PROVE  QueueOrder(z, q) /\ WireBehind(z, w, q)
<1>1. \A j \in 1..Len(z) : /\ j \in 1..Len(o) /\ z[j].r = o[j].r /\ z[j].part = o[j].part
                           /\ z[j].st = "queued" => o[j].st = "queued"
                           /\ o[j].st # "queued" => z[j].st # "queued"
  BY DEF Leaves
<1>2. ASSUME NEW i \in 1..Len(z), NEW j \in 1..Len(z), i < j, z[j].st # "queued"
      PROVE  z[i].st # "queued"
  <2>1. CASE j = m
    BY <1>2, <2>1 DEF Leaves
  <2>2. CASE j # m
    <3>1. o[j].st # "queued"
      BY <1>2, <2>2 DEF Leaves
    <3>2. o[i].st # "queued"
      BY <1>1, <1>2, <3>1 DEF QueueOrder
    <3> QED BY <1>1, <3>2
  <2> QED BY <2>1, <2>2
<1>3. QueueOrder(z, q)
  <2>1. \A j \in 1..Len(z) : z[j].part <= q[z[j].r].body
    BY <1>1 DEF QueueOrder
  <2>2. \A i, j \in 1..Len(z) : i < j => z[i].r < z[j].r /\ z[i].part = q[z[i].r].body /\ z[j].part = 0
    BY <1>1 DEF QueueOrder
  <2> QED BY <1>2, <2>1, <2>2 DEF QueueOrder
<1>4. WireBehind(z, w, q)
  BY <1>1 DEF WireBehind, Unfinished
<1> QED BY <1>3, <1>4

\* It fails: the socket does not work any more.
LEMMA WritesFailed ==
  ASSUME NEW q \in Seq(Response), NEW o \in Seq(OutWrite), NEW w \in Wire, Within(o, w, q),
         NEW z, NEW m, Leaves(o, z, m, "failed"),
         NEW works \in BOOLEAN, Writes(o, w, q, works)
  PROVE  Writes(z, w, q, FALSE)
BY QueueLeaves DEF Writes

\* It is sent: the part goes behind what is on the wire.
LEMMA WritesSent ==
  ASSUME NEW q \in Seq(Response), NEW o \in Seq(OutWrite), NEW w \in Wire, Within(o, w, q),
         NEW z \in Seq(OutWrite), NEW m, Leaves(o, z, m, "sent"), Writes(o, w, q, TRUE)
  PROVE  Writes(z, Append(w, <<o[m].r, o[m].part>>), q, TRUE)
<1> DEFINE x == <<o[m].r, o[m].part>>
           v == Append(w, x)
           n == Len(w) + 1
<1>1. /\ Len(q) \in Nat /\ Len(o) \in Nat /\ Len(w) \in Nat
      /\ \A j \in 1..Len(o) : /\ o[j].r \in Nat /\ o[j].part \in Nat /\ o[j].r \in 1..Len(q) /\ q[o[j].r].body \in Nat
                              /\ o[j].st \in {"queued", "sent", "failed"}
      /\ \A i \in 1..Len(w) : w[i][1] \in Nat /\ w[i][2] \in Nat /\ w[i][1] \in 1..Len(q) /\ q[w[i][1]].body \in Nat
  BY WritesTypes
<1>2. /\ m \in 1..Len(o) /\ Len(z) = Len(o) /\ o[m].st = "queued" /\ z[m].st = "sent"
      /\ \A j \in 1..Len(o) : z[j].r = o[j].r /\ z[j].part = o[j].part /\ (j # m => z[j].st = o[j].st) /\ (j < m => o[j].st # "queued")
  BY DEF Leaves
<1>3. x \in Nat \X Nat /\ x[1] = o[m].r /\ x[2] = o[m].part
  BY <1>1, <1>2
<1>4. Len(v) = n /\ v[n] = x /\ \A i \in 1..Len(w) : v[i] = w[i]
  <2> HIDE DEF x
  <2> QED BY <1>3, AppendProperties DEF Wire
<1>5. /\ (\A i \in 1..n : i = n \/ i \in 1..Len(w)) /\ (\A i \in 1..Len(w) : i < n /\ ~(n < i) /\ i # n)
      /\ n \in Nat /\ n # 0 /\ n - 1 = Len(w)
      /\ (n > 1 => Len(w) \in 1..Len(w) /\ Len(w) # 0) /\ (Len(w) # 0 => n > 1)
      /\ \A i \in 1..Len(w) : i > 1 => i - 1 \in 1..Len(w)
  BY <1>1
<1> HIDE DEF v, n
<1>6. QueueOrder(o, q) /\ WireBehind(o, w, q) /\ WireParts(w, q) /\ WireSorted(w) /\ FlowWire(o, w, q) /\ FlowOut(o, w, q)
  BY DEF Writes
<1>7. QueueOrder(z, q) /\ WireBehind(z, w, q)
  BY <1>6, QueueLeaves
\* Nothing but the last write has more parts, and it is the one that is sent if it has.
<1>8. ASSUME NEW j \in 1..Len(o), o[j].part < q[o[j].r].body PROVE j = Len(o)
  <2>1. CASE j < Len(o)
    <3>1. Len(o) \in 1..Len(o)
      BY <1>1, <1>8
    <3>2. o[j].part = q[o[j].r].body
      BY <1>6, <2>1, <3>1 DEF QueueOrder
    <3> QED BY <1>1, <1>8, <3>2
  <2> QED BY <1>1, <2>1
<1>9. ASSUME NEW j \in 1..Len(o), j > m PROVE o[j].st = "queued"
  BY <1>1, <1>2, <1>6, <1>9 DEF QueueOrder
<1>10. WireBehind(z, v, q)
  <2> SUFFICES ASSUME NEW i \in 1..Len(v), NEW j \in 1..Len(z)
               PROVE  /\ v[i][1] = z[j].r => v[i][2] <= z[j].part /\ (z[j].st = "queued" => v[i][2] < z[j].part)
                      /\ Unfinished(z[j], q) => v[i][1] <= z[j].r
    BY DEF WireBehind
  <2>1. CASE i \in 1..Len(w)
    BY <1>4, <1>7, <2>1 DEF WireBehind
  <2>2. CASE i = n
    <3>0. v[i][1] = o[m].r /\ v[i][2] = o[m].part /\ j \in 1..Len(o) /\ z[j].r = o[j].r /\ z[j].part = o[j].part
      BY <1>2, <1>3, <1>4, <2>2
    <3> HIDE DEF x
    <3>1. CASE j = m
      BY <1>1, <1>2, <3>0, <3>1
    <3>2. CASE j < m
      <4>1. o[j].r < o[m].r /\ o[j].part = q[o[j].r].body /\ o[j].st # "queued"
        BY <1>2, <1>6, <3>0, <3>2 DEF QueueOrder
      <4>2. z[j].st # "queued"
        BY <1>2, <3>0, <4>1
      <4>3. ~Unfinished(z[j], q)
        BY <1>1, <3>0, <4>1, <4>2 DEF Unfinished
      <4>4. o[j].r \in Nat /\ o[m].r \in Nat
        BY <1>1, <1>2, <3>0
      <4> QED BY <3>0, <4>1, <4>3, <4>4
    <3>3. CASE j > m
      <4>1. o[m].r < o[j].r
        BY <1>2, <1>6, <3>0, <3>3 DEF QueueOrder
      <4>4. o[j].r \in Nat /\ o[m].r \in Nat
        BY <1>1, <1>2, <3>0
      <4> QED BY <3>0, <4>1, <4>4
    <3> QED BY <1>1, <1>2, <3>0, <3>1, <3>2, <3>3
  <2> QED BY <1>4, <1>5, <2>1, <2>2
<1>11. WireParts(v, q)
  <2>1. ASSUME NEW i \in 1..Len(w)
        PROVE  /\ v[i][2] > 0 => i > 1 /\ v[i - 1] = <<v[i][1], v[i][2] - 1>>
               /\ v[i][2] = 0 /\ i > 1 => v[i - 1][2] = q[v[i - 1][1]].body
    BY <1>4, <1>5, <1>6, <2>1 DEF WireParts
  <2>2. ASSUME o[m].part > 0 PROVE n > 1 /\ v[n - 1] = <<o[m].r, o[m].part - 1>>
    BY <1>2, <1>4, <1>5, <1>6, <2>2 DEF FlowOut
  <2>3. ASSUME o[m].part = 0, n > 1 PROVE v[n - 1][2] = q[v[n - 1][1]].body
    <3> DEFINE l == Len(w)
    <3>1. l \in 1..Len(w) /\ l # 0 /\ v[n - 1] = w[l] /\ w[l][2] \in Nat /\ w[l][1] \in Nat /\ q[w[l][1]].body \in Nat
      BY <1>1, <1>4, <1>5, <2>3
    <3>2. ASSUME w[l][2] < q[w[l][1]].body PROVE FALSE
      <4> DEFINE e == o[Len(o)]
      <4>1. /\ e.st = "sent" \/ (e.st = "queued" /\ e.part = w[l][2] + 1)
        BY <1>6, <3>1, <3>2 DEF FlowWire
      <4>2. Len(o) \in 1..Len(o) /\ (m # Len(o) => Len(o) > m)
        BY <1>1, <1>2
      <4>3. CASE e.st = "sent"
        BY <1>2, <1>9, <4>2, <4>3
      <4>4. CASE e.st = "queued" /\ e.part = w[l][2] + 1
        <5>1. e.part > 0
          BY <3>1, <4>4
        <5>2. Len(o) = 1
          BY <1>6, <4>2, <4>4, <5>1 DEF FlowOut
        <5>3. m = Len(o)
          BY <1>2, <5>2
        <5> HIDE DEF l
        <5> QED BY <2>3, <5>1, <5>3
      <4> QED BY <4>1, <4>3, <4>4
    <3>3. w[l][2] <= q[w[l][1]].body
      BY <1>6, <3>1 DEF WireParts
    <3> HIDE DEF l
    <3> QED BY <3>1, <3>2, <3>3
  <2>4. o[m].part <= q[o[m].r].body
    BY <1>2, <1>6 DEF QueueOrder
  <2>5. v[n][1] = o[m].r /\ v[n][2] = o[m].part
    BY <1>3, <1>4
  <2>6. \A i \in 1..Len(w) : v[i][2] <= q[v[i][1]].body
    BY <1>4, <1>6 DEF WireParts
  <2> HIDE DEF x
  <2>7. ASSUME NEW i \in 1..Len(v)
        PROVE  /\ v[i][2] <= q[v[i][1]].body
               /\ v[i][2] > 0 => i > 1 /\ v[i - 1] = <<v[i][1], v[i][2] - 1>>
               /\ v[i][2] = 0 /\ i > 1 => v[i - 1][2] = q[v[i - 1][1]].body
    <3>1. CASE i = n
      BY <2>2, <2>3, <2>4, <2>5, <3>1
    <3>2. CASE i \in 1..Len(w)
      BY <2>1, <2>6, <3>2
    <3> QED BY <1>4, <1>5, <3>1, <3>2
  <2> QED BY <2>7 DEF WireParts
<1>12. WireSorted(v)
  <2>1. ASSUME NEW i \in 1..Len(v), NEW j \in 1..Len(v), i < j PROVE v[i][1] <= v[j][1]
    <3>1. i \in 1..Len(w) /\ v[i] = w[i]
      <4>1. i # n
        BY <1>4, <1>5, <2>1
      <4> QED BY <1>4, <1>5, <4>1
    <3>2. CASE j = n
      <4>1. Unfinished(o[m], q)
        BY <1>2 DEF Unfinished
      <4>2. w[i][1] <= o[m].r
        BY <1>2, <1>6, <3>1, <4>1 DEF WireBehind
      <4> QED BY <1>3, <1>4, <3>1, <3>2, <4>2
    <3>3. CASE j \in 1..Len(w)
      BY <1>4, <1>6, <2>1, <3>1, <3>3 DEF WireSorted
    <3> QED BY <1>4, <1>5, <3>2, <3>3
  <2> QED BY <2>1 DEF WireSorted
<1>13. FlowWire(z, v, q)
  <2> SUFFICES ASSUME v[n][2] < q[v[n][1]].body
               PROVE  /\ z # <<>> /\ z[Len(z)].r = v[n][1]
                      /\ z[Len(z)].st = "sent" /\ z[Len(z)].part = v[n][2]
    BY <1>4 DEF FlowWire
  <2>1. v[n][1] = o[m].r /\ v[n][2] = o[m].part
    BY <1>3, <1>4
  <2>2. m = Len(o)
    BY <1>2, <1>8, <2>1
  <2>3. z # <<>>
    <3>1. Len(z) # 0
      BY <1>1, <1>2
    <3> QED BY <3>1, EmptySeq, Zenon
  <2> QED BY <1>2, <2>1, <2>2, <2>3
<1>14. FlowOut(z, v, q)
  <2> SUFFICES ASSUME NEW j \in 1..Len(z)
               PROVE  /\ z[j].st # "failed"
                      /\ ~(z[j].st = "queued" /\ z[j].part > 0)
                      /\ z[j].st = "sent" /\ z[j].part < q[z[j].r].body => n # 0 /\ v[n] = <<z[j].r, z[j].part>>
    BY <1>4 DEF FlowOut
  <2>0. j \in 1..Len(o) /\ z[j].r = o[j].r /\ z[j].part = o[j].part /\ (j # m => z[j].st = o[j].st)
    BY <1>2
  <2>1. z[j].st # "failed"
    BY <1>2, <1>6, <2>0 DEF FlowOut
  <2>2. ASSUME z[j].st = "queued", z[j].part > 0 PROVE FALSE
    <3>1. j # m
      BY <1>2, <2>2
    <3>2. o[j].st = "queued" /\ o[j].part > 0
      BY <2>0, <2>2, <3>1
    <3>3. j = 1
      BY <1>6, <2>0, <3>2 DEF FlowOut
    <3>4. j < m
      BY <1>1, <1>2, <3>1, <3>3
    <3> QED BY <1>2, <2>0, <3>2, <3>4
  <2>3. ASSUME z[j].st = "sent", z[j].part < q[z[j].r].body PROVE v[n] = <<z[j].r, z[j].part>>
    <3>1. j = Len(o)
      BY <1>8, <2>0, <2>3
    <3>2. j = m
      <4>1. CASE j # m
        <5>1. j > m
          BY <1>1, <1>2, <3>1, <4>1
        <5>2. o[j].st = "queued"
          BY <1>9, <2>0, <5>1
        <5> QED BY <2>0, <2>3, <4>1, <5>2
      <4> QED BY <4>1
    <3> QED BY <1>4, <2>0, <3>2
  <2> QED BY <1>5, <2>1, <2>2, <2>3
<1> QED BY <1>7, <1>10, <1>11, <1>12, <1>13, <1>14 DEF Writes, v

-------------------------------------------------------------------------------
(* Which responses there are. *)

RespKeeps(q, z) == Len(z) = Len(q) /\ \A i \in 1..Len(q) : SameResponse(q[i], z[i])

\* A response to the current request is made, which has no final one yet.
Makes(e) == /\ resp' = Append(resp, e) /\ e.req = parser.cur /\ parser.cur \in ReqNo
            /\ Finals(resp, parser.cur) = {}
            /\ e.kind # "final" => e.body = 0
            /\ e.kind = "final" => Cur.upgrade = "no"

LEMMA MakesFinal ==
  ASSUME TypeOK, parser.cur \in ReqNo, Finals(resp, parser.cur) = {}, Cur.upgrade = "no",
         NEW b \in Nat, resp' = Append(resp, NewResponse(parser.cur, "final", b))
  PROVE  \E e \in Response : Makes(e)
<1> DEFINE e == NewResponse(parser.cur, "final", b)
<1>1. e \in Response /\ e.req = parser.cur /\ e.kind = "final"
  BY NewResponseType DEF NewResponse
<1>2. resp' = Append(resp, e)
  OBVIOUS
<1> HIDE DEF e
<1> QED BY <1>1, <1>2 DEF Makes

LEMMA MakesOther ==
  ASSUME TypeOK, parser.cur \in ReqNo, Finals(resp, parser.cur) = {}, NEW kind \in {"continue", "switch"},
         resp' = Append(resp, [NewResponse(parser.cur, kind, 0) EXCEPT !.st = HeadState(req)])
  PROVE  LET e == [NewResponse(parser.cur, kind, 0) EXCEPT !.st = HeadState(req)] IN
         e \in Response /\ Makes(e) /\ e.st = HeadState(req)
<1> DEFINE e == [NewResponse(parser.cur, kind, 0) EXCEPT !.st = HeadState(req)]
<1>1. e \in Response /\ e.req = parser.cur /\ e.kind # "final" /\ e.body = 0 /\ e.st = HeadState(req)
  BY NewResponseType DEF NewResponse
<1>2. resp' = Append(resp, e)
  OBVIOUS
<1> HIDE DEF e
<1>3. Makes(e)
  BY <1>1, <1>2 DEF Makes
<1> QED BY <1>1, <1>3 DEF e

\* The outcome of a request: its response is written, or dropped, or there is none.
LEMMA OutcomeEffects ==
  ASSUME IInv, Written, AnswerInv, HeadersCompleteComplete \/ BodyError \/ MessageCompleteComplete
  PROVE  LET r == Head(bgq).r
             e == [NewResponse(parser.cur, "continue", 0) EXCEPT !.st = HeadState(req)] IN
         \/ /\ r \in Finals(resp, parser.cur) /\ resp[r].st = "made"
            /\ RespWritten(resp, resp', r) /\ (outq' = outq \/ outq' = UvWrite(req, r, 0))
         \/ resp' = resp /\ outq' = outq
         \/ e \in Response /\ Makes(e) /\ outq' = UvWrite(req, Len(resp) + 1, 0)
<1>0. TypeOK /\ Waits /\ TasksInOrder /\ OneAnswer /\ resp \in Seq(Response)
  BY Types DEF IInv, AnswerInv
<1> DEFINE r == Head(bgq).r
           e == [NewResponse(parser.cur, "continue", 0) EXCEPT !.st = HeadState(req)]
<1>1. bgq # <<>> /\ Head(bgq).op \in Outcome
  BY DEF HeadersCompleteComplete, BodyError, MessageCompleteComplete, Flush, Outcome
<1>2. /\ Head(bgq) \in Replies(bgq) /\ (r # 0 => r \in 1..Len(resp)) /\ (Head(bgq).op = "bodyError" => r # 0)
  BY <1>0, <1>1, FirstOutcome
<1>3. HeadState(req) # "made"
  BY DEF HeadState
<1>4. r # 0 => r \in Finals(resp, parser.cur) /\ resp[r].st = "made"
  BY <1>0, <1>2 DEF OneAnswer
<1>5. \/ /\ r # 0 /\ (outq' = outq \/ outq' = UvWrite(req, r, 0))
         /\ \/ \E close : resp' = [resp EXCEPT ![r].closeAfter = close, ![r].st = HeadState(req)]
            \/ resp' = [resp EXCEPT ![r].st = "gone"]
      \/ resp' = resp /\ outq' = outq
      \/ r = 0 /\ Head(bgq).op = "headersDone" /\ resp' = Append(resp, e) /\ outq' = UvWrite(req, Len(resp) + 1, 0)
  <2>1. CASE HeadersCompleteComplete
    BY <2>1, Zenon DEF HeadersCompleteComplete, WriteResponse, Flush
  <2>2. CASE BodyError
    <3>1. r # 0
      BY <1>2, <2>2 DEF BodyError, Flush
    <3> QED BY <2>2, <3>1, Zenon DEF BodyError, WriteResponse
  <2>3. CASE MessageCompleteComplete
    BY <2>3, Zenon DEF MessageCompleteComplete, WriteResponse
  <2> QED BY <2>1, <2>2, <2>3
<1>6. CASE /\ r # 0 /\ (outq' = outq \/ outq' = UvWrite(req, r, 0))
           /\ \/ \E close : resp' = [resp EXCEPT ![r].closeAfter = close, ![r].st = HeadState(req)]
              \/ resp' = [resp EXCEPT ![r].st = "gone"]
  <2> HIDE DEF r
  <2>1. r \in 1..Len(resp)
    BY <1>2, <1>6
  <2>2. ASSUME NEW close PROVE RespWritten(resp, [resp EXCEPT ![r].closeAfter = close, ![r].st = HeadState(req)], r)
    BY <1>0, <1>3, <2>1, RespUpdate
  <2>3. RespWritten(resp, [resp EXCEPT ![r].st = "gone"], r)
    BY <1>0, <2>1, RespUpdate
  <2>4. RespWritten(resp, resp', r)
    BY <1>6, <2>2, <2>3, Zenon
  <2> QED BY <1>4, <1>6, <2>4 DEF r
<1>7. CASE r = 0 /\ Head(bgq).op = "headersDone" /\ resp' = Append(resp, e) /\ outq' = UvWrite(req, Len(resp) + 1, 0)
  <2>1. Finals(resp, parser.cur) = {}
    BY <1>0, <1>2, <1>7 DEF OneAnswer
  <2>2. Head(bgq) = bgq[1] /\ 1 \in 1..Len(bgq)
    BY <1>0, <1>1, BgFront
  <2>3. parser.st = "wait"
    BY <1>0, <1>7, <2>2 DEF Waits
  <2>4. parser.cur \in ReqNo
    BY <1>0, <2>3, ParserTypes
  <2>5. e \in Response /\ Makes(e)
    BY <1>0, <1>7, <2>1, <2>4, MakesOther
  <2> QED BY <1>7, <2>5
<1> QED BY <1>5, <1>6, <1>7

\* What each step does to the responses there are.
LEMMA RespChange ==
  ASSUME OnHeaders \subseteq {"no"}, IInv, Written, TurnInv, AnswerInv, RespKinds(resp, client.shape), [Next]_vars
  PROVE  RespKeeps(resp, resp') \/ \E e \in Response : Makes(e)
<1>0. /\ TypeOK /\ HandedOver /\ Waits /\ TasksInOrder /\ TasksWhen /\ OneAnswer /\ Flags
      /\ resp \in Seq(Response) /\ later \in Seq(LaterTask) /\ app \in Application /\ Bodies \subseteq Nat
      /\ RespKeeps(resp, resp)
  BY Types, ConstantsAssumption DEF IInv, AnswerInv, TurnInv, RespKeeps, SameResponse
<1>1. CASE RespAlike(resp, resp')
  BY <1>1 DEF RespAlike, RespKeeps
<1>2. CASE ParseHeadersComplete
  <2>1. parser.st = "headers"
    BY <1>2 DEF ParseHeadersComplete, Executing
  <2>2. parser.cur \in ReqNo /\ parser.cur \in 1..Sent
    BY <1>0, <2>1, ParserTypes, CurTypes
  <2>3. resp' = resp \/ (Cur.static /\ \E b \in Bodies : resp' = Append(resp, NewResponse(parser.cur, "final", b)))
    BY <1>2 DEF ParseHeadersComplete
  <2>4. Finals(resp, parser.cur) = {}
    BY <1>0, <2>1 DEF OneAnswer
  <2>5. Cur.static => Cur.upgrade = "no"
    <3>1. Cur \in Shapes
      BY <1>0, <2>2, CurTypes DEF Cur
    <3> QED BY <3>1, ConstantsAssumption
  <2> QED BY <1>0, <2>2, <2>3, <2>4, <2>5, MakesFinal
<1>3. CASE UpgradeConnection
  <2>1. resp' = resp \/ /\ resp' = Append(resp, [NewResponse(parser.cur, "switch", 0) EXCEPT !.st = HeadState(req)])
                        /\ req.isUpgrade /\ Cur.upgrade = "ws"
    BY <1>3 DEF UpgradeConnection
  <2>2. ASSUME req.isUpgrade, Cur.upgrade = "ws" PROVE parser.cur \in ReqNo /\ Finals(resp, parser.cur) = {}
    <3>1. parser.cur \in ReqNo
      BY <1>0, <2>2, UpgradeRequest
    <3>2. \A r \in Finals(resp, parser.cur) : FALSE
      BY <2>2 DEF Finals, RespKinds, Cur
    <3> QED BY <3>1, <3>2
  <2>3. CASE resp' = resp
    BY <1>0, <2>3
  <2>4. CASE /\ resp' = Append(resp, [NewResponse(parser.cur, "switch", 0) EXCEPT !.st = HeadState(req)])
             /\ req.isUpgrade /\ Cur.upgrade = "ws"
    BY <1>0, <2>2, <2>4, MakesOther
  <2> QED BY <2>1, <2>3, <2>4
<1>4. CASE CallOnHeaders \/ CallOnBodyData \/ CallGetResponse
  <2>1. later # <<>> /\ Head(later).op \in NeedsEnv
    BY <1>4 DEF CallOnHeaders, CallOnBodyData, CallGetResponse, RunLater, NeedsEnv
  <2>2. Asks(Head(later).op) /\ Head(later).k = parser.cur /\ parser.cur \in ReqNo
    BY <1>0, <2>1, FirstAsk
  <2>3. ASSUME resp' # resp PROVE Finals(resp, parser.cur) = {} /\ Cur.upgrade = "no"
    <3>1. CASE CallOnHeaders
      <4>1. client.shape[parser.cur].upgrade \in OnHeaders /\ Asks("onHeaders")
        BY <2>2, <2>3, <3>1 DEF CallOnHeaders, RunLater
      <4> QED BY <1>0, <4>1 DEF OneAnswer, Cur
    <3>2. CASE CallOnBodyData
      <4>1. ~req.responseScheduled /\ Asks("onBodyData")
        BY <2>2, <2>3, <3>2 DEF CallOnBodyData, RunLater
      <4>2. parser.st = "body" \/ Over
        BY <1>0, <4>1 DEF TasksWhen
      <4>3. Cur.upgrade = "no"
        BY <1>0, <4>2 DEF Flags, Over
      <4> QED BY <1>0, <4>1, <4>3 DEF OneAnswer
    <3>3. CASE CallGetResponse
      <4>1. ~req.responseScheduled /\ Asks("getResponse")
        BY <2>2, <2>3, <3>3 DEF CallGetResponse, RunLater
      <4>2. Over
        BY <1>0, <4>1 DEF TasksWhen
      <4> QED BY <1>0, <4>1, <4>2 DEF OneAnswer, Over
    <3> QED BY <1>4, <3>1, <3>2, <3>3
  <2>4. resp' = resp \/ \E b \in Bodies \cup {1} : resp' = Append(resp, NewResponse(parser.cur, "final", b))
    BY <1>4, <2>2 DEF CallOnHeaders, CallOnBodyData, CallGetResponse, Respond
  <2>5. CASE resp' = resp
    BY <1>0, <2>5
  <2>6. CASE resp' # resp
    <3>1. PICK b \in Bodies \cup {1} : resp' = Append(resp, NewResponse(parser.cur, "final", b))
      BY <2>4, <2>6
    <3>2. b \in Nat
      BY <1>0
    <3> QED BY <1>0, <2>2, <2>3, <2>6, <3>1, <3>2, MakesFinal
  <2> QED BY <2>5, <2>6
<1>5. CASE PromiseResolves
  <2>1. PICK k \in app.promised, b \in Bodies : resp' = Append(resp, NewResponse(k, "final", b))
    BY <1>5 DEF PromiseResolves, Respond
  <2>2. k = parser.cur /\ parser.cur \in ReqNo
    BY <1>0, <2>1 DEF TasksInOrder, Application
  <2>3. Over /\ Finals(resp, parser.cur) = {}
    BY <1>0 DEF TasksWhen, OneAnswer
  <2> QED BY <1>0, <2>1, <2>2, <2>3, MakesFinal DEF Over
<1>6. CASE HeadersCompleteComplete \/ BodyError \/ MessageCompleteComplete
  BY <1>0, <1>6, OutcomeEffects DEF RespWritten, RespKeeps
<1> QED BY <1>0, <1>1, <1>2, <1>3, <1>4, <1>5, <1>6, RespStep

Longer(w, v) == Len(w) <= Len(v) /\ \A i \in 1..Len(w) : v[i] = w[i]

LEMMA RespInvKeeps ==
  ASSUME NEW q \in Seq(Response), NEW z \in Seq(Response), RespKeeps(q, z),
         NEW s, NEW t, \A r \in 1..Len(q) : t[q[r].req] = s[q[r].req],
         NEW w \in Wire, NEW v \in Wire, Longer(w, v), NEW k,
         RespSorted(q), RespKinds(q, s), Delivered(q, w, k)
  PROVE  RespSorted(z) /\ RespKinds(z, t) /\ Delivered(z, v, k)
<1>1. /\ Len(z) = Len(q)
      /\ \A r \in 1..Len(q) : z[r].req = q[r].req /\ z[r].kind = q[r].kind /\ z[r].body = q[r].body
  BY DEF RespKeeps, SameResponse
<1>2. RespSorted(z)
  BY <1>1 DEF RespSorted
<1>3. RespKinds(z, t)
  BY <1>1 DEF RespKinds
<1>4. Delivered(z, v, k)
  <2>1. Len(w) \in Nat /\ Len(v) \in Nat
    BY LenProperties DEF Wire
  <2>2. \A i \in 1..Len(w) : i \in 1..Len(v) /\ v[i] = w[i]
    BY <2>1 DEF Longer
  <2> QED BY <1>1, <2>2 DEF Delivered
<1> QED BY <1>2, <1>3, <1>4

LEMMA RespInvMakes ==
  ASSUME NEW q \in Seq(Response), NEW e \in Response, NEW s, NEW w \in Wire, NEW k \in Nat,
         RespSorted(q), RespKinds(q, s), Delivered(q, w, k),
         e.req = k, \A r \in 1..Len(q) : q[r].req <= k, Finals(q, k) = {},
         e.kind # "final" => e.body = 0, e.kind = "final" => s[k].upgrade = "no"
  PROVE  LET z == Append(q, e) IN RespSorted(z) /\ RespKinds(z, s) /\ Delivered(z, w, k)
<1> DEFINE z == Append(q, e)
           n == Len(q) + 1
<1>1. Len(q) \in Nat /\ Len(z) = n /\ z[n] = e /\ \A i \in 1..Len(q) : z[i] = q[i]
  BY RespAppend
<1> HIDE DEF z
<1>2. (\A i \in 1..n : i = n \/ i \in 1..Len(q)) /\ (\A i \in 1..Len(q) : i < n /\ ~(n < i)) /\ ~(n < n)
  BY <1>1
<1> HIDE DEF n
<1>3. \A i \in 1..Len(q) : q[i].req \in Nat
  <2>1. \A i \in 1..Len(q) : q[i] \in Response
    BY ElementOfSeq
  <2> QED BY <2>1 DEF Response, ReqNo
<1>4. RespSorted(z)
  <2> SUFFICES ASSUME NEW i \in 1..n, NEW j \in 1..n, i < j
               PROVE  z[i].req <= z[j].req /\ (z[i].kind = "final" => z[i].req < z[j].req)
    BY <1>1 DEF RespSorted
  <2>1. i \in 1..Len(q)
    <3>1. i # n
      BY <1>2
    <3> QED BY <1>2, <3>1
  <2>2. CASE j = n
    <3>1. q[i].req <= k
      BY <2>1
    <3>2. q[i].kind = "final" => q[i].req # k
      BY <2>1 DEF Finals
    <3>3. q[i].kind = "final" => q[i].req < k
      BY <1>3, <2>1, <3>1, <3>2
    <3> QED BY <1>1, <2>1, <2>2, <3>1, <3>3
  <2>3. CASE j \in 1..Len(q)
    BY <1>1, <2>1, <2>3 DEF RespSorted
  <2> QED BY <1>2, <2>2, <2>3
<1>5. RespKinds(z, s)
  BY <1>1, <1>2 DEF RespKinds
<1>6. Delivered(z, w, k)
  <2> SUFFICES ASSUME NEW r \in 1..n, z[r].kind = "final", z[r].req < k
               PROVE  \E i \in 1..Len(w) : w[i] = <<r, z[r].body>>
    BY <1>1 DEF Delivered
  <2>1. r # n
    BY <1>1
  <2>2. r \in 1..Len(q) /\ z[r] = q[r]
    BY <1>1, <1>2, <2>1
  <2> QED BY <2>2 DEF Delivered
<1> QED BY <1>4, <1>5, <1>6 DEF z

\* The next request begins after the answer to the one before.
LEMMA DeliveredBegins ==
  ASSUME TypeOK, TasksInOrder, OneAnswer, NEW k \in Nat, k = parser.cur,
         k # 0 => Answered(k), Delivered(resp, wire, k)
  PROVE  Delivered(resp, wire, k + 1)
<1>0. resp \in Seq(Response) /\ wire \in Wire /\ DOMAIN resp = 1..Len(resp) /\ DOMAIN wire = 1..Len(wire)
  BY Types, LenProperties DEF Wire
<1> SUFFICES ASSUME NEW r \in 1..Len(resp), resp[r].kind = "final", resp[r].req < k + 1
             PROVE  \E i \in 1..Len(wire) : wire[i] = <<r, resp[r].body>>
  BY DEF Delivered
<1>1. resp[r].req \in Nat /\ resp[r].req # 0 /\ resp[r].body \in Nat
  <2>1. resp[r] \in Response
    BY <1>0, ElementOfSeq
  <2> QED BY <2>1 DEF Response, ReqNo
<1>2. CASE resp[r].req < k
  BY <1>2 DEF Delivered
<1>3. CASE resp[r].req = k
  <2>1. Answered(k)
    BY <1>1, <1>3
  <2>2. PICK x \in 1..Len(resp) : resp[x].req = k /\ resp[x].kind = "final" /\ Parts(x) \subseteq OnWire
    BY <1>0, <2>1, Zenon DEF Answered
  <2>3. x = r
    BY <1>3, <2>2 DEF OneAnswer, Finals
  <2>4. resp[r].body \in 0..resp[r].body
    BY <1>1
  <2>5. <<r, resp[r].body>> \in Parts(r)
    BY <2>4, Zenon DEF Parts
  <2>6. <<r, resp[r].body>> \in OnWire
    BY <2>2, <2>3, <2>5, Zenon
  <2> QED BY <1>0, <2>6, Zenon DEF OnWire
<1> QED BY <1>1, <1>2, <1>3

\* Only a write that is sent changes the wire.
LEMMA WireSame ==
  ASSUME [Next]_vars
  PROVE  wire' = wire \/ WriteOut
<1>1. CASE ClientStep \/ OnRead \/ OnReadError \/ ServerStops \/ WriteFails \/ WriteCallback \/ OnClosed
           \/ PromiseResolves \/ UNCHANGED vars
  BY <1>1, ZenonT(40) DEF ClientStep, ClientSend, ClientSendWs, ClientLeaves, OnRead, OnReadError,
         ServerStops, WriteFails, WriteCallback, OnResponseWritten, OnChunkWritten, OnClosed, PromiseResolves, vars
<1>2. CASE Parse \/ FlushTask
  BY <1>2, ZenonT(40) DEF Parse, FlushTask, ParseMessageBegin, ParseHeadersComplete, ParseWaiting,
         ParseHeadersDone, ParseBody, ParseRefuses, KeepForLater, UpgradeConnection, ParseDone,
         HeadersCompleteComplete, BodyError, MessageCompleteComplete, ScheduledClose, ScheduledWsRead
<1>3. CASE MainTask
  BY <1>3, ZenonT(40) DEF MainTask, InitializeEnv, CallOnHeaders, CallOnBodyData, CallGetResponse,
         CallWsOpen, PassRequestBuffer, CallWsMessage, CallWsClose
<1> QED BY <1>1, <1>2, <1>3 DEF Next

\* Only the head of a request brings the parser to another one.
LEMMA CurStep ==
  ASSUME TypeOK, [Next]_vars
  PROVE  parser'.cur = parser.cur \/ ParseMessageBegin
<1>0. parser \in Parser
  BY Types
<1>1. CASE ParseHeadersComplete
  BY <1>0, <1>1 DEF ParseHeadersComplete, Parser
<1>2. CASE ParseHeadersDone
  BY <1>0, <1>2 DEF ParseHeadersDone, Parser
<1>3. CASE ParseBody
  BY <1>0, <1>3 DEF ParseBody, Parser
<1>4. CASE HeadersCompleteComplete
  BY <1>0, <1>4 DEF HeadersCompleteComplete, Execute, Parser
<1> QED BY <1>1, <1>2, <1>3, <1>4, PosStep DEF PosKept

\* The responses after a step.
LEMMA ResponsesStep ==
  ASSUME OnHeaders \subseteq {"no"}, IInv, Written, TurnInv, AnswerInv, WInv, IInv', [Next]_vars, Patient'
  PROVE  RespSorted(resp') /\ RespKinds(resp', client'.shape) /\ Delivered(resp', wire', parser'.cur)
<1>0. /\ TypeOK /\ TypeOK' /\ HandedOver /\ Waits /\ TasksInOrder /\ OneAnswer /\ InTurn
      /\ resp \in Seq(Response) /\ resp' \in Seq(Response) /\ wire \in Wire /\ wire' \in Wire
      /\ RespSorted(resp) /\ RespKinds(resp, client.shape) /\ Delivered(resp, wire, parser.cur)
      /\ parser.cur \in Nat /\ Sent \in Nat /\ parser.cur <= Sent
  BY Types, CurTypes DEF IInv, AnswerInv, TurnInv, WInv, Wire, TypeOK
<1>1. \A r \in 1..Len(resp) : client'.shape[resp[r].req] = client.shape[resp[r].req]
  <2>1. \A k \in 1..Sent : client'.shape[k] = client.shape[k]
    BY <1>0, ShapeStep, SendFacts DEF ShapesKept
  <2>2. ASSUME NEW r \in 1..Len(resp) PROVE resp[r].req \in 1..Sent
    <3>1. resp[r] \in Response /\ resp[r].req <= parser.cur
      BY <1>0, <2>2, ElementOfSeq DEF TasksInOrder
    <3> QED BY <1>0, <3>1 DEF Response, ReqNo
  <2> QED BY <2>1, <2>2
<1>2. Longer(wire, wire')
  <2>1. Len(wire) \in Nat
    BY <1>0, LenProperties DEF Wire
  <2>2. CASE wire' = wire
    BY <2>1, <2>2 DEF Longer
  <2>3. ASSUME NEW x \in Nat \X Nat, wire' = Append(wire, x) PROVE Longer(wire, wire')
    <3>1. Len(wire') = Len(wire) + 1 /\ \A i \in 1..Len(wire) : wire'[i] = wire[i]
      BY <1>0, <2>3, AppendProperties DEF Wire
    <3> QED BY <2>1, <3>1 DEF Longer
  <2>4. CASE WriteOut
    <3>1. Oldest \in DOMAIN outq
      BY <1>0, <2>4, OldestType DEF WriteOut
    <3>2. <<outq[Oldest].r, outq[Oldest].part>> \in Nat \X Nat
      BY <1>0, <3>1, Types, OutUpdate
    <3> QED BY <2>3, <2>4, <3>2 DEF WriteOut
  <2> QED BY <1>0, <2>2, <2>4, WireSame
<1>3. CASE RespKeeps(resp, resp')
  <2>1. RespSorted(resp') /\ RespKinds(resp', client'.shape) /\ Delivered(resp', wire', parser.cur)
    BY <1>0, <1>1, <1>2, <1>3, RespInvKeeps
  <2>2. CASE ParseMessageBegin
    <3>1. parser'.cur = parser.cur + 1 /\ resp' = resp /\ wire' = wire /\ Sent > parser.cur
      BY <1>0, <2>2, HeadFacts, BeginEffects
    <3>2. parser.cur # 0 => Answered(parser.cur)
      BY <1>0, <3>1 DEF InTurn
    <3>3. Delivered(resp, wire, parser.cur + 1)
      BY <1>0, <3>2, DeliveredBegins
    <3> QED BY <2>1, <3>1, <3>3
  <2>3. CASE parser'.cur = parser.cur
    BY <2>1, <2>3
  <2> QED BY <1>0, <2>2, <2>3, CurStep
<1>4. ASSUME NEW e \in Response, Makes(e)
      PROVE  RespSorted(resp') /\ RespKinds(resp', client'.shape) /\ Delivered(resp', wire', parser'.cur)
  <2>1. parser'.cur = parser.cur
    <3>1. CASE ParseMessageBegin
      <4>1. resp' = resp
        BY <1>0, <3>1, BeginEffects
      <4>2. Len(resp') = Len(resp) + 1 /\ Len(resp) \in Nat
        BY <1>0, <1>4, RespAppend DEF Makes
      <4> QED BY <4>1, <4>2
    <3> QED BY <1>0, <3>1, CurStep
  <2>2. client'.shape[parser.cur] = client.shape[parser.cur] /\ parser.cur \in 1..Sent
    <3>1. parser.cur \in 1..Sent
      BY <1>0, <1>4 DEF Makes, ReqNo
    <3>2. \A k \in 1..Sent : client'.shape[k] = client.shape[k]
      BY <1>0, ShapeStep, SendFacts DEF ShapesKept
    <3> QED BY <3>1, <3>2
  <2>3. RespSorted(resp) /\ RespKinds(resp, client'.shape) /\ Delivered(resp, wire', parser.cur)
    <3>1. RespKeeps(resp, resp)
      BY DEF RespKeeps, SameResponse
    <3> QED BY <1>0, <1>1, <1>2, <3>1, RespInvKeeps
  <2> DEFINE s == client'.shape
             k == parser.cur
             w == wire'
  <2>4. /\ w \in Wire /\ k \in Nat /\ RespSorted(resp) /\ RespKinds(resp, s) /\ Delivered(resp, w, k)
        /\ e.req = k /\ (\A r \in 1..Len(resp) : resp[r].req <= k) /\ Finals(resp, k) = {}
        /\ (e.kind # "final" => e.body = 0) /\ (e.kind = "final" => s[k].upgrade = "no")
        /\ resp' = Append(resp, e)
    BY <1>0, <1>4, <2>2, <2>3 DEF Makes, TasksInOrder, Cur
  <2> HIDE DEF s, k, w
  <2>5. LET z == Append(resp, e) IN RespSorted(z) /\ RespKinds(z, s) /\ Delivered(z, w, k)
    BY <1>0, <2>4, RespInvMakes
  <2> QED BY <2>1, <2>4, <2>5 DEF s, k, w
<1> QED BY <1>0, <1>3, <1>4, RespChange

\* A socket that was closed or broke does not work again.
LEMMA WorksStep ==
  ASSUME TypeOK, HandedOver, [Next]_vars
  PROVE  /\ Works' => Works
         /\ Works \in BOOLEAN /\ Works' \in BOOLEAN
         /\ req.isClosing => req'.isClosing
<1>1. req.isClosing => req'.isClosing
  <2>1. CASE ReqKept(req, req')
    BY <2>1 DEF ReqKept
  <2>2. CASE ParseHeadersComplete \/ KeepForLater \/ HeadersCompleteComplete \/ PassRequestBuffer
             \/ OnClosed
    BY <2>2, ReqOther
  <2>3. CASE UpgradeConnection
    <3>0. req \in Request
      BY Types
    <3>1. \/ req' = req
          \/ req' = [RequestCompleted(req) EXCEPT !.protocol = "WebSockets",
                                                  !.requestBuffer = @ \o parser.data]
          \/ req' = Closed(req)
      BY <2>3 DEF UpgradeConnection
    <3> QED BY <3>0, <3>1 DEF RequestCompleted, Closed, Request
  <2> QED BY <2>1, <2>2, <2>3, ReqStep
<1>2. client.broken => client'.broken
  <2>0. client \in Client
    BY Types
  <2>1. CASE ClientStep \/ WriteFails
    BY <2>0, <2>1 DEF ClientStep, ClientSend, ClientSendWs, ClientLeaves, WriteFails, Client
  <2>2. CASE OnRead
    <3>1. \E d : client' = [client EXCEPT !.net = d]
      BY <2>2 DEF OnRead
    <3> QED BY <2>0, <3>1 DEF Client
  <2>3. CASE Parse \/ FlushTask
    BY <2>3, ZenonT(40) DEF Parse, FlushTask, ParseMessageBegin, ParseHeadersComplete, ParseWaiting, ParseHeadersDone,
         ParseBody, ParseRefuses, KeepForLater, UpgradeConnection, ParseDone, HeadersCompleteComplete, BodyError,
         MessageCompleteComplete, ScheduledClose, ScheduledWsRead
  <2>4. CASE MainTask \/ PromiseResolves
    BY <2>4, ZenonT(40) DEF MainTask, InitializeEnv, CallOnHeaders, CallOnBodyData, CallGetResponse,
         CallWsOpen, PassRequestBuffer, CallWsMessage, CallWsClose, PromiseResolves
  <2>5. CASE OnReadError \/ ServerStops \/ WriteOut \/ WriteCallback \/ OnClosed \/ UNCHANGED vars
    BY <2>5, ZenonT(40) DEF OnReadError, ServerStops, WriteOut, WriteCallback, OnResponseWritten, OnChunkWritten,
         OnClosed, vars
  <2> QED BY <2>1, <2>2, <2>3, <2>4, <2>5, ZenonT(40) DEF Next
<1> QED BY <1>1, <1>2 DEF Works

\* Writes is about a socket that works as long as it does.
LEMMA WritesLess ==
  ASSUME NEW o, NEW w, NEW q, NEW works \in BOOLEAN, NEW still \in BOOLEAN, still => works,
         Writes(o, w, q, works)
  PROVE  Writes(o, w, q, still)
BY DEF Writes

LEMMA OldestLeaves ==
  ASSUME TypeOK, \E i \in DOMAIN outq : outq[i].st = "queued", NEW st \in {"sent", "failed"},
         outq' = [outq EXCEPT ![Oldest].st = st]
  PROVE  Leaves(outq, outq', Oldest, st)
<1>1. outq \in Seq(OutWrite) /\ DOMAIN outq = 1..Len(outq) /\ Len(outq) \in Nat /\ outq \in [1..Len(outq) -> OutWrite]
  BY Types, LenProperties
<1> DEFINE T == {i \in DOMAIN outq : outq[i].st = "queued"}
           m == Oldest
<1>2. T \subseteq Nat /\ T # {}
  BY <1>1
<1>3. PICK x \in T : \A y \in T : x <= y
  BY <1>2, LeastElement
<1>4. \A j \in 1..(x - 1) : outq[j].st # "queued"
  <2> SUFFICES ASSUME NEW j \in 1..(x - 1), outq[j].st = "queued" PROVE FALSE
    OBVIOUS
  <2>1. j \in T /\ j < x
    BY <1>1, <1>3
  <2> QED BY <1>3, <2>1, <1>1
<1>5. /\ m \in DOMAIN outq /\ outq[m].st = "queued" /\ \A j \in 1..(m - 1) : outq[j].st # "queued"
  BY <1>3, <1>4 DEF Oldest
<1> HIDE DEF m
<1>6. m \in 1..Len(outq) /\ outq[m] \in OutWrite
  BY <1>1, <1>5
<1>7. outq' = [outq EXCEPT ![m].st = st]
  BY DEF m
<1>8. outq' \in Seq(OutWrite)
  <2>1. [outq EXCEPT ![m].st = st] \in Seq(OutWrite)
    BY <1>1, <1>5, OutUpdate
  <2> QED BY <1>7, <2>1, Zenon
<1>9. DOMAIN outq' = 1..Len(outq)
  BY <1>1, <1>7
<1>10. Len(outq') = Len(outq)
  BY <1>1, <1>8, <1>9, LenProperties
<1>11. outq'[m] = [outq[m] EXCEPT !.st = st] /\ \A j \in 1..Len(outq) : j # m => outq'[j] = outq[j]
  BY <1>1, <1>6, <1>7
<1>12. outq'[m].st = st /\ outq'[m].r = outq[m].r /\ outq'[m].part = outq[m].part
  BY <1>6, <1>11 DEF OutWrite
<1>13. \A j \in 1..Len(outq) : j < m => j \in 1..(m - 1)
  BY <1>1, <1>6
<1> QED BY <1>5, <1>6, <1>10, <1>11, <1>12, <1>13 DEF Leaves, m

LEMMA WithinNow ==
  ASSUME TypeOK, Written
  PROVE  /\ Within(outq, wire, resp) /\ resp \in Seq(Response) /\ outq \in Seq(OutWrite) /\ wire \in Wire
         /\ Len(resp) \in Nat
BY Types, LenProperties DEF Written, Within, Wire

\* The head of the last response is written, or the socket is closed.
LEMMA HeadStep ==
  ASSUME TypeOK, Written, TypeOK', RespGrows(resp, resp'),
         NEW works \in BOOLEAN, Writes(outq, wire, resp, works),
         NEW r \in Nat, r = Len(resp'), r # 0,
         \A j \in 1..Len(outq) : outq[j].r # r,
         \A i \in 1..Len(wire) : wire[i][1] # r,
         \A k \in 1..Len(resp') : resp'[k].kind # "final" => resp'[k].body = 0,
         \A k \in 1..Len(resp') : k < r /\ resp'[k].kind = "final"
                                    => \E i \in 1..Len(wire) : wire[i] = <<k, resp'[k].body>>,
         outq' = outq \/ outq' = UvWrite(req, r, 0)
  PROVE  Writes(outq', wire, resp', works)
<1> DEFINE z == resp'
<1>1. /\ z \in Seq(Response) /\ resp \in Seq(Response) /\ outq \in Seq(OutWrite) /\ wire \in Wire
      /\ Within(outq, wire, resp) /\ Len(resp) \in Nat /\ Len(z) \in Nat /\ Len(z) >= Len(resp)
  BY WithinNow, LenProperties DEF TypeOK, RespGrows
<1>2. Writes(outq, wire, z, works)
  BY <1>1, WritesGrow
<1>3. Within(outq, wire, z)
  BY <1>1 DEF Within
<1>4. CASE outq' = outq
  BY <1>2, <1>4
<1>5. CASE outq' = Append(outq, Write(r, 0))
  <2>1. /\ r = Len(z) /\ (\A k \in 1..Len(z) : z[k].kind # "final" => z[k].body = 0)
        /\ \A k \in 1..Len(z) : k < r /\ z[k].kind = "final" => \E i \in 1..Len(wire) : wire[i] = <<k, z[k].body>>
    OBVIOUS
  <2> HIDE DEF z
  <2>2. Writes(Append(outq, Write(r, 0)), wire, z, works)
    BY <1>1, <1>2, <1>3, <2>1, WritesHead
  <2> QED BY <1>5, <2>2 DEF z
<1> QED BY <1>4, <1>5 DEF UvWrite

\* A response has more parts than are in the queue only if nothing is behind it.
LEMMA OneWrite ==
  ASSUME NEW q \in Seq(Response), NEW o \in Seq(OutWrite), NEW w \in Wire, Within(o, w, q), o # <<>>,
         QueueOrder(o, q)
  PROVE  /\ Len(o) > 1 => o[1].part = q[o[1].r].body
         /\ o[1].part < q[o[1].r].body => Len(o) = 1
<1>1. Len(o) \in Nat /\ Len(o) # 0 /\ 1 \in 1..Len(o)
  <2>1. Len(o) \in Nat \ {0}
    BY TailRange
  <2> QED BY <2>1
<1>2. o[1].part \in Nat /\ q[o[1].r].body \in Nat
  BY <1>1, WritesTypes
<1>3. ASSUME Len(o) > 1 PROVE o[1].part = q[o[1].r].body
  <2>1. Len(o) \in 1..Len(o) /\ 1 < Len(o)
    BY <1>1, <1>3
  <2> QED BY <1>1, <2>1 DEF QueueOrder
<1>4. \A n \in Nat : n = 0 \/ n = 1 \/ n > 1
  OBVIOUS
<1>5. Len(o) = 1 \/ Len(o) > 1
  BY <1>1, <1>4, Zenon
<1> QED BY <1>2, <1>3, <1>5

\* The queue after the next chunk of its only response was written.
LEMMA ChunkQueue ==
  ASSUME NEW o \in Seq(OutWrite), Len(o) = 1, NEW r \in Nat, NEW i \in Nat
  PROVE  LET z == Tail(Append(o, Write(r, i))) IN
         z \in Seq(OutWrite) /\ Len(z) = 1 /\ z[1].r = r /\ z[1].part = i /\ z[1].st = "queued"
<1> DEFINE e == Write(r, i)
           a == Append(o, e)
           z == Tail(a)
<1>1. e \in OutWrite /\ e.r = r /\ e.part = i /\ e.st = "queued"
  BY DEF Write, OutWrite
<1> HIDE DEF e
<1>2. a \in Seq(OutWrite) /\ Len(a) = 2 /\ a[2] = e
  <2>1. Append(o, e) \in Seq(OutWrite) /\ Len(Append(o, e)) = Len(o) + 1 /\ Append(o, e)[Len(o) + 1] = e
    BY <1>1, AppendProperties
  <2> QED BY <2>1
<1>3. a # <<>>
  <2>1. 2 # 0
    OBVIOUS
  <2> QED BY <1>2, <2>1, EmptySeq, Zenon
<1> HIDE DEF a
<1>4. z \in Seq(OutWrite) /\ Len(z) = Len(a) - 1 /\ \A j \in 1..Len(z) : z[j] = a[j + 1]
  BY <1>2, <1>3, TailRange
<1> HIDE DEF z
<1>5. Len(z) = 1 /\ z[1] = e
  BY <1>2, <1>4
<1> QED BY <1>1, <1>4, <1>5 DEF z, a, e

\* What a callback of a write finds and does.
LEMMA CallbackEffects ==
  ASSUME TypeOK, Written, OnResponseWritten \/ OnChunkWritten
  PROVE  LET r == outq[1].r
             e == outq[1] IN
         /\ outq # <<>> /\ wire' = wire /\ client' = client /\ parser' = parser
         /\ req.isClosing \/ e.st # "queued"
         /\ \/ outq' = Tail(outq) /\ req'.isClosing
            \/ outq' = Tail(outq) /\ e.part = resp[r].body
            \/ outq' = Tail(outq) /\ Len(outq) > 1
            \/ e.part < resp[r].body /\ outq' = Tail(UvWrite(req, r, e.part + 1))
<1> DEFINE r == outq[1].r
<1>0. /\ outq # <<>> /\ wire' = wire /\ client' = client /\ parser' = parser
      /\ req.isClosing \/ outq[1].st # "queued"
  BY Types DEF OnResponseWritten, OnChunkWritten, WriteDone
<1>1. /\ outq[1].part \in Nat /\ r \in 1..Len(resp) /\ Len(outq) \in Nat
  BY <1>0, FirstWrite, Types, LenProperties
<1>2. resp[r].body \in Nat
  <2>1. resp[r] \in Response
    BY <1>1, Types, ElementOfSeq
  <2> QED BY <2>1 DEF Response
<1>3. CASE OnResponseWritten
  <2>1. \/ Release(r, TRUE)
        \/ resp[r].body = 0 /\ Release(r, resp[r].closeAfter)
        \/ resp[r].body > 0 /\ NextChunk(r, 1)
    BY <1>3, Zenon DEF OnResponseWritten
  <2>2. outq[1].part = 0
    BY <1>3 DEF OnResponseWritten
  <2>3. CASE Release(r, TRUE)
    <3>1. req' = Closed(req) /\ outq' = Tail(outq)
      BY <2>3 DEF Release
    <3>2. req'.isClosing
      <4>1. req \in Request
        BY Types
      <4> QED BY <3>1, <4>1 DEF Closed, Request
    <3> QED BY <1>0, <3>1, <3>2
  <2>4. CASE resp[r].body = 0 /\ Release(r, resp[r].closeAfter)
    BY <1>0, <2>2, <2>4 DEF Release
  <2>5. CASE resp[r].body > 0 /\ NextChunk(r, 1)
    <3>1. outq' = Tail(UvWrite(req, r, 1))
      BY <2>5 DEF NextChunk
    <3>2. outq[1].part + 1 = 1
      BY <2>2
    <3> QED BY <1>0, <2>2, <2>5, <3>1, <3>2
  <2> QED BY <2>1, <2>3, <2>4, <2>5
<1>4. CASE OnChunkWritten
  <2> DEFINE drained == \A j \in 2..Len(outq) : outq[j].st = "sent"
             i == outq[1].part
  <2>1. \/ i < resp[r].body /\ NextChunk(r, i + 1)
        \/ i = resp[r].body /\ Release(r, resp[r].closeAfter)
        \/ ~drained /\ outq' = Tail(outq)
    BY <1>4, Zenon DEF OnChunkWritten
  <2>2. ~drained => Len(outq) > 1
    BY <1>1
  <2> HIDE DEF drained
  <2> QED BY <1>0, <2>1, <2>2 DEF Release, NextChunk
<1> QED BY <1>3, <1>4

LEMMA CallbackStep ==
  ASSUME TypeOK, Written, TypeOK', RespGrows(resp, resp'), OnResponseWritten \/ OnChunkWritten,
         NEW works \in BOOLEAN, NEW still \in BOOLEAN, still => works,
         works => ~req.isClosing, still => ~req'.isClosing,
         Writes(outq, wire, resp, works)
  PROVE  Writes(outq', wire, resp', still)
<1> DEFINE z == resp'
           r == outq[1].r
           e == outq[1]
<1>1. /\ z \in Seq(Response) /\ resp \in Seq(Response) /\ outq \in Seq(OutWrite) /\ wire \in Wire
      /\ Within(outq, wire, resp) /\ Len(resp) \in Nat /\ Len(z) \in Nat /\ Len(z) >= Len(resp)
  BY WithinNow, LenProperties DEF TypeOK, RespGrows
<1>2. Writes(outq, wire, z, works)
  BY <1>1, WritesGrow
<1>3. Within(outq, wire, z)
  BY <1>1 DEF Within
<1>4. /\ outq # <<>> /\ (req.isClosing \/ e.st # "queued")
      /\ \/ outq' = Tail(outq) /\ req'.isClosing
         \/ outq' = Tail(outq) /\ e.part = resp[r].body
         \/ outq' = Tail(outq) /\ Len(outq) > 1
         \/ e.part < resp[r].body /\ outq' = Tail(UvWrite(req, r, e.part + 1))
  BY CallbackEffects
<1>5. z[r].body = resp[r].body /\ e.part \in Nat /\ r \in Nat
  <2>1. r \in 1..Len(resp) /\ r \in Nat /\ e.part \in Nat
    BY <1>4, FirstWrite
  <2> QED BY <2>1 DEF RespGrows, SameResponse
<1> HIDE DEF z
<1>6. /\ Len(outq) > 1 => e.part = z[r].body
      /\ e.part < z[r].body => Len(outq) = 1
  BY <1>1, <1>2, <1>3, <1>4, OneWrite DEF Writes
<1>7. still => works /\ e.st # "queued"
  BY <1>4
<1>8. CASE outq' = Tail(outq) /\ (still => e.part = z[r].body)
  <2>1. Writes(Tail(outq), wire, z, still)
    BY <1>1, <1>2, <1>3, <1>4, <1>7, <1>8, WritesTail
  <2> QED BY <1>8, <2>1 DEF z
<1>9. CASE e.part < z[r].body /\ outq' = Tail(UvWrite(req, r, e.part + 1))
  <2>1. CASE req.isClosing
    <3>1. outq' = Tail(outq) /\ ~still
      BY <1>9, <2>1 DEF UvWrite
    <3> QED BY <1>8, <3>1
  <2>2. CASE ~req.isClosing
    <3> DEFINE i == e.part + 1
               y == Tail(Append(outq, Write(r, i)))
    <3>1. outq' = y /\ i \in Nat
      BY <1>5, <1>9, <2>2 DEF UvWrite
    <3> HIDE DEF i
    <3>2. y \in Seq(OutWrite) /\ Len(y) = 1 /\ y[1].r = r /\ y[1].part = i /\ y[1].st = "queued"
      <4>1. Len(outq) = 1
        BY <1>6, <1>9
      <4> HIDE DEF r
      <4> QED BY <1>1, <1>5, <3>1, <4>1, ChunkQueue
    <3> HIDE DEF y
    <3>3. y[1].part = e.part + 1
      BY <3>2 DEF i
    <3>4. Writes(y, wire, z, still)
      BY <1>1, <1>2, <1>3, <1>4, <1>7, <1>9, <3>2, <3>3, WritesChunk
    <3> QED BY <3>1, <3>4 DEF z
  <2> QED BY <2>1, <2>2
<1> QED BY <1>4, <1>5, <1>6, <1>8, <1>9

\* The head of a new response is written.
LEMMA NewHead ==
  ASSUME TypeOK, Written, TypeOK', RespGrows(resp, resp'), TasksInOrder,
         NEW works \in BOOLEAN, Writes(outq, wire, resp, works),
         Delivered(resp, wire, parser.cur), NEW s, RespKinds(resp', s),
         NEW e \in Response, Makes(e),
         outq' = outq \/ outq' = UvWrite(req, Len(resp) + 1, 0)
  PROVE  Writes(outq', wire, resp', works)
<1> DEFINE r == Len(resp) + 1
<1>1. /\ resp \in Seq(Response) /\ Len(resp) \in Nat /\ Within(outq, wire, resp)
      /\ resp' = Append(resp, e)
  BY WithinNow DEF Makes
<1>2. Len(resp') = r /\ r \in Nat /\ r # 0 /\ \A k \in 1..Len(resp) : resp'[k] = resp[k]
  BY <1>1, RespAppend
<1>3. /\ \A j \in 1..Len(outq) : outq[j].r # r
      /\ \A i \in 1..Len(wire) : wire[i][1] # r
  <2>1. r \notin 1..Len(resp)
    BY <1>1
  <2> HIDE DEF r
  <2> QED BY <1>1, <2>1, Zenon DEF Within
<1>4. \A k \in 1..Len(resp') : resp'[k].kind # "final" => resp'[k].body = 0
  BY DEF RespKinds
<1>5. ASSUME NEW k \in 1..Len(resp'), k < r, resp'[k].kind = "final"
      PROVE  \E i \in 1..Len(wire) : wire[i] = <<k, resp'[k].body>>
  <2>1. k \in 1..Len(resp) /\ resp'[k] = resp[k]
    BY <1>1, <1>2, <1>5
  <2>2. resp[k].req <= parser.cur /\ resp[k].req # parser.cur /\ resp[k].kind = "final"
    BY <1>5, <2>1 DEF TasksInOrder, Makes, Finals
  <2>3. resp[k].req \in Nat /\ parser.cur \in Nat
    <3>1. resp[k] \in Response
      BY <1>1, <2>1, ElementOfSeq
    <3> QED BY <3>1, CurTypes DEF Response, ReqNo
  <2>4. resp[k].req < parser.cur
    BY <2>2, <2>3
  <2> QED BY <2>1, <2>2, <2>4 DEF Delivered
<1>6. r = Len(resp') /\ (outq' = outq \/ outq' = UvWrite(req, r, 0))
  BY <1>2
<1> HIDE DEF r
<1> QED BY <1>2, <1>3, <1>4, <1>5, <1>6, HeadStep

\* The head of a response that R has made is written: it is the last one.
LEMMA MadeHead ==
  ASSUME TypeOK, Written, TypeOK', RespGrows(resp, resp'), TasksInOrder, RespSorted(resp),
         NEW works \in BOOLEAN, Writes(outq, wire, resp, works),
         Delivered(resp, wire, parser.cur), NEW s, RespKinds(resp', s),
         NEW r \in Finals(resp, parser.cur), resp[r].st = "made", RespWritten(resp, resp', r),
         outq' = outq \/ outq' = UvWrite(req, r, 0)
  PROVE  Writes(outq', wire, resp', works)
<1>1. /\ resp \in Seq(Response) /\ Len(resp) \in Nat /\ r \in 1..Len(resp)
      /\ resp[r].req = parser.cur /\ resp[r].kind = "final" /\ parser.cur \in Nat
  BY WithinNow, CurTypes DEF Finals
<1>2. \A k \in 1..Len(resp) : resp[k].req \in Nat
  <2>1. \A k \in 1..Len(resp) : resp[k] \in Response
    BY <1>1, ElementOfSeq
  <2> QED BY <2>1 DEF Response, ReqNo
<1>3. Len(resp) = r /\ r \in Nat /\ r # 0
  <2>1. CASE r < Len(resp)
    <3>1. Len(resp) \in 1..Len(resp)
      BY <1>1
    <3>2. resp[r].req < resp[Len(resp)].req
      BY <1>1, <2>1, <3>1 DEF RespSorted
    <3>3. resp[Len(resp)].req <= parser.cur
      BY <3>1 DEF TasksInOrder
    <3> QED BY <1>1, <1>2, <3>1, <3>2, <3>3
  <2> QED BY <1>1, <2>1
<1>4. Len(resp') = r /\ \A k \in 1..Len(resp) : resp'[k].kind = resp[k].kind /\ resp'[k].body = resp[k].body
  BY <1>3 DEF RespWritten, SameResponse
<1>5. /\ \A j \in 1..Len(outq) : outq[j].r # r
      /\ \A i \in 1..Len(wire) : wire[i][1] # r
  BY DEF Written
<1>6. \A k \in 1..Len(resp') : resp'[k].kind # "final" => resp'[k].body = 0
  BY DEF RespKinds
<1>7. ASSUME NEW k \in 1..Len(resp'), k < r, resp'[k].kind = "final"
      PROVE  \E i \in 1..Len(wire) : wire[i] = <<k, resp'[k].body>>
  <2>1. k \in 1..Len(resp) /\ resp[k].kind = "final" /\ resp'[k].body = resp[k].body
    BY <1>3, <1>4, <1>7
  <2>2. resp[k].req < parser.cur
    BY <1>1, <1>7, <2>1 DEF RespSorted
  <2> QED BY <2>1, <2>2 DEF Delivered
<1> QED BY <1>3, <1>4, <1>5, <1>6, <1>7, HeadStep

\* The oldest write is sent.
LEMMA SentStep ==
  ASSUME TypeOK, Written, TypeOK', WriteOut, Writes(outq, wire, resp, Works)
  PROVE  Writes(outq', wire', resp', Works)
<1>1. /\ outq \in Seq(OutWrite) /\ outq' \in Seq(OutWrite) /\ wire \in Wire /\ resp \in Seq(Response)
      /\ Within(outq, wire, resp)
  BY WithinNow DEF TypeOK, OutWrite
<1>2. Works = TRUE /\ resp' = resp /\ wire' = Append(wire, <<outq[Oldest].r, outq[Oldest].part>>)
      /\ (\E i \in DOMAIN outq : outq[i].st = "queued") /\ outq' = [outq EXCEPT ![Oldest].st = "sent"]
  BY DEF WriteOut, Works
<1>3. Leaves(outq, outq', Oldest, "sent")
  BY <1>2, OldestLeaves
<1>4. Writes(outq, wire, resp, TRUE)
  BY <1>2
<1> DEFINE m == Oldest
           z == outq'
<1>5. Leaves(outq, z, m, "sent") /\ z \in Seq(OutWrite)
  BY <1>1, <1>3
<1> HIDE DEF m, z
<1>6. Writes(z, Append(wire, <<outq[m].r, outq[m].part>>), resp, TRUE)
  BY <1>1, <1>4, <1>5, WritesSent
<1> QED BY <1>2, <1>6 DEF m, z

\* The oldest write fails; the socket is broken.
LEMMA FailedStep ==
  ASSUME TypeOK, Written, WriteFails, Writes(outq, wire, resp, Works), Works \in BOOLEAN
  PROVE  Writes(outq', wire', resp', Works')
<1>1. /\ outq \in Seq(OutWrite) /\ wire \in Wire /\ resp \in Seq(Response) /\ Within(outq, wire, resp)
  BY WithinNow
<1>2. /\ resp' = resp /\ wire' = wire /\ client' = [client EXCEPT !.broken = TRUE]
      /\ (\E i \in DOMAIN outq : outq[i].st = "queued") /\ outq' = [outq EXCEPT ![Oldest].st = "failed"]
  BY DEF WriteFails
<1>3. Leaves(outq, outq', Oldest, "failed")
  BY <1>2, OldestLeaves
<1>4. client'.broken = TRUE
  <2>1. client \in Client
    BY Types
  <2> QED BY <1>2, <2>1 DEF Client
<1>5. Works' = FALSE
  BY <1>4 DEF Works
<1> DEFINE m == Oldest
           z == outq'
           works == Works
<1>6. Leaves(outq, z, m, "failed") /\ works \in BOOLEAN /\ Writes(outq, wire, resp, works)
  BY <1>3
<1> HIDE DEF m, z, works
<1>7. Writes(z, wire, resp, FALSE)
  BY <1>1, <1>6, WritesFailed
<1> QED BY <1>2, <1>5, <1>7 DEF z

\* The writes after a step.
LEMMA WritesStep ==
  ASSUME OnHeaders \subseteq {"no"}, IInv, Written, TurnInv, AnswerInv, WInv, IInv', [Next]_vars, Patient'
  PROVE  Writes(outq', wire', resp', Works')
<1>0. /\ TypeOK /\ TypeOK' /\ HandedOver /\ Waits /\ TasksInOrder
      /\ RespSorted(resp) /\ RespKinds(resp, client.shape) /\ Delivered(resp, wire, parser.cur)
      /\ Writes(outq, wire, resp, Works)
  BY DEF IInv, AnswerInv, WInv
<1>1. (Works' => Works) /\ Works \in BOOLEAN /\ Works' \in BOOLEAN
  BY <1>0, WorksStep
<1>2. RespGrows(resp, resp')
  BY <1>0, RespStep
<1>3. /\ resp \in Seq(Response) /\ resp' \in Seq(Response) /\ outq \in Seq(OutWrite) /\ wire \in Wire
      /\ Within(outq, wire, resp) /\ Len(resp) \in Nat
  BY <1>0, WithinNow DEF TypeOK
<1>4. RespKinds(resp', client'.shape)
  BY ResponsesStep
<1> DEFINE works == Works
           still == Works'
           s == client'.shape
<1>5. /\ works \in BOOLEAN /\ still \in BOOLEAN /\ (still => works) /\ Writes(outq, wire, resp, works)
      /\ RespKinds(resp', s)
  BY <1>0, <1>1, <1>4
<1>6. CASE outq' = outq /\ wire' = wire
  <2> HIDE DEF works, still
  <2>1. Writes(outq, wire, resp', still)
    BY <1>2, <1>3, <1>5, WritesGrow
  <2> QED BY <1>6, <2>1 DEF still
<1>7. CASE HeadersCompleteComplete \/ BodyError \/ MessageCompleteComplete
  <2> DEFINE r == Head(bgq).r
             e == [NewResponse(parser.cur, "continue", 0) EXCEPT !.st = HeadState(req)]
  <2>0. wire' = wire
    BY <1>7 DEF HeadersCompleteComplete, BodyError, MessageCompleteComplete
  <2>1. \/ /\ r \in Finals(resp, parser.cur) /\ resp[r].st = "made"
           /\ RespWritten(resp, resp', r) /\ (outq' = outq \/ outq' = UvWrite(req, r, 0))
        \/ resp' = resp /\ outq' = outq
        \/ e \in Response /\ Makes(e) /\ outq' = UvWrite(req, Len(resp) + 1, 0)
    BY <1>7, OutcomeEffects
  <2> HIDE DEF works, still, s, r, e
  <2>2. CASE resp' = resp /\ outq' = outq
    BY <1>6, <2>0, <2>2
  <2>3. CASE /\ r \in Finals(resp, parser.cur) /\ resp[r].st = "made"
             /\ RespWritten(resp, resp', r) /\ (outq' = outq \/ outq' = UvWrite(req, r, 0))
    <3>1. Writes(outq', wire, resp', works)
      BY <1>0, <1>2, <1>5, <2>3, MadeHead
    <3> QED BY <1>5, <2>0, <3>1, WritesLess DEF still
  <2>4. CASE e \in Response /\ Makes(e) /\ outq' = UvWrite(req, Len(resp) + 1, 0)
    <3>1. Writes(outq', wire, resp', works)
      BY <1>0, <1>2, <1>5, <2>4, NewHead
    <3> QED BY <1>5, <2>0, <3>1, WritesLess DEF still
  <2> QED BY <2>1, <2>2, <2>3, <2>4
<1>8. CASE UpgradeConnection
  <2> DEFINE e == [NewResponse(parser.cur, "switch", 0) EXCEPT !.st = HeadState(req)]
  <2>0. wire' = wire
    BY <1>8 DEF UpgradeConnection
  <2>1. outq' = outq \/ /\ outq' = UvWrite(req, Len(resp) + 1, 0) /\ resp' = Append(resp, e)
                        /\ req.isUpgrade /\ Cur.upgrade = "ws"
    BY <1>8 DEF UpgradeConnection
  <2>2. CASE /\ outq' = UvWrite(req, Len(resp) + 1, 0) /\ resp' = Append(resp, e)
             /\ req.isUpgrade /\ Cur.upgrade = "ws"
    <3>1. parser.cur \in ReqNo
      BY <1>0, <2>2, UpgradeRequest
    <3>2. \A r \in Finals(resp, parser.cur) : FALSE
      BY <1>0, <2>2 DEF Finals, RespKinds, Cur
    <3>3. Finals(resp, parser.cur) = {}
      BY <3>2
    <3>4. e \in Response /\ Makes(e)
      BY <1>0, <2>2, <3>1, <3>3, MakesOther
    <3> HIDE DEF works, still, s, e
    <3>5. Writes(outq', wire, resp', works)
      BY <1>0, <1>2, <1>5, <2>2, <3>4, NewHead
    <3> QED BY <1>5, <2>0, <3>5, WritesLess DEF still
  <2> QED BY <1>6, <2>0, <2>1, <2>2
<1>9. CASE OnResponseWritten \/ OnChunkWritten
  <2>0. wire' = wire
    BY <1>9 DEF OnResponseWritten, OnChunkWritten
  <2>1. (works => ~req.isClosing) /\ (still => ~req'.isClosing)
    BY DEF Works
  <2> HIDE DEF works, still
  <2>2. Writes(outq', wire, resp', still)
    BY <1>0, <1>2, <1>5, <1>9, <2>1, CallbackStep
  <2> QED BY <2>0, <2>2 DEF still
<1>10. CASE WriteOut
  <2>1. Writes(outq', wire', resp', works)
    BY <1>0, <1>10, SentStep
  <2> HIDE DEF works, still
  <2> QED BY <1>5, <2>1, WritesLess DEF still
<1>11. CASE WriteFails
  BY <1>0, <1>1, <1>11, FailedStep
<1>12. CASE \/ \E x \in Shapes : ClientSend(x)
            \/ ClientSendWs \/ ClientLeaves \/ OnRead \/ OnReadError \/ ServerStops
            \/ ParseMessageBegin \/ ParseHeadersComplete \/ ParseWaiting \/ ParseHeadersDone \/ ParseBody
            \/ ParseRefuses \/ KeepForLater \/ ParseDone \/ ScheduledClose \/ ScheduledWsRead
            \/ OnClosed \/ MainTask \/ PromiseResolves \/ UNCHANGED vars
  <2>1. outq' = outq /\ wire' = wire
    BY <1>12, ZenonT(40) DEF ClientSend, ClientSendWs, ClientLeaves, OnRead, OnReadError, ServerStops,
                ParseMessageBegin, ParseHeadersComplete, ParseWaiting, ParseHeadersDone, ParseBody, ParseRefuses,
                KeepForLater, ParseDone, ScheduledClose, ScheduledWsRead,
                OnClosed, InitializeEnv, CallWsOpen, PassRequestBuffer, CallWsMessage,
                CallWsClose, CallOnHeaders, CallOnBodyData, CallGetResponse, MainTask, PromiseResolves, vars
  <2> QED BY <1>6, <2>1
<1> QED BY <1>7, <1>8, <1>9, <1>10, <1>11, <1>12
        DEF Next, ClientStep, Parse, FlushTask, WriteCallback

LEMMA WInvStep ==
  ASSUME OnHeaders \subseteq {"no"}, IInv, PInv, Patient => WInv, IInv', [Next]_vars
  PROVE  (Patient => WInv)'
<1> SUFFICES ASSUME Patient' PROVE WInv'
  OBVIOUS
<1>1. Patient /\ WInv /\ Written /\ TurnInv /\ AnswerInv
  BY PatientStep DEF IInv, PInv
<1>2. /\ RespSorted(resp') /\ RespKinds(resp', client'.shape) /\ Delivered(resp', wire', parser'.cur)
      /\ Writes(outq', wire', resp', Works')
  BY <1>1, ResponsesStep, WritesStep
<1> QED BY <1>2 DEF WInv

LEMMA InitWInv == Init => WInv
<1> SUFFICES ASSUME Init PROVE WInv
  OBVIOUS
<1>1. Len(resp) = 0 /\ Len(wire) = 0 /\ Len(outq) = 0
  BY DEF Init
<1>2. RespSorted(resp) /\ RespKinds(resp, client.shape) /\ Delivered(resp, wire, parser.cur)
  BY <1>1 DEF RespSorted, RespKinds, Delivered
<1>3. QueueOrder(outq, resp) /\ WireBehind(outq, wire, resp) /\ WireParts(wire, resp) /\ WireSorted(wire)
  BY <1>1 DEF QueueOrder, WireBehind, WireParts, WireSorted
<1>4. FlowWire(outq, wire, resp) /\ FlowOut(outq, wire, resp)
  BY <1>1 DEF FlowWire, FlowOut
<1> QED BY <1>2, <1>3, <1>4 DEF WInv, Writes

\* The writes are in the order of the responses, and those in the order of the
\* requests, if only ordinary requests are answered from their headers.
THEOREM WireInv ==
  ASSUME OnHeaders \subseteq {"no"}
  PROVE  Spec => [](IInv /\ PInv /\ (Patient => WInv))
<1>1. Init => IInv /\ PInv /\ (Patient => WInv)
  BY InitIInv, InitPInv, InitWInv
<1>2. IInv /\ PInv /\ (Patient => WInv) /\ [Next]_vars => IInv' /\ PInv' /\ (Patient => WInv)'
  BY IInvStep, PInvStep, WInvStep
<1> QED BY <1>1, <1>2, PTL DEF Spec

\* A client that waits for its answers reads whole responses, each once and in
\* the order of its requests: ExtendedWrite writes the next chunk of a response
\* from the callback of the one before, and the head of the next response is
\* written only after the last chunk of this one.  The application answers no
\* upgrade request from onHeaders: the 101 response of the upgrade would go out
\* between the head and the body of that answer.
THEOREM WireIsWellFormedHolds ==
  ASSUME OnHeaders \subseteq {"no"}
  PROVE  Spec => []WireIsWellFormed
<1>1. ASSUME IInv, PInv, Patient => WInv PROVE WireIsWellFormed
  <2> SUFFICES ASSUME ~client.piped PROVE WireIsWellFormed
    BY DEF WireIsWellFormed
  <2>1. /\ RespSorted(resp) /\ WireParts(wire, resp) /\ WireSorted(wire)
    BY <1>1 DEF WInv, Writes, Patient
  <2>2. /\ DOMAIN wire = 1..Len(wire) /\ DOMAIN resp = 1..Len(resp) /\ Len(resp) \in Nat /\ Len(wire) \in Nat
        /\ \A i \in 1..Len(wire) : wire[i][1] \in 1..Len(resp)
        /\ \A k \in 1..Len(resp) : resp[k] \in Response
    BY <1>1, Types, LenProperties, ElementOfSeq DEF IInv, PInv, Written
  <2>3. \A k \in 1..Len(resp) : resp[k].req \in Nat
    BY <2>2 DEF Response, ReqNo
  <2>4. \A i \in DOMAIN wire :
           /\ wire[i][2] > 0 => i > 1 /\ wire[i - 1] = <<wire[i][1], wire[i][2] - 1>>
           /\ wire[i][2] = 0 /\ i > 1 => wire[i - 1][2] = resp[wire[i - 1][1]].body
    BY <2>1, <2>2 DEF WireParts
  <2>5. ASSUME NEW i \in DOMAIN wire, NEW j \in DOMAIN wire, i < j
        PROVE  resp[wire[i][1]].req <= resp[wire[j][1]].req
    <3> DEFINE a == wire[i][1]
               b == wire[j][1]
    <3>1. a \in 1..Len(resp) /\ b \in 1..Len(resp) /\ a <= b
      BY <2>1, <2>2, <2>5 DEF WireSorted
    <3> HIDE DEF a, b
    <3>2. CASE a < b
      BY <2>1, <3>1, <3>2 DEF RespSorted, a, b
    <3>3. CASE a = b
      BY <2>3, <3>1, <3>3 DEF a, b
    <3> QED BY <2>2, <3>1, <3>2, <3>3
  <2>6. ASSUME NEW q \in DOMAIN resp, NEW r \in DOMAIN resp,
               resp[q].req = resp[r].req, resp[q].kind = "final", resp[r].kind = "final"
        PROVE  q = r
    <3>1. q \in 1..Len(resp) /\ r \in 1..Len(resp) /\ resp[q].req \in Nat /\ q \in Nat /\ r \in Nat
      BY <2>2, <2>3
    <3>2. CASE q < r
      <4>1. resp[q].req < resp[r].req
        BY <2>1, <2>6, <3>1, <3>2 DEF RespSorted
      <4> QED BY <2>6, <3>1, <4>1
    <3>3. CASE r < q
      <4>1. resp[r].req < resp[q].req
        BY <2>1, <2>6, <3>1, <3>3 DEF RespSorted
      <4> QED BY <2>6, <3>1, <4>1
    <3> QED BY <3>1, <3>2, <3>3
  <2> QED BY <2>4, <2>5, <2>6 DEF WireIsWellFormed
<1> QED BY <1>1, WireInv, PTL

-------------------------------------------------------------------------------
(* What R hears of a WebSocket: the invariant of its callbacks, for a client   *)
(* that waits for its answers and for the 101.                                *)

WsOps == {"wsOpen", "wsMessage", "wsClose"}
NoWs(q) == \A i \in 1..Len(q) : q[i].op \notin WsOps

\* R has the callbacks w behind it and the tasks q before it: an open comes first,
\* a close last, and that only when the connection is closing.
WsOrder(q, w, closing) ==
  /\ \A i, j \in 1..Len(w) : i < j => w[i].ev # "close" /\ w[j].ev # "open"
  /\ \A i, j \in 1..Len(q) : i < j => /\ q[i].op = "wsClose" => q[j].op \notin WsOps
                                      /\ q[i].op \in WsOps => q[j].op # "wsOpen"
  /\ (\E i \in 1..Len(q) : q[i].op = "wsOpen") => w = <<>>
  /\ (\E i \in 1..Len(w) : w[i].ev = "close") => closing /\ NoWs(q)
  /\ (\E i \in 1..Len(q) : q[i].op = "wsClose") => closing

\* ... and before the upgrade nothing.
Heard(q, w, closing, http) == WsOrder(q, w, closing) /\ (http => NoWs(q) /\ w = <<>>)

\* No byte waits for a WebSocket that is yet to read it.
NoRest == /\ req.protocol = "WebSockets" => req.requestBuffer = <<>>
          /\ \A i \in 1..Len(bgq) : bgq[i].op = "wsRead" => Len(bgq[i].d) = 0

HeardNow == Heard(later, app.ws, req.isClosing, req.protocol = "HTTP")

Plain(s) == \A i \in 1..Len(s) : s[i].t # "W"
NoSwitch(q) == \A r \in 1..Len(q) : q[r].kind # "switch"

\* Until the connection is a WebSocket there is no 101, and so no client that
\* waits for it sends bytes of the other protocol.
BeforeWs == req.protocol = "HTTP" => Plain(Stream) /\ NoSwitch(resp)

VInv == BeforeWs /\ NoRest /\ HeardNow

-------------------------------------------------------------------------------
(* Tasks are added and run. *)

LEMMA OrderMore ==
  ASSUME NEW q \in Seq(LaterTask), NEW m \in Seq(LaterTask), NEW w, NEW c \in BOOLEAN, NEW d \in BOOLEAN,
         WsOrder(q, w, c), c => d,
         \A i \in 1..Len(m) : /\ m[i].op # "wsOpen"
                              /\ m[i].op \in WsOps => ~c
                              /\ m[i].op = "wsClose" => d /\ Len(m) = 1
  PROVE  WsOrder(q \o m, w, d)
<1> DEFINE z == q \o m
           n == Len(q)
<1>1. /\ Len(q) \in Nat /\ Len(m) \in Nat /\ Len(z) = n + Len(m)
      /\ (\A i \in 1..n : z[i] = q[i]) /\ (\A i \in 1..Len(m) : z[n + i] = m[i])
  BY ConcatTypes
<1> HIDE DEF z
<1>2. \A i \in 1..Len(z) : \/ i \in 1..n /\ z[i] = q[i]
                           \/ i - n \in 1..Len(m) /\ z[i] = m[i - n]
  <2> SUFFICES ASSUME NEW i \in 1..Len(z), i \notin 1..n PROVE i - n \in 1..Len(m) /\ z[i] = m[i - n]
    BY <1>1
  <2>1. i - n \in 1..Len(m) /\ n + (i - n) = i
    BY <1>1
  <2>2. z[n + (i - n)] = m[i - n]
    BY <1>1, <2>1
  <2> QED BY <2>1, <2>2
<1>3. \A i \in 1..Len(z) : z[i].op = "wsOpen" => i \in 1..n /\ q[i].op = "wsOpen"
  BY <1>2
<1>4. (\E i \in 1..Len(z) : z[i].op = "wsOpen") => w = <<>>
  BY <1>3 DEF WsOrder
<1>5. (\E i \in 1..Len(w) : w[i].ev = "close") => d /\ NoWs(z)
  BY <1>2 DEF WsOrder, NoWs
<1>6. (\E i \in 1..Len(z) : z[i].op = "wsClose") => d
  BY <1>2 DEF WsOrder
<1>7. ASSUME NEW i \in 1..Len(z), NEW j \in 1..Len(z), i < j
      PROVE  /\ z[i].op = "wsClose" => z[j].op \notin WsOps
             /\ z[i].op \in WsOps => z[j].op # "wsOpen"
  <2>1. CASE j \in 1..n
    <3>1. i \in 1..n
      BY <1>1, <1>7, <2>1
    <3> QED BY <1>1, <1>7, <2>1, <3>1 DEF WsOrder
  <2>2. CASE j - n \in 1..Len(m) /\ z[j] = m[j - n]
    <3>1. z[j].op # "wsOpen" /\ (z[j].op \in WsOps => ~c)
      BY <2>2
    <3>2. ASSUME z[i].op = "wsClose", z[j].op \in WsOps PROVE FALSE
      <4>1. CASE i \in 1..n /\ z[i] = q[i]
        BY <3>1, <3>2, <4>1 DEF WsOrder
      <4>2. CASE i - n \in 1..Len(m) /\ z[i] = m[i - n]
        <5>1. Len(m) = 1
          BY <3>2, <4>2
        <5> QED BY <1>1, <1>7, <2>2, <4>2, <5>1
      <4> QED BY <1>2, <4>1, <4>2
    <3> QED BY <3>1, <3>2
  <2> QED BY <1>2, <2>1, <2>2
<1>8. \A i, j \in 1..Len(w) : i < j => w[i].ev # "close" /\ w[j].ev # "open"
  BY DEF WsOrder
<1>9. WsOrder(z, w, d)
  BY <1>4, <1>5, <1>6, <1>7, <1>8 DEF WsOrder
<1> QED BY <1>9 DEF z

LEMMA OrderAppend ==
  ASSUME NEW q \in Seq(LaterTask), NEW e \in LaterTask, NEW w, NEW c \in BOOLEAN, NEW d \in BOOLEAN,
         WsOrder(q, w, c), c => d, e.op \notin WsOps
  PROVE  WsOrder(Append(q, e), w, d)
<1> DEFINE m == <<e>>
<1>1. m \in Seq(LaterTask) /\ Len(m) = 1 /\ m[1] = e
  OBVIOUS
<1>2. Append(q, e) = q \o m
  BY AppendIsConcat
<1> HIDE DEF m
<1>3. \A i \in 1..Len(m) : m[i].op \notin WsOps
  BY <1>1
<1>4. \A i \in 1..Len(m) : m[i].op # "wsOpen" /\ m[i].op # "wsClose"
  BY <1>3 DEF WsOps
<1> QED BY <1>1, <1>2, <1>3, <1>4, OrderMore

LEMMA OrderOpen ==
  ASSUME NEW q \in Seq(LaterTask), NEW e \in LaterTask, NEW c \in BOOLEAN, NEW w, w = <<>>,
         NoWs(q), e.op = "wsOpen"
  PROVE  WsOrder(Append(q, e), w, c)
<1> DEFINE z == Append(q, e)
           n == Len(q) + 1
<1>1. Len(q) \in Nat /\ Len(z) = n /\ z[n] = e /\ \A i \in 1..Len(q) : z[i] = q[i]
  BY AppendProperties, LenProperties
<1> HIDE DEF z
<1>2. \A i \in 1..Len(z) : i = n \/ (i \in 1..Len(q) /\ i < n /\ z[i].op \notin WsOps)
  BY <1>1 DEF NoWs
<1>3. \A i \in 1..Len(z) : z[i].op # "wsClose"
  BY <1>1, <1>2 DEF WsOps
<1>4. ASSUME NEW i \in 1..Len(z), NEW j \in 1..Len(z), i < j PROVE z[i].op \notin WsOps
  BY <1>1, <1>2, <1>4
<1>5. Len(w) = 0
  OBVIOUS
<1>6. WsOrder(z, w, c)
  BY <1>3, <1>4, <1>5 DEF WsOrder
<1> QED BY <1>6 DEF z

LEMMA OrderTail ==
  ASSUME NEW q \in Seq(LaterTask), q # <<>>, NEW w, NEW c, WsOrder(q, w, c)
  PROVE  WsOrder(Tail(q), w, c) /\ (NoWs(q) => NoWs(Tail(q)))
<1> DEFINE z == Tail(q)
<1>1. Len(q) \in Nat \ {0} /\ Len(z) = Len(q) - 1 /\ \A i \in 1..Len(z) : z[i] = q[i + 1]
  BY TailRange
<1> HIDE DEF z
<1>2. \A i \in 1..Len(z) : i + 1 \in 1..Len(q)
  BY <1>1
<1>3. ASSUME NEW i \in 1..Len(z), NEW j \in 1..Len(z), i < j
      PROVE  /\ z[i].op = "wsClose" => z[j].op \notin WsOps
             /\ z[i].op \in WsOps => z[j].op # "wsOpen"
  <2>1. i + 1 < j + 1
    BY <1>1, <1>3
  <2> QED BY <1>1, <1>2, <2>1 DEF WsOrder
<1>4. NoWs(q) => NoWs(z)
  BY <1>1, <1>2 DEF NoWs
<1>5. /\ (\E i \in 1..Len(z) : z[i].op = "wsOpen") => w = <<>>
      /\ (\E i \in 1..Len(w) : w[i].ev = "close") => c /\ NoWs(z)
      /\ (\E i \in 1..Len(z) : z[i].op = "wsClose") => c
  BY <1>1, <1>2, <1>4 DEF WsOrder
<1>6. \A i, j \in 1..Len(w) : i < j => w[i].ev # "close" /\ w[j].ev # "open"
  BY DEF WsOrder
<1>7. WsOrder(z, w, c)
  BY <1>3, <1>5, <1>6 DEF WsOrder
<1> QED BY <1>4, <1>7 DEF z

\* R is called.
LEMMA OrderCall ==
  ASSUME NEW q \in Seq(LaterTask), q # <<>>, NEW w \in Seq(WsEvent), NEW c, WsOrder(q, w, c),
         NEW e \in WsEvent,
         \/ q[1].op = "wsOpen" /\ e.ev = "open"
         \/ q[1].op = "wsMessage" /\ e.ev = "message"
         \/ q[1].op = "wsClose" /\ e.ev = "close"
  PROVE  WsOrder(Tail(q), Append(w, e), c)
<1> DEFINE z == Tail(q)
           v == Append(w, e)
           n == Len(w) + 1
<1>1. Len(q) \in Nat \ {0} /\ Len(z) = Len(q) - 1 /\ \A i \in 1..Len(z) : z[i] = q[i + 1]
  BY TailRange
<1>2. Len(w) \in Nat /\ Len(v) = n /\ v[n] = e /\ \A i \in 1..Len(w) : v[i] = w[i]
  BY AppendProperties, LenProperties
<1>3. WsOrder(z, w, c)
  BY OrderTail
<1> HIDE DEF z, v
<1>4. 1 \in 1..Len(q) /\ q[1].op \in WsOps
  <2>1. 1 \in 1..Len(q)
    BY <1>1
  <2> QED BY <2>1 DEF WsOps
<1>5. ~ \E i \in 1..Len(w) : w[i].ev = "close"
  BY <1>4 DEF WsOrder, NoWs
<1>6. \A i \in 1..Len(v) : i = n \/ (i \in 1..Len(w) /\ v[i] = w[i])
  BY <1>2
<1>7. \A i \in 1..Len(z) : 1 < i + 1 /\ i + 1 \in 1..Len(q)
  BY <1>1
<1>8. \A i \in 1..Len(z) : z[i].op # "wsOpen" /\ (e.ev = "close" => z[i].op \notin WsOps)
  BY <1>1, <1>4, <1>7 DEF WsOrder
<1>9. e.ev = "open" => Len(w) = 0
  BY <1>4 DEF WsOrder
<1>10. ASSUME NEW i \in 1..Len(v), NEW j \in 1..Len(v), i < j PROVE v[i].ev # "close" /\ v[j].ev # "open"
  <2>1. i \in 1..Len(w) /\ v[i] = w[i]
    BY <1>2, <1>10
  <2>2. CASE j = n
    BY <1>2, <1>5, <1>9, <2>1, <2>2
  <2>3. CASE j \in 1..Len(w) /\ v[j] = w[j]
    BY <1>10, <2>1, <2>3 DEF WsOrder
  <2> QED BY <1>6, <2>2, <2>3
<1>11. (\E i \in 1..Len(v) : v[i].ev = "close") => c /\ NoWs(z)
  <2> SUFFICES ASSUME NEW i \in 1..Len(v), v[i].ev = "close" PROVE c /\ NoWs(z)
    OBVIOUS
  <2>1. e.ev = "close"
    BY <1>2, <1>5, <1>6
  <2> QED BY <1>4, <1>8, <2>1 DEF WsOrder, NoWs
<1>12. /\ ~ \E i \in 1..Len(z) : z[i].op = "wsOpen"
       /\ (\E i \in 1..Len(z) : z[i].op = "wsClose") => c
       /\ \A i, j \in 1..Len(z) : i < j => /\ z[i].op = "wsClose" => z[j].op \notin WsOps
                                           /\ z[i].op \in WsOps => z[j].op # "wsOpen"
  BY <1>3, <1>8 DEF WsOrder
<1>13. WsOrder(z, v, c)
  BY <1>10, <1>11, <1>12 DEF WsOrder
<1> QED BY <1>13 DEF z, v

\* A task that is none of these comes first.
LEMMA OrderFront ==
  ASSUME NEW q \in Seq(LaterTask), NEW x \in LaterTask, x.op \notin WsOps, NEW w, NEW c, WsOrder(q, w, c)
  PROVE  WsOrder(<<x>> \o q, w, c) /\ (NoWs(q) => NoWs(<<x>> \o q))
<1> DEFINE z == <<x>> \o q
<1>1. <<x>> \in Seq(LaterTask) /\ Len(<<x>>) = 1 /\ <<x>>[1] = x
  OBVIOUS
<1>2. /\ Len(q) \in Nat /\ Len(z) = 1 + Len(q)
      /\ z[1] = x /\ \A i \in 1..Len(q) : z[1 + i] = q[i]
  <2> DEFINE a == <<x>>
  <2>0. a \in Seq(LaterTask)
    BY <1>1
  <2>1. Len(a) = 1 /\ a[1] = x
    BY <1>1
  <2> HIDE DEF a
  <2>2. /\ Len(q) \in Nat /\ Len(a \o q) = Len(a) + Len(q)
        /\ \A i \in 1..Len(a) : (a \o q)[i] = a[i]
        /\ \A i \in 1..Len(q) : (a \o q)[Len(a) + i] = q[i]
    BY <2>0, ConcatTypes
  <2>3. 1 \in 1..Len(a)
    BY <2>1
  <2> QED BY <2>1, <2>2, <2>3 DEF a
<1> HIDE DEF z
<1>3. \A i \in 1..Len(z) : \/ i = 1 /\ z[i].op \notin WsOps
                           \/ i - 1 \in 1..Len(q) /\ z[i] = q[i - 1]
  <2> SUFFICES ASSUME NEW i \in 1..Len(z), i # 1 PROVE i - 1 \in 1..Len(q) /\ z[i] = q[i - 1]
    BY <1>2
  <2>1. i - 1 \in 1..Len(q) /\ 1 + (i - 1) = i
    BY <1>2
  <2>2. z[1 + (i - 1)] = q[i - 1]
    BY <1>2, <2>1
  <2> QED BY <2>1, <2>2
<1>4. "wsOpen" \in WsOps /\ "wsClose" \in WsOps
  BY DEF WsOps
<1>5. ASSUME NEW i \in 1..Len(z), NEW j \in 1..Len(z), i < j
      PROVE  /\ z[i].op = "wsClose" => z[j].op \notin WsOps
             /\ z[i].op \in WsOps => z[j].op # "wsOpen"
  <2>1. CASE i = 1 /\ z[i].op \notin WsOps
    BY <1>4, <2>1
  <2>2. CASE i - 1 \in 1..Len(q) /\ z[i] = q[i - 1]
    <3>1. j # 1 /\ i - 1 < j - 1
      BY <1>2, <1>5, <2>2
    <3>2. j - 1 \in 1..Len(q) /\ z[j] = q[j - 1]
      BY <1>3, <3>1
    <3> QED BY <2>2, <3>1, <3>2 DEF WsOrder
  <2> QED BY <1>3, <2>1, <2>2
<1>6. NoWs(q) => NoWs(z)
  BY <1>3 DEF NoWs
<1>7. /\ (\E i \in 1..Len(z) : z[i].op = "wsOpen") => w = <<>>
      /\ (\E i \in 1..Len(z) : z[i].op = "wsClose") => c
      /\ (\E i \in 1..Len(w) : w[i].ev = "close") => c /\ NoWs(z)
  BY <1>3, <1>4, <1>6 DEF WsOrder
<1>8. \A i, j \in 1..Len(w) : i < j => w[i].ev # "close" /\ w[j].ev # "open"
  BY DEF WsOrder
<1>9. WsOrder(z, w, c)
  BY <1>5, <1>7, <1>8 DEF WsOrder
<1> QED BY <1>6, <1>9 DEF z

LEMMA HeardSame ==
  ASSUME NEW q, NEW w, NEW c \in BOOLEAN, NEW d \in BOOLEAN, NEW h \in BOOLEAN, NEW g \in BOOLEAN,
         c => d, g => h, Heard(q, w, c, h)
  PROVE  Heard(q, w, d, g)
BY DEF Heard, WsOrder

LEMMA HeardMore ==
  ASSUME NEW q \in Seq(LaterTask), NEW m \in Seq(LaterTask), NEW w, NEW c \in BOOLEAN, NEW d \in BOOLEAN,
         NEW h \in BOOLEAN, NEW g \in BOOLEAN, c => d, g => h, Heard(q, w, c, h),
         \A i \in 1..Len(m) : /\ m[i].op # "wsOpen"
                              /\ m[i].op \in WsOps => ~c /\ ~h
                              /\ m[i].op = "wsClose" => d /\ Len(m) = 1
  PROVE  Heard(q \o m, w, d, g)
<1>1. WsOrder(q \o m, w, d)
  BY OrderMore DEF Heard
<1>2. ASSUME g PROVE NoWs(q \o m) /\ w = <<>>
  <2> DEFINE z == q \o m
             n == Len(q)
  <2>1. /\ Len(q) \in Nat /\ Len(m) \in Nat /\ Len(z) = n + Len(m)
        /\ (\A i \in 1..n : z[i] = q[i]) /\ (\A i \in 1..Len(m) : z[n + i] = m[i])
    BY ConcatTypes
  <2> HIDE DEF z
  <2>2. NoWs(q) /\ w = <<>> /\ \A i \in 1..Len(m) : m[i].op \notin WsOps
    BY <1>2 DEF Heard
  <2>3. ASSUME NEW i \in 1..Len(z) PROVE z[i].op \notin WsOps
    <3>1. CASE i \in 1..n
      BY <2>1, <2>2, <3>1 DEF NoWs
    <3>2. CASE i \notin 1..n
      <4>1. i - n \in 1..Len(m) /\ n + (i - n) = i
        BY <2>1, <3>2
      <4>2. z[n + (i - n)] = m[i - n]
        BY <2>1, <4>1
      <4> QED BY <2>2, <4>1, <4>2
    <3> QED BY <3>1, <3>2
  <2> QED BY <2>2, <2>3 DEF NoWs, z
<1> QED BY <1>1, <1>2 DEF Heard

LEMMA HeardAppend ==
  ASSUME NEW q \in Seq(LaterTask), NEW e \in LaterTask, NEW w, NEW c \in BOOLEAN, NEW d \in BOOLEAN,
         NEW h \in BOOLEAN, NEW g \in BOOLEAN, c => d, g => h, Heard(q, w, c, h), e.op \notin WsOps
  PROVE  Heard(Append(q, e), w, d, g)
<1> DEFINE m == <<e>>
<1>1. m \in Seq(LaterTask) /\ Len(m) = 1 /\ m[1] = e
  OBVIOUS
<1>2. Append(q, e) = q \o m
  BY AppendIsConcat
<1> HIDE DEF m
<1>3. \A i \in 1..Len(m) : m[i].op \notin WsOps
  BY <1>1
<1>4. \A i \in 1..Len(m) : m[i].op # "wsOpen" /\ m[i].op # "wsClose"
  BY <1>3 DEF WsOps
<1> QED BY <1>1, <1>2, <1>3, <1>4, HeardMore

LEMMA HeardTail ==
  ASSUME NEW q \in Seq(LaterTask), q # <<>>, NEW w, NEW c \in BOOLEAN, NEW d \in BOOLEAN,
         NEW h \in BOOLEAN, NEW g \in BOOLEAN, c => d, g => h, Heard(q, w, c, h)
  PROVE  Heard(Tail(q), w, d, g)
<1>1. Heard(q, w, d, g)
  BY HeardSame
<1> QED BY <1>1, OrderTail DEF Heard

\* R is called.
LEMMA HeardCall ==
  ASSUME NEW q \in Seq(LaterTask), q # <<>>, NEW w \in Seq(WsEvent), NEW c, NEW h \in BOOLEAN, Heard(q, w, c, h),
         NEW e \in WsEvent,
         \/ q[1].op = "wsOpen" /\ e.ev = "open"
         \/ q[1].op = "wsMessage" /\ e.ev = "message"
         \/ q[1].op = "wsClose" /\ e.ev = "close"
  PROVE  Heard(Tail(q), Append(w, e), c, h)
<1>1. WsOrder(Tail(q), Append(w, e), c)
  BY OrderCall DEF Heard
<1>2. q[1].op \in WsOps /\ 1 \in 1..Len(q)
  <2>1. Len(q) \in Nat \ {0}
    BY TailRange
  <2> QED BY <2>1 DEF WsOps
<1>3. ~h
  BY <1>2 DEF Heard, NoWs
<1> QED BY <1>1, <1>3 DEF Heard

LEMMA HeardFront ==
  ASSUME NEW q \in Seq(LaterTask), NEW x \in LaterTask, x.op \notin WsOps, NEW w, NEW c, NEW h, Heard(q, w, c, h)
  PROVE  Heard(<<x>> \o q, w, c, h)
BY OrderFront DEF Heard

LEMMA HeardOpen ==
  ASSUME NEW q \in Seq(LaterTask), NEW e \in LaterTask, NEW c \in BOOLEAN, NEW d \in BOOLEAN, NEW w,
         Heard(q, w, c, TRUE), e.op = "wsOpen"
  PROVE  Heard(Append(q, e), w, d, FALSE)
BY OrderOpen DEF Heard

\* What a close reports, and what the bytes d are for R.
LEMMA HeardClose ==
  ASSUME NEW q \in Seq(LaterTask), NEW w, NEW c \in BOOLEAN, NEW h \in BOOLEAN, NEW g \in BOOLEAN, g => h,
         Heard(q, w, c, h), NEW m \in Seq(LaterTask), m = CloseTasks(req),
         c <=> req.isClosing, h => req.protocol # "WebSockets"
  PROVE  Heard(q \o m, w, TRUE, g)
<1>1. m = <<>> \/ (m = <<[op |-> "wsClose"]>> /\ ~c /\ ~h)
  BY DEF CloseTasks
<1>2. Len(m) = 0 \/ (Len(m) = 1 /\ m[1].op = "wsClose" /\ ~c /\ ~h)
  BY <1>1
<1>3. \A i \in 1..Len(m) : i = 1
  <2> DEFINE n == Len(m)
  <2>1. n \in {0, 1}
    BY <1>2
  <2> HIDE DEF n
  <2>2. \A i \in 1..n : i = 1
    BY ONLY <2>1
  <2> QED BY <2>2 DEF n
<1>4. \A i \in 1..Len(m) : /\ m[i].op # "wsOpen"
                           /\ m[i].op \in WsOps => ~c /\ ~h
                           /\ m[i].op = "wsClose" => TRUE /\ Len(m) = 1
  BY <1>2, <1>3
<1> QED BY <1>4, HeardMore

LEMMA WsMessagesForm ==
  ASSUME NEW d \in Seq(AnyToken)
  PROVE  /\ WsMessages(d) \in Seq(LaterTask) /\ Len(WsMessages(d)) \in Nat
         /\ \A i \in 1..Len(WsMessages(d)) : WsMessages(d)[i].op = "wsMessage"
         /\ Len(d) = 0 => Len(WsMessages(d)) = 0
<1> DEFINE q == [i \in 1..Len(d) |-> [op |-> "wsMessage", n |-> d[i].k]]
           m == WsMessages(d)
<1>1. m \in Seq(LaterTask) /\ DOMAIN m = 1..Len(m) /\ Len(m) \in Nat
  BY WsMessagesQuiet, LenProperties DEF Quiet
<1>2. Len(d) \in Nat /\ DOMAIN d = 1..Len(d)
  BY LenProperties
<1>3. m = q \/ m = <<>>
  BY <1>2 DEF WsMessages
<1>4. CASE m = <<>>
  BY <1>4
<1>5. CASE m = q
  <2>1. DOMAIN m = 1..Len(d)
    BY <1>5
  <2>2. \A i \in 1..Len(d) : m[i].op = "wsMessage"
    BY <1>5
  <2>3. 1..Len(m) = 1..Len(d)
    BY <1>1, <2>1
  <2> HIDE DEF m
  <2>4. Len(d) = 0 => Len(m) = 0
    <3> SUFFICES ASSUME Len(d) = 0, Len(m) # 0 PROVE FALSE
      OBVIOUS
    <3>1. 1 \in 1..Len(m)
      BY <1>1
    <3>2. 1 \in 1..Len(d)
      BY <2>3, <3>1
    <3> QED BY <3>2
  <2> QED BY <1>1, <2>2, <2>3, <2>4 DEF m
<1> QED BY <1>3, <1>4, <1>5

LEMMA HeardMessages ==
  ASSUME NEW q \in Seq(LaterTask), NEW w, NEW c \in BOOLEAN, NEW e \in BOOLEAN, c => e,
         NEW h \in BOOLEAN, NEW g \in BOOLEAN, g => h,
         Heard(q, w, c, h), NEW d \in Seq(AnyToken), Len(d) = 0 \/ (~c /\ ~h)
  PROVE  Heard(q \o WsMessages(d), w, e, g)
<1> DEFINE m == WsMessages(d)
<1>1. /\ m \in Seq(LaterTask) /\ Len(m) \in Nat /\ \A i \in 1..Len(m) : m[i].op = "wsMessage"
      /\ Len(d) = 0 => Len(m) = 0
  BY WsMessagesForm
<1> HIDE DEF m
<1>2. \A i \in 1..Len(m) : Len(m) # 0
  BY <1>1
<1>3. \A i \in 1..Len(m) : m[i].op # "wsOpen" /\ m[i].op # "wsClose" /\ (~c /\ ~h)
  BY <1>1, <1>2
<1> QED BY <1>1, <1>3, HeardMore DEF m

-------------------------------------------------------------------------------
(* The steps. *)

\* A connection that became a WebSocket remains one.
LEMMA NeverHttpAgain ==
  ASSUME IInv, [Next]_vars, req'.protocol = "HTTP"
  PROVE  req.protocol = "HTTP"
BY StreamStep

\* The steps that tell R nothing and take no task from its queue.
LEMMA HeardStill ==
  ASSUME TypeOK, \/ \E s \in Shapes : ClientSend(s)
                 \/ ClientSendWs \/ ClientLeaves \/ ParseWaiting \/ ParseRefuses \/ KeepForLater
                 \/ ParseDone \/ HeadersCompleteComplete \/ BodyError \/ MessageCompleteComplete
                 \/ WriteOut \/ WriteFails \/ OnClosed \/ PromiseResolves \/ UNCHANGED vars
  PROVE  later' = later /\ app'.ws = app.ws
<1>0. app \in Application
  BY Types
<1>1. CASE PromiseResolves
  BY <1>0, <1>1 DEF PromiseResolves, Application
<1>2. CASE ~PromiseResolves
  <2>1. later' = later /\ app' = app
    BY <1>2, ZenonT(40) DEF ClientSend, ClientSendWs, ClientLeaves, ParseWaiting, ParseRefuses, KeepForLater,
                ParseDone, HeadersCompleteComplete, BodyError, MessageCompleteComplete, WriteOut,
                WriteFails, OnClosed, vars
  <2> QED BY <2>1
<1> QED BY <1>1, <1>2

\* The steps of the parser ask R, but say nothing of a WebSocket.
LEMMA HeardParse ==
  ASSUME TypeOK, NEW c \in BOOLEAN, NEW d \in BOOLEAN, NEW h \in BOOLEAN, NEW g \in BOOLEAN, c => d, g => h,
         Heard(later, app.ws, c, h),
         ParseMessageBegin \/ ParseHeadersComplete \/ ParseHeadersDone \/ ParseBody
  PROVE  Heard(later', app'.ws, d, g)
<1>0. later \in Seq(LaterTask)
  BY Types
<1>1. Heard(later, app.ws, d, g)
  BY HeardSame
<1>2. app' = app
  BY DEF ParseMessageBegin, ParseHeadersComplete, ParseHeadersDone, ParseBody
<1>3. CASE ParseMessageBegin
  <2> DEFINE k == Head(parser.data).k
             e == [op |-> "initEnv", k |-> k]
  <2>1. later' = Append(later, e)
    BY <1>3 DEF ParseMessageBegin
  <2>2. k \in ReqNo
    BY <1>3, NextToken DEF ParseMessageBegin, Executing
  <2>3. e \in LaterTask /\ e.op \notin WsOps
    BY <2>2, LaterTasks DEF WsOps
  <2> HIDE DEF e
  <2> QED BY <1>0, <1>2, <2>1, <2>3, HeardAppend
<1>4. CASE ParseHeadersComplete \/ ParseHeadersDone \/ ParseBody
  <2> DEFINE k == parser.cur
             e1 == [op |-> "onHeaders", k |-> k]
             e2 == [op |-> "getResponse", k |-> k]
             e3 == [op |-> "onBodyData", k |-> k]
  <2>1. \/ later' = later \/ later' = Append(later, e1) \/ later' = Append(later, e2)
        \/ later' = Append(later, e3) \/ later' = Append(Append(later, e3), e2)
    <3>1. CASE ParseHeadersComplete
      BY <3>1 DEF ParseHeadersComplete
    <3>2. CASE ParseHeadersDone
      BY <3>2 DEF ParseHeadersDone, MessageComplete
    <3>3. CASE ParseBody
      BY <3>3 DEF ParseBody
    <3> QED BY <1>4, <3>1, <3>2, <3>3
  <2>2. k \in ReqNo
    BY <1>4, ParserTypes DEF ParseHeadersComplete, ParseHeadersDone, ParseBody, Executing
  <2>3. /\ e1 \in LaterTask /\ e1.op \notin WsOps /\ e2 \in LaterTask /\ e2.op \notin WsOps
        /\ e3 \in LaterTask /\ e3.op \notin WsOps
    BY <2>2, LaterTasks DEF WsOps
  <2> HIDE DEF e1, e2, e3
  <2>4. /\ Heard(Append(later, e1), app.ws, d, g) /\ Heard(Append(later, e2), app.ws, d, g)
        /\ Heard(Append(later, e3), app.ws, d, g)
    BY <1>0, <2>3, HeardAppend
  <2>5. Append(later, e3) \in Seq(LaterTask)
    BY <1>0, <2>3, AppendProperties
  <2>6. Heard(Append(Append(later, e3), e2), app.ws, d, g)
    BY <2>3, <2>4, <2>5, HeardAppend
  <2> QED BY <1>1, <1>2, <2>1, <2>4, <2>6
<1> QED BY <1>3, <1>4

\* Something closes the connection, or may.
LEMMA HeardCloses ==
  ASSUME TypeOK, HandedOver, NEW d \in BOOLEAN, NEW h \in BOOLEAN, NEW g \in BOOLEAN,
         req.isClosing => d, g => h, h => req.protocol # "WebSockets",
         req'.isClosing => d, req'.isClosing \in BOOLEAN,
         Heard(later, app.ws, req.isClosing, h),
         OnReadError \/ ServerStops \/ ScheduledClose \/ OnResponseWritten \/ OnChunkWritten
  PROVE  Heard(later', app'.ws, d, g)
<1>0. later \in Seq(LaterTask) /\ req \in Request /\ req.isClosing \in BOOLEAN
  BY Types, RequestTypes
<1>1. app' = app
  BY DEF OnReadError, ServerStops, ScheduledClose, OnResponseWritten, OnChunkWritten
<1>2. \/ later' = later
      \/ later' = later \o CloseTasks(req) /\ req' = Closed(req)
  BY DEF OnReadError, ServerStops, ScheduledClose, OnResponseWritten, OnChunkWritten, Release, NextChunk
<1>3. CASE later' = later
  BY <1>0, <1>1, <1>3, HeardSame
<1>4. CASE later' = later \o CloseTasks(req) /\ req' = Closed(req)
  <2>1. req'.isClosing
    BY <1>0, <1>4 DEF Closed, Request
  <2> DEFINE m == CloseTasks(req)
             x == req.isClosing
  <2>2. m \in Seq(LaterTask) /\ x \in BOOLEAN /\ (x <=> req.isClosing) /\ m = CloseTasks(req)
    BY <1>0, CloseTasksQuiet DEF Quiet
  <2>3. Heard(later, app.ws, x, h)
    OBVIOUS
  <2> HIDE DEF m, x
  <2>4. Heard(later \o m, app.ws, TRUE, g)
    BY <1>0, <2>2, <2>3, HeardClose
  <2>5. d = TRUE
    BY <2>1
  <2> QED BY <1>1, <1>4, <2>4, <2>5 DEF m
<1> QED BY <1>2, <1>3, <1>4

\* Bytes reach a WebSocket.
LEMMA HeardReads ==
  ASSUME TypeOK, HandedOver, NoRest, NEW d \in BOOLEAN, NEW h \in BOOLEAN, NEW g \in BOOLEAN,
         req.isClosing => d, g => h, h <=> req.protocol = "HTTP",
         Heard(later, app.ws, req.isClosing, h), OnRead \/ ScheduledWsRead
  PROVE  Heard(later', app'.ws, d, g)
<1>0. later \in Seq(LaterTask) /\ req \in Request /\ req.isClosing \in BOOLEAN /\ bgq \in Seq(BgTask)
  BY Types, RequestTypes
<1>1. app' = app
  BY DEF OnRead, ScheduledWsRead
<1>2. Heard(later, app.ws, d, g)
  BY <1>0, HeardSame
<1>3. CASE OnRead
  <2>1. PICK n \in 1..Len(client.net) :
          \/ later' = later
          \/ /\ req.protocol = "WebSockets"
             /\ later' = later \o (IF req.ignoreNewData THEN <<>> ELSE WsMessages(SubSeq(client.net, 1, n)))
    BY <1>3 DEF OnRead
  <2> DEFINE m == SubSeq(client.net, 1, n)
  <2>2. m \in Seq(AnyToken)
    <3>1. client.net \in Seq(AnyToken)
      BY Types, TokenSeqs DEF Client
    <3>2. Len(client.net) \in Nat /\ \A i \in 1..Len(client.net) : client.net[i] \in AnyToken
      BY <3>1, LenProperties, ElementOfSeq
    <3>3. n \in Int /\ \A i \in 1..n : client.net[i] \in AnyToken
      BY <3>2
    <3> QED BY <3>3, SubSeqProperties
  <2>3. ~req.isClosing
    BY <1>3 DEF OnRead, HandedOver
  <2> HIDE DEF m
  <2>4. ASSUME req.protocol = "WebSockets" PROVE Heard(later \o WsMessages(m), app.ws, d, g)
    <3>1. ~h
      BY <2>4
    <3>2. \A q \in Seq(LaterTask) : \A w : Heard(q, w, req.isClosing, h) => Heard(q \o WsMessages(m), w, d, g)
      BY <1>0, <2>2, <2>3, <3>1, HeardMessages, Zenon
    <3> QED BY <1>0, <3>2
  <2>5. later \o <<>> = later
    BY <1>0, ConcatEmptySeq
  <2>6. later' = later \/ (req.protocol = "WebSockets" /\ later' = later \o WsMessages(m))
    <3>1. CASE later' = later
      BY <3>1
    <3>2. CASE later' # later
      BY <2>1, <2>5, <3>2, Zenon DEF m
    <3> QED BY <3>1, <3>2
  <2> QED BY <1>1, <1>2, <2>4, <2>6
<1>4. CASE ScheduledWsRead
  <2>1. bgq # <<>> /\ Head(bgq).op = "wsRead"
    BY <1>4 DEF ScheduledWsRead, Flush
  <2> DEFINE a == Head(bgq).d
             b == [i \in DOMAIN a |-> Token("W", 0)]
  <2>2. a \in Seq(AnyToken) /\ bgq[1] = Head(bgq) /\ 1 \in 1..Len(bgq)
    BY <2>1, BgFront, TaskFields
  <2>3. Len(a) = 0
    BY <2>1, <2>2 DEF NoRest
  <2>4. b \in Seq(AnyToken) /\ Len(b) = 0
    <3> HIDE DEF a
    <3>1. DOMAIN a = 1..Len(a) /\ Len(a) \in Nat
      BY <2>2, LenProperties
    <3>2. \A i \in 1..Len(a) : FALSE
      BY <2>3
    <3>3. a = <<>>
      BY <2>2, <2>3, EmptySeq
    <3>4. DOMAIN a = {}
      BY <3>1, <3>2
    <3>5. \A i \in DOMAIN a : a[i] = Token("W", 0)
      BY <3>4
    <3>6. a = [i \in DOMAIN a |-> a[i]]
      BY <3>3
    <3>7. [i \in DOMAIN a |-> a[i]] = b
      BY <3>5
    <3>8. a = b
      BY <3>6, <3>7
    <3> HIDE DEF b
    <3> QED BY <2>2, <2>3, <3>8
  <2> HIDE DEF a, b
  <2>5. later' = later \o WsMessages(a) \/ later' = later \o WsMessages(b)
    BY <1>4 DEF ScheduledWsRead, a, b
  <2>6. ASSUME NEW x \in Seq(AnyToken), Len(x) = 0 PROVE later \o WsMessages(x) = later
    <3>1. WsMessages(x) \in Seq(LaterTask) /\ Len(WsMessages(x)) = 0
      BY <2>6, WsMessagesForm
    <3>2. WsMessages(x) = <<>>
      BY <3>1, EmptySeq
    <3>3. later \o <<>> = later
      BY <1>0, ConcatEmptySeq
    <3> QED BY <3>2, <3>3
  <2>7. later' = later
    <3>1. a \in Seq(AnyToken) /\ Len(a) = 0
      BY <2>2, <2>3
    <3>2. later \o WsMessages(a) = later
      BY <3>1, <2>6
    <3>3. later \o WsMessages(b) = later
      BY <2>4, <2>6
    <3> QED BY <2>5, <3>2, <3>3
  <2> QED BY <1>1, <1>2, <2>7
<1> QED BY <1>3, <1>4

\* R runs a task.
LEMMA HeardRuns ==
  ASSUME TypeOK, NEW c \in BOOLEAN, NEW d \in BOOLEAN, NEW h \in BOOLEAN, NEW g \in BOOLEAN, c => d, g => h,
         Heard(later, app.ws, c, h), MainTask
  PROVE  Heard(later', app'.ws, d, g)
<1>0. later \in Seq(LaterTask) /\ app \in Application /\ app.ws \in Seq(WsEvent)
  BY Types DEF Application, WsEvent
<1>1. Heard(later, app.ws, d, g)
  BY HeardSame
<1>2. later # <<>>
  BY DEF MainTask, InitializeEnv, CallOnHeaders, CallOnBodyData, CallGetResponse, CallWsOpen,
         PassRequestBuffer, CallWsMessage, CallWsClose, RunLater
<1>3. Head(later) = later[1] /\ Head(later) \in LaterTask /\ Tail(later) \in Seq(LaterTask)
  BY <1>2, LaterFront
<1>4. Heard(Tail(later), app.ws, d, g)
  BY <1>0, <1>1, <1>2, HeardTail
<1>5. CASE InitializeEnv \/ CallOnHeaders \/ CallOnBodyData \/ CallGetResponse \/ PassRequestBuffer
  <2>1. later' = Tail(later)
    BY <1>5 DEF InitializeEnv, CallOnHeaders, CallOnBodyData, CallGetResponse, PassRequestBuffer, RunLater
  <2>2. app'.ws = app.ws
    <3>1. CASE InitializeEnv
      BY <1>0, <3>1 DEF InitializeEnv, Application
    <3>2. CASE CallOnHeaders \/ PassRequestBuffer
      BY <3>2 DEF CallOnHeaders, PassRequestBuffer
    <3>3. CASE CallOnBodyData
      BY <1>0, <3>3 DEF CallOnBodyData, Application
    <3>4. CASE CallGetResponse
      BY <1>0, <3>4 DEF CallGetResponse, Application
    <3> QED BY <1>5, <3>1, <3>2, <3>3, <3>4
  <2> QED BY <1>4, <2>1, <2>2
<1>6. CASE CallWsMessage \/ CallWsClose
  <2> DEFINE e1 == [ev |-> "message", n |-> Head(later).n]
             e2 == [ev |-> "close", n |-> 0]
  <2>1. /\ later' = Tail(later)
        /\ \/ later[1].op = "wsMessage" /\ app'.ws = Append(app.ws, e1) /\ Head(later).n \in Nat
           \/ later[1].op = "wsClose" /\ app'.ws = Append(app.ws, e2)
    <3>1. CASE CallWsMessage
      <4>1. Head(later).op = "wsMessage" /\ later' = Tail(later) /\ app'.ws = Append(app.ws, e1)
        BY <1>0, <3>1 DEF CallWsMessage, RunLater, Application
      <4>2. Head(later).n \in Nat
        BY <1>3, <4>1, TaskFields
      <4> QED BY <1>3, <4>1, <4>2
    <3>2. CASE CallWsClose
      <4>1. Head(later).op = "wsClose" /\ later' = Tail(later) /\ app'.ws = Append(app.ws, e2)
        BY <1>0, <3>2 DEF CallWsClose, RunLater, Application
      <4> QED BY <1>3, <4>1
    <3> QED BY <1>6, <3>1, <3>2
  <2>2. /\ Head(later).n \in Nat => e1 \in WsEvent
        /\ e1.ev = "message" /\ e2 \in WsEvent /\ e2.ev = "close"
    BY DEF WsEvent
  <2> HIDE DEF e1, e2
  <2>3. CASE later[1].op = "wsMessage" /\ app'.ws = Append(app.ws, e1) /\ Head(later).n \in Nat
    <3>1. Heard(Tail(later), Append(app.ws, e1), d, g)
      BY <1>0, <1>1, <1>2, <2>2, <2>3, HeardCall
    <3> QED BY <2>1, <2>3, <3>1
  <2>4. CASE later[1].op = "wsClose" /\ app'.ws = Append(app.ws, e2)
    <3>1. Heard(Tail(later), Append(app.ws, e2), d, g)
      BY <1>0, <1>1, <1>2, <2>2, <2>4, HeardCall
    <3> QED BY <2>1, <2>4, <3>1
  <2> QED BY <2>1, <2>3, <2>4
<1>7. CASE CallWsOpen
  <2> DEFINE x == [op |-> "wsOpened"]
             e == [ev |-> "open", n |-> 0]
  <2>1. later' = <<x>> \o Tail(later) /\ Head(later).op = "wsOpen"
    BY <1>7 DEF CallWsOpen
  <2>2. app' = app \/ app' = [app EXCEPT !.ws = Append(@, e)]
    BY <1>7 DEF CallWsOpen
  <2>3. app'.ws = app.ws \/ app'.ws = Append(app.ws, e)
    BY <1>0, <2>2 DEF Application
  <2>4. x \in LaterTask /\ x.op \notin WsOps /\ e \in WsEvent /\ e.ev = "open" /\ later[1].op = "wsOpen"
    BY <1>3, <2>1, WsTasks DEF WsOps, WsEvent
  <2> HIDE DEF x, e
  <2>5. Heard(Tail(later), Append(app.ws, e), d, g)
    BY <1>0, <1>1, <1>2, <2>4, HeardCall
  <2>6. Heard(Tail(later), app'.ws, d, g)
    BY <1>4, <2>3, <2>5
  <2>7. Heard(<<x>> \o Tail(later), app'.ws, d, g)
    BY <1>3, <2>4, <2>6, HeardFront
  <2> QED BY <2>1, <2>7
<1> QED BY <1>5, <1>6, <1>7 DEF MainTask

\* The connection becomes a WebSocket, or not.
LEMMA HeardUpgrade ==
  ASSUME TypeOK, HandedOver, NEW c \in BOOLEAN, NEW d \in BOOLEAN, NEW g \in BOOLEAN, c => d,
         Heard(later, app.ws, c, TRUE), UpgradeConnection, g => req'.protocol # "WebSockets"
  PROVE  Heard(later', app'.ws, d, g)
<1>0. later \in Seq(LaterTask) /\ req \in Request /\ RequestCompleted(req) \in Request
  BY Types, RequestTypes
<1> DEFINE e == [op |-> "wsOpen"]
<1>1. app' = app
  BY DEF UpgradeConnection
<1>2. \/ later' = later
      \/ /\ later' = Append(later, e)
         /\ req' = [RequestCompleted(req) EXCEPT !.protocol = "WebSockets", !.requestBuffer = @ \o parser.data]
  BY DEF UpgradeConnection
<1>3. CASE later' = later
  <2>1. Heard(later, app.ws, d, g)
    BY HeardSame
  <2> QED BY <1>1, <1>3, <2>1
<1>4. CASE later' # later
  <2>1. req'.protocol = "WebSockets"
    BY <1>0, <1>2, <1>4 DEF Request
  <2>2. g = FALSE
    BY <2>1
  <2>3. e \in LaterTask /\ e.op = "wsOpen"
    BY WsTasks
  <2> HIDE DEF e
  <2>4. Heard(Append(later, e), app.ws, d, FALSE)
    BY <1>0, <2>3, HeardOpen
  <2> QED BY <1>1, <1>2, <1>4, <2>2, <2>4
<1> QED BY <1>3, <1>4

LEMMA HeardStep ==
  ASSUME IInv, IInv', NoRest, HeardNow, [Next]_vars
  PROVE  HeardNow'
<1> DEFINE c == req.isClosing
           d == req'.isClosing
           h == req.protocol = "HTTP"
           g == req'.protocol = "HTTP"
<1>1. TypeOK /\ HandedOver /\ TypeOK' /\ HandedOver'
  BY DEF IInv
<1>2. req \in Request /\ c \in BOOLEAN /\ d \in BOOLEAN
  <2>1. req \in Request /\ req' \in Request'
    BY <1>1, Types DEF TypeOK
  <2> QED BY <2>1 DEF Request
<1>3. c => d
  BY <1>1, WorksStep
<1>4. g => h
  BY NeverHttpAgain
<1>5. Heard(later, app.ws, c, h) /\ h \in BOOLEAN /\ g \in BOOLEAN /\ (h <=> req.protocol = "HTTP")
      /\ (h => req.protocol # "WebSockets") /\ (g => req'.protocol # "WebSockets")
  BY DEF HeardNow
<1>6. SUFFICES Heard(later', app'.ws, d, g)
  BY DEF HeardNow
<1>7. Heard(later, app.ws, req.isClosing, h) /\ (req.isClosing => d) /\ (req'.isClosing => d) /\ req'.isClosing \in BOOLEAN
  BY <1>2, <1>3, <1>5
<1>8. parser.exec # "no" => h = TRUE
  <2>1. req.protocol \in {"HTTP", "WebSockets"}
    BY <1>2, RequestTypes
  <2> QED BY <1>1, <2>1 DEF HandedOver
<1> HIDE DEF c, d, h, g
<1>9. CASE \/ \E s \in Shapes : ClientSend(s)
           \/ ClientSendWs \/ ClientLeaves \/ ParseWaiting \/ ParseRefuses \/ KeepForLater
           \/ ParseDone \/ HeadersCompleteComplete \/ BodyError \/ MessageCompleteComplete
           \/ WriteOut \/ WriteFails \/ OnClosed \/ PromiseResolves \/ UNCHANGED vars
  <2>1. later' = later /\ app'.ws = app.ws
    BY <1>1, <1>9, HeardStill
  <2>2. Heard(later, app.ws, d, g)
    BY <1>2, <1>3, <1>4, <1>5, HeardSame
  <2> QED BY <2>1, <2>2
<1>10. CASE ParseMessageBegin \/ ParseHeadersComplete \/ ParseHeadersDone \/ ParseBody
  BY <1>1, <1>2, <1>3, <1>4, <1>5, <1>10, HeardParse
<1>11. CASE OnReadError \/ ServerStops \/ ScheduledClose \/ OnResponseWritten \/ OnChunkWritten
  BY <1>1, <1>2, <1>4, <1>5, <1>7, <1>11, HeardCloses
<1>12. CASE OnRead \/ ScheduledWsRead
  BY <1>1, <1>2, <1>4, <1>5, <1>7, <1>12, HeardReads
<1>13. CASE MainTask
  BY <1>1, <1>2, <1>3, <1>4, <1>5, <1>13, HeardRuns
<1>14. CASE UpgradeConnection
  <2>1. parser.exec # "no"
    BY <1>14 DEF UpgradeConnection, ExecuteReturns
  <2>2. Heard(later, app.ws, c, TRUE)
    BY <1>5, <1>8, <2>1
  <2> QED BY <1>1, <1>2, <1>3, <1>5, <1>14, <2>2, HeardUpgrade
<1> QED BY <1>9, <1>10, <1>11, <1>12, <1>13, <1>14, SMTT(40)
        DEF Next, ClientStep, Parse, FlushTask, WriteCallback

-------------------------------------------------------------------------------
(* No bytes of the other protocol before the 101, and none after the handshake. *)

LEMMA AppendAny ==
  ASSUME NEW S, NEW q \in Seq(S), NEW e
  PROVE  /\ Len(q) \in Nat /\ Len(Append(q, e)) = Len(q) + 1 /\ Append(q, e)[Len(q) + 1] = e
         /\ \A i \in 1..Len(q) : Append(q, e)[i] = q[i]
         /\ \A i \in 1..(Len(q) + 1) : i \in 1..Len(q) \/ i = Len(q) + 1
<1> DEFINE T == S \cup {e}
<1>1. S \subseteq T /\ e \in T
  OBVIOUS
<1> HIDE DEF T
<1>2. q \in Seq(T)
  BY <1>1, SeqMonotonic
<1>3. Len(q) \in Nat
  BY LenProperties
<1>4. \A i \in 1..(Len(q) + 1) : i \in 1..Len(q) \/ i = Len(q) + 1
  BY <1>3
<1> QED BY <1>1, <1>2, <1>3, <1>4, AppendProperties

LEMMA NoSwitchAppend ==
  ASSUME NEW q \in Seq(Response), NoSwitch(q), NEW e, e.kind # "switch"
  PROVE  NoSwitch(Append(q, e))
BY AppendAny DEF NoSwitch

LEMMA SwitchStep ==
  ASSUME IInv, Written, AnswerInv, [Next]_vars, req'.protocol = "HTTP", NoSwitch(resp)
  PROVE  NoSwitch(resp')
<1>0. TypeOK /\ HandedOver /\ Waits /\ resp \in Seq(Response) /\ req \in Request /\ RequestCompleted(req) \in Request
  BY Types, RequestTypes DEF IInv
<1>1. CASE RespAlike(resp, resp')
  BY <1>1 DEF RespAlike, SameResponse, NoSwitch
<1>2. CASE resp' = resp
  BY <1>2
<1>3. ASSUME NEW k, NEW b, resp' = Append(resp, NewResponse(k, "final", b)) PROVE NoSwitch(resp')
  <2>1. NewResponse(k, "final", b).kind # "switch"
    BY DEF NewResponse
  <2> QED BY <1>0, <1>3, <2>1, NoSwitchAppend
<1>4. CASE ParseHeadersComplete
  <2>1. resp' = resp \/ \E b : resp' = Append(resp, NewResponse(parser.cur, "final", b))
    BY <1>4 DEF ParseHeadersComplete
  <2> QED BY <1>2, <1>3, <2>1
<1>5. CASE CallOnHeaders \/ CallOnBodyData \/ CallGetResponse \/ PromiseResolves
  <2>1. resp' = resp \/ \E k, b : resp' = Append(resp, NewResponse(k, "final", b))
    BY <1>5 DEF CallOnHeaders, CallOnBodyData, CallGetResponse, PromiseResolves, Respond
  <2> QED BY <1>2, <1>3, <2>1
<1>6. CASE HeadersCompleteComplete \/ BodyError \/ MessageCompleteComplete
  <2> DEFINE e == [NewResponse(parser.cur, "continue", 0) EXCEPT !.st = HeadState(req)]
  <2>1. RespWritten(resp, resp', Head(bgq).r) \/ resp' = resp \/ Makes(e)
    BY <1>6, OutcomeEffects
  <2>2. e.kind # "switch"
    BY DEF NewResponse
  <2> HIDE DEF e
  <2>3. CASE RespWritten(resp, resp', Head(bgq).r)
    BY <2>3 DEF RespWritten, SameResponse, NoSwitch
  <2>4. CASE Makes(e)
    BY <1>0, <2>2, <2>4, NoSwitchAppend DEF Makes
  <2> QED BY <1>2, <2>1, <2>3, <2>4
<1>7. CASE UpgradeConnection
  <2>1. \/ resp' = resp
        \/ req' = [RequestCompleted(req) EXCEPT !.protocol = "WebSockets", !.requestBuffer = @ \o parser.data]
    BY <1>7 DEF UpgradeConnection
  <2>2. CASE req' = [RequestCompleted(req) EXCEPT !.protocol = "WebSockets", !.requestBuffer = @ \o parser.data]
    BY <1>0, <2>2 DEF Request
  <2> QED BY <1>2, <2>1, <2>2
<1> QED BY <1>0, <1>1, <1>4, <1>5, <1>6, <1>7, RespStep

LEMMA PlainPrefix ==
  ASSUME NEW s \in Bytes, NEW u, Prefix(u, s), Plain(s)
  PROVE  Plain(u)
<1>1. Len(s) \in Nat
  BY LenProperties DEF Bytes
<1>2. \A i \in 1..Len(u) : i \in 1..Len(s) /\ u[i] = s[i]
  BY <1>1 DEF Prefix
<1> QED BY <1>2 DEF Plain

LEMMA PlainStep ==
  ASSUME Eager = FALSE, IInv, [Next]_vars, req'.protocol = "HTTP", Plain(Stream), NoSwitch(resp)
  PROVE  Plain(Stream')
<1>0. TypeOK /\ Stream \in Bytes /\ resp \in Seq(Response)
  BY Types, StreamTypes DEF IInv
<1>1. CASE StreamCut
  BY <1>0, <1>1, PlainPrefix DEF StreamCut
<1>2. CASE StreamTail
  <2>1. Tail(Stream) \in Bytes /\ Plain(Tail(Stream))
    <3>1. /\ Tail(Stream) \in Seq(AnyToken) /\ Len(Stream) \in Nat \ {0} /\ Len(Tail(Stream)) = Len(Stream) - 1
          /\ \A i \in 1..Len(Tail(Stream)) : Tail(Stream)[i] = Stream[i + 1]
      BY <1>0, <1>2, TailRange DEF StreamTail, Bytes
    <3>2. \A i \in 1..Len(Tail(Stream)) : i + 1 \in 1..Len(Stream)
      BY <3>1
    <3> QED BY <3>1, <3>2 DEF Bytes, Plain
  <2> QED BY <1>2, <2>1, PlainPrefix DEF StreamTail
<1>3. CASE ClientSendWs
  <2>1. \E r \in DOMAIN resp : resp[r].kind = "switch"
    BY <1>3 DEF ClientSendWs, Switched
  <2>2. DOMAIN resp = 1..Len(resp)
    BY <1>0, LenProperties
  <2> QED BY <2>1, <2>2 DEF NoSwitch
<1>4. ASSUME NEW s \in Shapes, ClientSend(s) PROVE Plain(Stream')
  <2> DEFINE w == TokensOf(s, Sent + 1)
  <2>1. client'.net = client.net \o w /\ w \in Bytes
    BY <1>0, <1>4, ClientSendTypes DEF Bytes, Sent
  <2>2. req' = req /\ parser' = parser
    BY <1>4 DEF ClientSend
  <2>3. s.body \in Nat /\ Len(w) = 2 + s.body
        /\ \A i \in 1..Len(w) : w[i] = Token(IF i = 1 THEN "H" ELSE IF i = 2 THEN "L" ELSE "B", Sent + 1)
    BY TokensOfForm
  <2> HIDE DEF w
  <2>4. ASSUME NEW i \in 1..Len(w) PROVE w[i].t # "W"
    <3>1. \A t \in {"H", "L", "B"} : Token(t, Sent + 1).t # "W"
      BY DEF Token
    <3>2. \E t \in {"H", "L", "B"} : w[i] = Token(t, Sent + 1)
      BY <2>3
    <3> QED BY <3>1, <3>2
  <2>5. (Alive => Stream' = Stream \o w) /\ (~Alive => Stream' = Stream)
    BY <1>0, <2>1, <2>2, StreamGrows
  <2>6. Plain(Stream \o w)
    <3> DEFINE z == Stream \o w
               n == Len(Stream)
    <3>1. /\ n \in Nat /\ Len(w) \in Nat /\ Len(z) = n + Len(w)
          /\ (\A i \in 1..n : z[i] = Stream[i]) /\ (\A i \in 1..Len(w) : z[n + i] = w[i])
      BY <1>0, <2>1, ConcatTypes DEF Bytes
    <3> HIDE DEF z
    <3>2. ASSUME NEW i \in 1..Len(z) PROVE z[i].t # "W"
      <4>1. CASE i \in 1..n
        BY <3>1, <4>1 DEF Plain
      <4>2. CASE i \notin 1..n
        <5>1. i - n \in 1..Len(w) /\ n + (i - n) = i
          BY <3>1, <4>2
        <5>2. z[n + (i - n)] = w[i - n]
          BY <3>1, <5>1
        <5> QED BY <2>4, <5>1, <5>2
      <4> QED BY <4>1, <4>2
    <3> QED BY <3>2 DEF Plain, z
  <2> QED BY <2>5, <2>6
<1> QED BY <1>1, <1>2, <1>3, <1>4, StreamStep

NoneLeft(q) == \A i \in 1..Len(q) : q[i].op = "wsRead" => Len(q[i].d) = 0

LEMMA NoneLeftMore ==
  ASSUME NEW q \in Seq(BgTask), NoneLeft(q), NEW e, e.op # "wsRead" \/ Len(e.d) = 0
  PROVE  NoneLeft(Append(q, e))
BY AppendAny DEF NoneLeft

LEMMA NoneLeftTail ==
  ASSUME NEW q \in Seq(BgTask), NoneLeft(q), q # <<>>
  PROVE  NoneLeft(Tail(q))
<1>1. /\ Len(q) \in Nat \ {0} /\ Len(Tail(q)) = Len(q) - 1
      /\ \A i \in 1..Len(Tail(q)) : Tail(q)[i] = q[i + 1]
  BY TailRange
<1>2. \A i \in 1..Len(Tail(q)) : i + 1 \in 1..Len(q)
  BY <1>1
<1> QED BY <1>1, <1>2 DEF NoneLeft

\* What is handed to the background thread for a WebSocket is empty.
LEMMA NoneLeftStep ==
  ASSUME TypeOK, HandedOver, req.protocol = "WebSockets" => req.requestBuffer = <<>>,
         NoneLeft(bgq), [Next]_vars
  PROVE  NoneLeft(bgq')
<1>0. bgq \in Seq(BgTask)
  BY Types
<1>1. ASSUME bgq' = bgq PROVE NoneLeft(bgq')
  BY <1>1
<1>2. ASSUME NEW e, e.op # "wsRead" \/ Len(e.d) = 0, bgq' = Append(bgq, e) PROVE NoneLeft(bgq')
  BY <1>0, <1>2, NoneLeftMore
<1>3. CASE HeadersCompleteComplete \/ BodyError \/ MessageCompleteComplete \/ ScheduledClose \/ ScheduledWsRead
  <2>1. bgq # <<>> /\ bgq' = Tail(bgq)
    BY <1>3, Zenon DEF HeadersCompleteComplete, BodyError, MessageCompleteComplete, ScheduledClose,
                       ScheduledWsRead, Flush
  <2> QED BY <1>0, <2>1, NoneLeftTail
<1>4. CASE \/ \E s \in Shapes : ClientSend(s)
           \/ ClientSendWs \/ ClientLeaves \/ OnRead \/ OnReadError \/ ServerStops
           \/ ParseMessageBegin \/ ParseWaiting \/ ParseHeadersDone \/ ParseBody
           \/ ParseRefuses \/ KeepForLater \/ UpgradeConnection \/ ParseDone
           \/ WriteOut \/ WriteFails \/ OnResponseWritten \/ OnChunkWritten \/ OnClosed
           \/ InitializeEnv \/ CallWsClose \/ UNCHANGED vars
  <2>1. bgq' = bgq
    BY <1>4, ZenonT(40) DEF ClientSend, ClientSendWs, ClientLeaves, OnRead, OnReadError, ServerStops,
                ParseMessageBegin, ParseWaiting, ParseHeadersDone, ParseBody, ParseRefuses,
                KeepForLater, UpgradeConnection, ParseDone, WriteOut, WriteFails,
                OnResponseWritten, OnChunkWritten, OnClosed, InitializeEnv, CallWsClose, vars
  <2> QED BY <1>1, <2>1
<1>5. CASE ParseHeadersComplete \/ CallOnHeaders \/ CallOnBodyData \/ CallGetResponse \/ PromiseResolves
  <2>1. bgq' = bgq \/ \E op \in Outcome : \E k, r : bgq' = Append(bgq, [op |-> op, k |-> k, r |-> r])
    <3>1. CASE ParseHeadersComplete
      BY <3>1 DEF ParseHeadersComplete, Outcome
    <3>2. CASE CallOnHeaders \/ CallOnBodyData
      BY <3>2 DEF CallOnHeaders, CallOnBodyData, Respond, Outcome
    <3>3. CASE CallGetResponse
      BY <3>3 DEF CallGetResponse, Respond, Outcome
    <3>4. CASE PromiseResolves
      BY <3>4 DEF PromiseResolves, Respond, Outcome
    <3> QED BY <1>5, <3>1, <3>2, <3>3, <3>4
  <2>2. ASSUME NEW op \in Outcome, NEW k, NEW r, bgq' = Append(bgq, [op |-> op, k |-> k, r |-> r])
        PROVE  NoneLeft(bgq')
    <3> DEFINE e == [op |-> op, k |-> k, r |-> r]
    <3>1. bgq' = Append(bgq, e) /\ e.op # "wsRead"
      BY <2>2 DEF Outcome
    <3> HIDE DEF e
    <3> QED BY <1>2, <3>1
  <2> QED BY <1>1, <2>1, <2>2
<1>6. CASE CallWsOpen \/ CallWsMessage
  <2> DEFINE e == [op |-> "close"]
  <2>1. bgq' = bgq \/ bgq' = Append(bgq, e)
    BY <1>6 DEF CallWsOpen, CallWsMessage
  <2>2. e.op # "wsRead"
    OBVIOUS
  <2> HIDE DEF e
  <2> QED BY <1>1, <1>2, <2>1, <2>2
<1>7. CASE PassRequestBuffer
  <2> DEFINE e == [op |-> "wsRead", d |-> req.requestBuffer]
  <2>1. later # <<>> /\ Head(later).op = "wsOpened"
    BY <1>7 DEF PassRequestBuffer, RunLater
  <2>2. Head(later) = later[1] /\ 1 \in 1..Len(later)
    BY <2>1, LaterFront
  <2>3. req.protocol = "WebSockets"
    BY <2>1, <2>2 DEF HandedOver
  <2>4. req.requestBuffer = <<>>
    BY <2>3
  <2>5. Len(e.d) = 0
    BY <2>4
  <2>6. bgq' = bgq \/ bgq' = Append(bgq, e)
    BY <1>7 DEF PassRequestBuffer
  <2> HIDE DEF e
  <2> QED BY <1>1, <1>2, <2>5, <2>6
<1> QED BY <1>3, <1>4, <1>5, <1>6, <1>7, SMTT(40)
        DEF Next, ClientStep, Parse, FlushTask, WriteCallback, MainTask

\* Nothing follows the handshake.
LEMMA NothingFollows ==
  ASSUME IInv, TurnInv, req.protocol = "HTTP", Plain(Stream), UpgradeConnection
  PROVE  req.requestBuffer = <<>> /\ parser.data = <<>>
<1>0. /\ TypeOK /\ HandedOver /\ InStep /\ InTurn /\ Scripted /\ Flags /\ Stream \in Bytes
      /\ parser.data \in Bytes /\ Ahead \in Nat /\ Fresh \in Nat /\ (Sent > parser.cur <=> Fresh > 0)
      /\ Sent \in Nat /\ parser.cur \in Nat
  BY StreamTypes, AheadFresh, CurTypes DEF IInv, TurnInv
<1>1. parser.st # "wait" /\ req.isUpgrade /\ ExecuteReturns
  BY DEF UpgradeConnection
<1>2. parser.cur # 0 /\ parser.cur = Sent /\ Cur.upgrade # "no" /\ parser.st \in {"ready", "start", "dead"}
  BY <1>0, <1>1 DEF Flags
<1>3. parser.st # "ready"
  BY <1>0, <1>1 DEF Flags, ExecuteReturns
<1>4. Ahead = 0 /\ Fresh = 0
  <2>1. Ahead = 0
    BY <1>2, <1>3 DEF Ahead
  <2>2. ~(Sent > parser.cur)
    BY <1>0, <1>2
  <2> QED BY <1>0, <2>1, <2>2
<1>5. ~Leftover
  <2>1. Cur.body = 0
    BY <1>0, <1>2, CurTypes DEF Cur
  <2> QED BY <2>1 DEF Leftover
<1>6. Script(Stream, 0, parser.st # "body", parser.cur, 0, Sent, Upgraded)
  BY <1>0, <1>4, <1>5 DEF Scripted
<1>7. \A i \in 1..Len(Stream) : Stream[i].t = "W"
  <2>1. \A i \in 1..Len(Stream) : i > 0 + 0
    BY <1>0, LenProperties DEF Bytes
  <2> QED BY <1>6, <2>1 DEF Script
<1>8. \A i \in 1..Len(Stream) : FALSE
  BY <1>7 DEF Plain
<1>9. \A i \in 1..Len(parser.data) : FALSE
  BY <1>0, <1>8, DataInStream
<1>10. parser.data = <<>>
  <2>1. Len(parser.data) \in Nat
    BY <1>0, LenProperties DEF Bytes
  <2>2. Len(parser.data) # 0 => 1 \in 1..Len(parser.data)
    BY <2>1
  <2>3. Len(parser.data) = 0
    BY <1>9, <2>2
  <2> QED BY <1>0, <2>3, EmptySeq DEF Bytes
<1>11. req.requestBuffer = <<>>
  BY <1>0, <1>1 DEF InStep
<1> QED BY <1>10, <1>11

LEMMA NoRestStep ==
  ASSUME IInv, TurnInv, [Next]_vars, BeforeWs, NoRest
  PROVE  NoRest'
<1>0. TypeOK /\ HandedOver /\ Waits /\ req \in Request /\ RequestCompleted(req) \in Request
      /\ req.protocol \in {"HTTP", "WebSockets"}
  BY Types, RequestTypes DEF IInv
<1>1. NoneLeft(bgq')
  <2>1. NoneLeft(bgq) /\ (req.protocol = "WebSockets" => req.requestBuffer = <<>>)
    BY DEF NoRest, NoneLeft
  <2> QED BY <1>0, <2>1, NoneLeftStep
<1>2. ASSUME req'.protocol = "WebSockets" PROVE req'.requestBuffer = <<>>
  <2>1. CASE ReqKept(req, req')
    BY <1>2, <2>1 DEF ReqKept, NoRest
  <2>2. CASE ParseHeadersComplete \/ KeepForLater
    <3>1. parser.exec # "no"
      BY <2>2 DEF ParseHeadersComplete, Executing, KeepForLater, ExecuteReturns
    <3>2. req.protocol = "HTTP"
      BY <1>0, <3>1 DEF HandedOver
    <3> QED BY <1>0, <1>2, <2>2, <3>2, ReqOther
  <2>3. CASE HeadersCompleteComplete
    BY <1>0, <2>3, ReqOther
  <2>4. CASE OnClosed
    BY <1>0, <1>2, <2>4, ReqOther DEF NoRest
  <2>5. CASE PassRequestBuffer
    <3>1. req' = req \/ req' = [req EXCEPT !.requestBuffer = <<>>]
      BY <2>5 DEF PassRequestBuffer
    <3>2. CASE req' = req
      BY <1>2, <3>2 DEF NoRest
    <3>3. CASE req' = [req EXCEPT !.requestBuffer = <<>>]
      BY <1>0, <3>3 DEF Request
    <3> QED BY <3>1, <3>2, <3>3
  <2>6. CASE UpgradeConnection
    <3> DEFINE c == RequestCompleted(req)
               b == c.requestBuffer \o parser.data
    <3>1. parser.exec # "no"
      BY <2>6 DEF UpgradeConnection, ExecuteReturns
    <3>2. req.protocol = "HTTP"
      BY <1>0, <3>1 DEF HandedOver
    <3>3. req.requestBuffer = <<>> /\ parser.data = <<>>
      BY <2>6, <3>2, NothingFollows DEF BeforeWs
    <3>4. \/ req' = req
          \/ req' = [c EXCEPT !.protocol = "WebSockets", !.requestBuffer = b]
          \/ req' = Closed(req)
      BY <2>6 DEF UpgradeConnection
    <3>5. c.requestBuffer = <<>>
      BY <1>0, <3>3 DEF RequestCompleted, Request
    <3>6. b = <<>>
      BY <3>3, <3>5
    <3>7. CASE req' = req \/ req' = Closed(req)
      BY <1>0, <1>2, <3>2, <3>7 DEF Closed, Request
    <3> HIDE DEF c, b
    <3>8. CASE req' = [c EXCEPT !.protocol = "WebSockets", !.requestBuffer = b]
      <4>1. c \in Request
        BY <1>0 DEF c
      <4> QED BY <3>6, <3>8, <4>1 DEF Request
    <3> QED BY <3>4, <3>7, <3>8
  <2> QED BY <1>0, <2>1, <2>2, <2>3, <2>4, <2>5, <2>6, ReqStep
<1> QED BY <1>1, <1>2 DEF NoRest, NoneLeft

LEMMA VInvStep ==
  ASSUME Eager = FALSE, IInv, IInv', Written, TurnInv, AnswerInv, VInv, [Next]_vars
  PROVE  VInv'
<1>1. BeforeWs'
  <2>1. ASSUME req'.protocol = "HTTP" PROVE Plain(Stream') /\ NoSwitch(resp')
    <3>1. req.protocol = "HTTP"
      BY <2>1, NeverHttpAgain
    <3>2. Plain(Stream) /\ NoSwitch(resp)
      BY <3>1 DEF VInv, BeforeWs
    <3> QED BY <2>1, <3>2, PlainStep, SwitchStep
  <2>2. BeforeWs' = (req'.protocol = "HTTP" => Plain(Stream') /\ NoSwitch(resp'))
    BY DEF BeforeWs, Plain, NoSwitch
  <2> QED BY <2>1, <2>2
<1>2. NoRest'
  BY NoRestStep DEF VInv
<1>3. HeardNow'
  BY HeardStep DEF VInv
<1> QED BY <1>1, <1>2, <1>3 DEF VInv

LEMMA InitVInv == Init => VInv
<1> SUFFICES ASSUME Init PROVE VInv
  OBVIOUS
<1>1. /\ req.requestBuffer = <<>> /\ parser.data = <<>> /\ client.net = <<>> /\ resp = <<>>
      /\ later = <<>> /\ bgq = <<>> /\ app.ws = <<>> /\ req.protocol = "HTTP"
  BY DEF Init
<1>2. Len(resp) = 0 /\ Len(later) = 0 /\ Len(bgq) = 0 /\ Len(app.ws) = 0
  BY <1>1
<1>3. Stream = <<>>
  <2>1. (IF Alive THEN client.net ELSE <<>>) = <<>>
    BY <1>1
  <2>2. <<>> \o <<>> = <<>>
    OBVIOUS
  <2> QED BY <1>1, <2>1, <2>2 DEF Stream
<1>4. Len(Stream) = 0
  BY <1>3
<1>5. \A i \in 1..0 : FALSE
  OBVIOUS
<1>6. BeforeWs
  BY <1>2, <1>4, <1>5 DEF BeforeWs, Plain, NoSwitch
<1>7. NoRest
  BY <1>1, <1>2, <1>5 DEF NoRest
<1>8. HeardNow
  BY <1>1, <1>2, <1>5 DEF HeardNow, Heard, WsOrder, NoWs
<1> QED BY <1>6, <1>7, <1>8 DEF VInv

\* R hears of a WebSocket in order, and nothing is left for it to read, while
\* the client waits for its answers and for the 101.
THEOREM WsInv ==
  ASSUME Eager = FALSE
  PROVE  Spec => [](Patient => VInv)
<1>1. Init => (Patient => VInv)
  BY InitVInv
<1>2. ASSUME IInv, PInv, IInv', Patient => VInv, [Next]_vars PROVE (Patient => VInv)'
  <2>1. SUFFICES ASSUME Patient' PROVE VInv'
    OBVIOUS
  <2>2. Patient
    BY <1>2, <2>1, PatientStep DEF IInv
  <2>3. Written /\ TurnInv /\ AnswerInv /\ VInv
    BY <1>2, <2>2 DEF PInv
  <2> QED BY <1>2, <2>3, VInvStep
<1> QED BY <1>1, <1>2, PatientInv, PTL DEF Spec

\* WsCallbacksInOrder for such a client: R is told of a WebSocket first that it
\* is open, and once, then of its messages, and last of its end, whoever closes
\* the connection, and however often (_call_r_on_ws_open, onWSMessage, close).
THEOREM WsCallbacksInOrderHolds ==
  ASSUME Eager = FALSE
  PROVE  Spec => [](Patient => WsCallbacksInOrder)
<1>1. IInv /\ (Patient => VInv) => (Patient => WsCallbacksInOrder)
  <2> SUFFICES ASSUME IInv, VInv PROVE WsCallbacksInOrder
    OBVIOUS
  <2>1. app.ws \in Seq(WsEvent)
    BY Types DEF IInv, Application, WsEvent
  <2>2. DOMAIN app.ws = 1..Len(app.ws)
    BY <2>1, LenProperties
  <2> QED BY <2>2 DEF VInv, HeardNow, Heard, WsOrder, WsCallbacksInOrder
<1> QED BY <1>1, IndInv, WsInv, PTL
===============================================================================
