------------------------- MODULE ResponseBodyProofs -------------------------
(***************************************************************************)
(* Proofs about ResponseBody, for bodies and buffers of every size: who    *)
(* owns each malloced buffer, and that a body under way is never forgotten.*)
(* The argument counts the write requests in libuv's hands, wherever they  *)
(* are: in the write queue, among the completed ones or among those whose  *)
(* callbacks are running.                                                  *)
(***************************************************************************)
EXTENDS ResponseBody, SequencesExt, SequenceTheorems, FiniteSetTheorems,
        FunctionTheorems, WellFoundedInduction, TLAPS

(* Facts about sequences that the proofs below use.                         *)

\* A function on the first n numbers is a sequence of length n.
LEMMA FunctionIsSeq ==
  ASSUME NEW S, NEW n \in Nat, NEW f \in [1..n -> S]
  PROVE  f \in Seq(S) /\ Len(f) = n
<1>1. Seq(S) = UNION {[1..m -> S] : m \in Nat}
  BY SeqDef, Zenon
<1>2. [1..n -> S] \in {[1..m -> S] : m \in Nat}
  BY Zenon
<1>3. f \in Seq(S)
  BY <1>1, <1>2, Zenon
<1>4. Len(f) \in Nat /\ DOMAIN f = 1..Len(f) /\ DOMAIN f = 1..n
  BY <1>3, LenProperties
<1>5. 1..Len(f) = 1..n
  BY <1>4
<1> QED BY <1>3, <1>4, <1>5

\* Popping the front keeps the order and brings in nothing new.
LEMMA TailRange ==
  ASSUME NEW S, NEW s \in Seq(S), s # <<>>
  PROVE  /\ Head(s) \in S /\ Tail(s) \in Seq(S) /\ Head(s) = s[1]
         /\ Len(s) \in Nat \ {0} /\ Len(Tail(s)) = Len(s) - 1
         /\ \A i \in 1..Len(Tail(s)) : Tail(s)[i] = s[i + 1]
         /\ Range(s) = {Head(s)} \cup Range(Tail(s))
<1>1. /\ Head(s) \in S /\ Tail(s) \in Seq(S) /\ Head(s) = s[1]
      /\ Len(s) \in Nat \ {0} /\ Len(Tail(s)) = Len(s) - 1
      /\ \A i \in 1..Len(Tail(s)) : Tail(s)[i] = s[i + 1]
  BY HeadTailProperties, EmptySeq
<1>2. Range(s) = {Head(s)} \cup Range(Tail(s))
  <2> DEFINE t == Tail(s)
  <2>1. Range(s) = {s[i] : i \in 1..Len(s)} /\ Range(t) = {t[i] : i \in 1..Len(t)}
    BY <1>1, RangeEquality, ZenonT(40)
  <2> HIDE DEF t
  <2>2. ASSUME NEW x \in Range(s) PROVE x \in {Head(s)} \cup Range(t)
    <3>1. PICK i \in 1..Len(s) : s[i] = x
      BY <2>1
    <3>2. CASE i = 1
      BY <1>1, <3>1, <3>2
    <3>3. CASE i # 1
      <4>1. i - 1 \in 1..Len(t) /\ t[i - 1] = s[i]
        BY <1>1, <3>3 DEF t
      <4> QED BY <2>1, <3>1, <4>1
    <3> QED BY <3>2, <3>3
  <2>3. ASSUME NEW x \in {Head(s)} \cup Range(t) PROVE x \in Range(s)
    <3>1. CASE x = Head(s)
      BY <1>1, <2>1, <3>1
    <3>2. CASE x \in Range(t)
      <4>1. PICK i \in 1..Len(t) : t[i] = x
        BY <2>1, <3>2
      <4>2. i + 1 \in 1..Len(s) /\ s[i + 1] = x
        BY <1>1, <4>1 DEF t
      <4> QED BY <2>1, <4>2
    <3> QED BY <3>1, <3>2
  <2> QED BY <2>2, <2>3 DEF t
<1> QED BY <1>1, <1>2

(* How many elements of a queue are in a set.                               *)
CountIn(s, S) == Cardinality({i \in DOMAIN s : s[i] \in S})

\* The count is a number, and nothing is in the empty queue.
LEMMA CountType ==
  ASSUME NEW T, NEW s \in Seq(T), NEW S
  PROVE  /\ IsFiniteSet({i \in DOMAIN s : s[i] \in S})
         /\ CountIn(s, S) \in Nat
         /\ CountIn(<<>>, S) = 0
<1> DEFINE P == {i \in DOMAIN s : s[i] \in S}
<1>1. DOMAIN s = 1..Len(s) /\ Len(s) \in Nat
  BY LenProperties
<1>2. IsFiniteSet(1..Len(s))
  BY <1>1, FS_Interval
<1>3. P \in SUBSET (1..Len(s))
  BY <1>1
<1>4. IsFiniteSet(P)
  BY <1>2, <1>3, FS_Subset
<1>5. CountIn(s, S) \in Nat
  BY <1>4, FS_CardinalityType DEF CountIn
<1>6. {i \in DOMAIN <<>> : (<<>>)[i] \in S} = {}
  OBVIOUS
<1> QED BY <1>4, <1>5, <1>6, FS_EmptySet DEF CountIn

\* Two queues put together have the elements of both.
LEMMA CountConcat ==
  ASSUME NEW T, NEW s \in Seq(T), NEW t \in Seq(T), NEW S
  PROVE  CountIn(s \o t, S) = CountIn(s, S) + CountIn(t, S)
<1> DEFINE st == s \o t
           m == Len(s)
           n == Len(t)
           A == {i \in DOMAIN s : s[i] \in S}
           B == {i \in DOMAIN t : t[i] \in S}
           B2 == {i \in m + 1 .. m + n : st[i] \in S}
           C == {i \in DOMAIN st : st[i] \in S}
           f == [i \in B |-> m + i]
<1>1. /\ st \in Seq(T) /\ Len(st) = m + n /\ m \in Nat /\ n \in Nat
      /\ \A i \in 1..m + n : st[i] = IF i <= m THEN s[i] ELSE t[i - m]
      /\ DOMAIN s = 1..m /\ DOMAIN t = 1..n
  BY ConcatProperties, LenProperties
<1>2. DOMAIN st = 1..m + n
  BY <1>1, LenProperties
<1>3. IsFiniteSet(A) /\ IsFiniteSet(B) /\ IsFiniteSet(C)
  BY <1>1, CountType
<1> HIDE DEF st, m, n
<1>4. C = A \cup B2 /\ A \cap B2 = {}
  BY <1>1, <1>2
<1>5. f \in Bijection(B, B2)
  <2>1. \A i \in B : m + i \in B2
    BY <1>1
  <2>2. f \in [B -> B2]
    BY <2>1
  <2>3. \A i, j \in B : f[i] = f[j] => i = j
    BY <1>1
  <2>4. ASSUME NEW k \in B2 PROVE \E i \in B : f[i] = k
    <3>1. k - m \in B /\ f[k - m] = k
      BY <1>1
    <3> QED BY <3>1
  <2> HIDE DEF f
  <2> QED BY <2>2, <2>3, <2>4, Fun_IsBij
<1>6. IsFiniteSet(B2) /\ Cardinality(B2) = Cardinality(B)
  BY <1>3, <1>5, FS_Bijection DEF ExistsBijection
<1> HIDE DEF A, B, B2, C, f
<1>7. Cardinality(C) = Cardinality(A) + Cardinality(B2) - Cardinality(A \cap B2)
  BY <1>3, <1>4, <1>6, FS_Union
<1>8. Cardinality(A \cap B2) = 0 /\ Cardinality(A) \in Nat /\ Cardinality(B) \in Nat
  BY <1>3, <1>4, FS_EmptySet, FS_CardinalityType
<1>9. Cardinality(C) = Cardinality(A) + Cardinality(B)
  BY <1>6, <1>7, <1>8
<1> QED BY <1>9 DEF A, B, C, st, CountIn

\* An element that is appended counts if it is in the set.
LEMMA CountAppend ==
  ASSUME NEW T, NEW s \in Seq(T), NEW e \in T, NEW S
  PROVE  CountIn(Append(s, e), S) = CountIn(s, S) + IF e \in S THEN 1 ELSE 0
<1> DEFINE one == <<e>>
<1>1. one \in Seq(T) /\ Append(s, e) = s \o one
  BY AppendIsConcat
<1>2. CountIn(one, S) = IF e \in S THEN 1 ELSE 0
  <2>1. {i \in DOMAIN one : one[i] \in S} = IF e \in S THEN {1} ELSE {}
    OBVIOUS
  <2> QED BY <2>1, FS_EmptySet, FS_Singleton DEF CountIn
<1> HIDE DEF one
<1>3. CountIn(s \o one, S) = CountIn(s, S) + CountIn(one, S)
  BY <1>1, CountConcat
<1> QED BY <1>1, <1>2, <1>3

\* An element that is taken from the front no longer counts.
LEMMA CountTail ==
  ASSUME NEW T, NEW s \in Seq(T), s # <<>>, NEW S
  PROVE  CountIn(s, S) = CountIn(Tail(s), S) + IF Head(s) \in S THEN 1 ELSE 0
<1> DEFINE h == Head(s)
           t == Tail(s)
           none == <<>>
           one == Append(none, h)
<1>1. h \in T /\ t \in Seq(T) /\ s = <<h>> \o t
  BY HeadTailProperties
<1>2. none \in Seq(T) /\ CountIn(none, S) = 0 /\ CountIn(t, S) \in Nat
  <2>1. CountIn(<<>>, S) = 0
    BY CountType, Zenon
  <2>2. CountIn(t, S) \in Nat
    BY <1>1, CountType, Zenon
  <2>3. none \in Seq(T)
    OBVIOUS
  <2> QED BY <2>1, <2>2, <2>3
<1>3. one \in Seq(T) /\ s = one \o t
  BY <1>1
<1> HIDE DEF h, t, none
<1>4. CountIn(one, S) = CountIn(none, S) + IF h \in S THEN 1 ELSE 0
  BY <1>1, <1>2, CountAppend
<1> HIDE DEF one
<1>5. CountIn(one \o t, S) = CountIn(one, S) + CountIn(t, S)
  BY <1>1, <1>3, CountConcat
<1>6. CountIn(s, S) = CountIn(t, S) + IF h \in S THEN 1 ELSE 0
  BY <1>2, <1>3, <1>4, <1>5
<1> QED BY <1>6 DEF h, t

\* Elements may be replaced by others of the same kind.
LEMMA CountAlike ==
  ASSUME NEW T, NEW s \in Seq(T), NEW t \in Seq(T), NEW S, Len(s) = Len(t),
         \A i \in 1..Len(s) : s[i] \in S <=> t[i] \in S
  PROVE  CountIn(s, S) = CountIn(t, S)
<1>1. DOMAIN s = 1..Len(s) /\ DOMAIN t = 1..Len(s)
  BY LenProperties
<1>2. {i \in DOMAIN s : s[i] \in S} = {i \in DOMAIN t : t[i] \in S}
  BY <1>1
<1> QED BY <1>2 DEF CountIn

\* Something that is there is counted.
LEMMA CountPositive ==
  ASSUME NEW T, NEW s \in Seq(T), NEW S, NEW i \in DOMAIN s, s[i] \in S
  PROVE  CountIn(s, S) > 0
<1> DEFINE P == {j \in DOMAIN s : s[j] \in S}
<1>1. P # {} /\ IsFiniteSet(P)
  BY CountType
<1>2. Cardinality(P) # 0 /\ Cardinality(P) \in Nat
  BY <1>1, FS_EmptySet, FS_CardinalityType
<1> QED BY <1>2 DEF CountIn

-----------------------------------------------------------------------------
(* The kinds of write requests that are counted. *)
Bodies == {r \in WriteReq : r.who = "body"}
OwnedBodies == {r \in Bodies : r.owned}
Heads == {r \in WriteReq : r.who = "head"}
Others == {r \in WriteReq : r.who = "other"}
Kinds == {Bodies, OwnedBodies, Heads, Others}

Pending(st, S) == CountIn(st.queue, S) + CountIn(st.completed, S)
InHands(S) == Pending(stream, S) + CountIn(bg.pq, S)

One(p) == IF p THEN 1 ELSE 0

(* The thread is inside ExtendedWrite::next. *)
InNext == bg.at \in {"next", "gzip", "write"}

(* The response is held by the one who has to go on with it: the head's    *)
(* write is in libuv's hands exactly while it is held by that write, and   *)
(* the ExtendedWrite exists exactly while it holds it.                     *)
HolderInv ==
    /\ ew.alive <=> resp.heldBy = "body"
    /\ InHands(Heads) = One(resp.heldBy = "write")
    /\ InHands(Others) > 0 => env.other
    /\ resp.heldBy # "nobody" /\ resp.body => src.open
    /\ ew.alive => resp.body
    /\ env.readError => resp.heldBy = "nobody"

(* There is at most one body write at a time, none while next() runs, and  *)
(* outside of next() the body is waiting for one, but for the exceptions.  *)
OneWriteInv ==
    /\ ew.active = InHands(Bodies) + One(env.refused)
    /\ ew.active <= 1
    /\ ~ew.alive => ew.active = 0
    /\ InNext => ew.alive /\ ew.active = 0
    /\ ew.alive /\ ~InNext => ew.active > 0 \/ env.other

(* The malloced output buffers: one for an owned body write, one for       *)
(* next(), and the one that the two leaks lose.                            *)
OutputInv ==
    /\ bg.owned => bg.at \in {"gzip", "write"}
    /\ bg.at = "gzip" => resp.gzip
    /\ heap.out = InHands(OwnedBodies) + One(bg.owned)
       \/ /\ heap.out = InHands(OwnedBodies) + One(bg.owned) + 1
          /\ env.refused \/ (env.readError /\ resp.gzip)

(* zlib's input buffer. *)
InputInv ==
    /\ heap.in = InputBufs(gz)
    /\ (gz.in # <<>> /\ src.kind = "file") => gz.inBuf
    /\ gz.in # <<>> => ew.alive

IInv == TypeOK /\ HolderInv /\ OneWriteInv /\ OutputInv /\ InputInv

-----------------------------------------------------------------------------
(* Write requests and the stream.                                           *)

\* A request of each of the three kinds is well typed.
LEMMA ReqTyped ==
  ASSUME NEW who \in {"head", "body", "other"}, NEW units \in Seq(Unit),
         NEW owned \in BOOLEAN
  PROVE  /\ Req(who, units, owned) \in WriteReq
         /\ Req(who, units, owned) \in Bodies <=> who = "body"
         /\ Req(who, units, owned) \in OwnedBodies <=> who = "body" /\ owned
         /\ Req(who, units, owned) \in Heads <=> who = "head"
         /\ Req(who, units, owned) \in Others <=> who = "other"
<1> DEFINE r == Req(who, units, owned)
<1>1. r \in WriteReq
  BY DEF Req, WriteReq
<1>2. r.who = who /\ r.owned = owned
  BY DEF Req
<1> HIDE DEF r
<1>3. /\ r \in Bodies <=> who = "body"
      /\ r \in OwnedBodies <=> who = "body" /\ owned
      /\ r \in Heads <=> who = "head"
      /\ r \in Others <=> who = "other"
  BY <1>1, <1>2, Zenon DEF Bodies, OwnedBodies, Heads, Others
<1> QED BY <1>1, <1>3, Zenon DEF r

\* The kind of a request depends on who wrote it and whether its buffer is
\* malloced, not on what is left of it or how it ended.
LEMMA KindStays ==
  ASSUME NEW r \in WriteReq, NEW q \in WriteReq, r.who = q.who, r.owned = q.owned,
         NEW S \in Kinds
  PROVE  r \in S <=> q \in S
BY DEF Kinds, Bodies, OwnedBodies, Heads, Others

\* One attempt at writing moves requests from the queue to the completed
\* ones, and loses or invents none.
LEMMA AttemptEffect ==
  ASSUME NEW st \in Stream, NEW least \in Nat, NEW t \in Attempt(st, least)
  PROVE  /\ t \in Stream /\ t.fd = st.fd
         /\ \A S \in Kinds : Pending(t, S) = Pending(st, S)
<1>1. CASE st.queue = <<>>
  BY <1>1 DEF Attempt
<1>2. CASE st.queue # <<>>
  <2> DEFINE req == Head(st.queue)
             Rest == Tail(st.queue)
             Through(r) == [st EXCEPT !.queue = Tail(@), !.completed = Append(@, r)]
  <2>1. /\ st.queue \in Seq(WriteReq) /\ st.completed \in Seq(WriteReq)
        /\ st.sent \in Seq(Unit)
    BY DEF Stream
  <2>2. /\ req \in WriteReq /\ Rest \in Seq(WriteReq) /\ req = st.queue[1]
        /\ Len(st.queue) \in Nat \ {0}
    BY <1>2, <2>1, TailRange, Zenon
  <2>3. \A S : CountIn(st.queue, S) = CountIn(Rest, S) + IF req \in S THEN 1 ELSE 0
    BY <1>2, <2>1, CountTail, Zenon
  <2>4. \A S : /\ CountIn(st.queue, S) \in Nat /\ CountIn(st.completed, S) \in Nat
               /\ CountIn(Rest, S) \in Nat
    BY <2>1, <2>2, CountType, Zenon
  <2>5. ASSUME NEW r \in WriteReq, r.who = req.who, r.owned = req.owned
        PROVE  /\ Through(r) \in Stream /\ Through(r).fd = st.fd
               /\ \A S \in Kinds : Pending(Through(r), S) = Pending(st, S)
    <3> HIDE DEF req, Rest
    <3>1. Append(st.completed, r) \in Seq(WriteReq)
      BY <2>1, <2>5
    <3>2. /\ Through(r) \in Stream /\ Through(r).fd = st.fd
          /\ Through(r).queue = Rest /\ Through(r).completed = Append(st.completed, r)
      BY <2>2, <3>1 DEF Stream, Rest
    <3> HIDE DEF Through
    <3>3. ASSUME NEW S \in Kinds PROVE Pending(Through(r), S) = Pending(st, S)
      <4>1. r \in S <=> req \in S
        BY <2>2, <2>5, KindStays
      <4>2. CountIn(Append(st.completed, r), S)
              = CountIn(st.completed, S) + IF r \in S THEN 1 ELSE 0
        BY <2>1, <2>5, CountAppend
      <4>3. CountIn(st.queue, S) = CountIn(Rest, S) + IF req \in S THEN 1 ELSE 0
        BY <2>3
      <4>4. /\ CountIn(st.queue, S) \in Nat /\ CountIn(st.completed, S) \in Nat
            /\ CountIn(Rest, S) \in Nat
        BY <2>4
      <4> QED BY <3>2, <4>1, <4>2, <4>3, <4>4 DEF Pending
    <3> QED BY <3>2, <3>3
  <2>6. CASE st.broken
    <3> DEFINE r == [req EXCEPT !.err = TRUE]
    <3>1. t = Through(r)
      BY <1>2, <2>6 DEF Attempt
    <3>2. r \in WriteReq /\ r.who = req.who /\ r.owned = req.owned
      BY <2>2 DEF WriteReq
    <3> QED BY <2>5, <3>1, <3>2
  <2>7. CASE ~st.broken
    <3> DEFINE Left(n) == SubSeq(req.units, n + 1, Len(req.units))
               Gone(n) == SubSeq(req.units, 1, n)
               Step(n) == IF Left(n) = <<>> THEN Through([req EXCEPT !.units = <<>>])
                          ELSE [st EXCEPT !.queue[1].units = Left(n)]
    <3>1. PICK n \in least .. Len(req.units) :
            t = [Step(n) EXCEPT !.sent = @ \o Gone(n)]
      BY <1>2, <2>7 DEF Attempt
    <3>2. req.units \in Seq(Unit) /\ Len(req.units) \in Nat /\ n \in 0 .. Len(req.units)
      BY <2>2 DEF WriteReq
    <3>3. Left(n) \in Seq(Unit) /\ Gone(n) \in Seq(Unit)
      BY <3>2, SubSeqProperties
    <3> DEFINE u == Step(n)
    <3>4. u \in Stream /\ u.fd = st.fd /\ \A S \in Kinds : Pending(u, S) = Pending(st, S)
      <4>1. CASE Left(n) = <<>>
        <5> DEFINE r == [req EXCEPT !.units = <<>>]
        <5>1. r \in WriteReq /\ r.who = req.who /\ r.owned = req.owned
          <6>1. <<>> \in Seq(Unit) /\ req \in WriteReq
            BY <2>2
          <6> HIDE DEF req
          <6> QED BY <6>1 DEF WriteReq
        <5>2. u = Through(r)
          BY <4>1
        <5> QED BY <2>5, <5>1, <5>2
      <4>2. CASE Left(n) # <<>>
        <5> DEFINE r == [req EXCEPT !.units = Left(n)]
                   q == [st.queue EXCEPT ![1] = r]
        <5>1. r \in WriteReq /\ r.who = req.who /\ r.owned = req.owned
          BY <2>2, <3>3 DEF WriteReq
        <5>2. u = [st EXCEPT !.queue = q]
          <6>1. u = [st EXCEPT !.queue[1].units = Left(n)]
            BY <4>2
          <6> HIDE DEF u, Left
          <6> QED BY <2>2, <6>1
        <5> HIDE DEF r, req, u
        <5>3. q \in Seq(WriteReq) /\ Len(q) = Len(st.queue) /\ q[1] = r
              /\ \A i \in 2 .. Len(q) : q[i] = st.queue[i]
          BY <2>1, <2>2, <5>1
        <5> HIDE DEF q
        <5>4. u \in Stream /\ u.fd = st.fd /\ u.queue = q /\ u.completed = st.completed
          BY <5>2, <5>3 DEF Stream
        <5>5. ASSUME NEW S \in Kinds PROVE Pending(u, S) = Pending(st, S)
          <6>1. r \in S <=> req \in S
            BY <2>2, <5>1, KindStays
          <6>2. ASSUME NEW i \in 1 .. Len(q) PROVE q[i] \in S <=> st.queue[i] \in S
            BY <2>2, <5>3, <6>1
          <6>3. CountIn(q, S) = CountIn(st.queue, S)
            BY <2>1, <5>3, <6>2, CountAlike
          <6> QED BY <5>4, <6>3 DEF Pending
        <5> QED BY <5>4, <5>5
      <4> QED BY <4>1, <4>2
    <3> HIDE DEF u, Gone
    <3>5. u.sent \in Seq(Unit) /\ t = [u EXCEPT !.sent = @ \o Gone(n)]
      BY <3>1, <3>4 DEF u, Stream
    <3>6. u.sent \o Gone(n) \in Seq(Unit)
      BY <3>3, <3>5, ConcatProperties
    <3>7. t \in Stream /\ t.fd = u.fd /\ t.queue = u.queue /\ t.completed = u.completed
      BY <3>4, <3>5, <3>6 DEF Stream
    <3> QED BY <3>4, <3>7, Zenon DEF Pending
  <2> QED BY <2>6, <2>7
<1> QED BY <1>1, <1>2

\* uv_write adds its request to those in libuv's hands.
LEMMA WriteEffect ==
  ASSUME NEW st \in Stream, NEW pq, NEW req \in WriteReq, NEW t \in uv_write(st, pq, req)
  PROVE  /\ t \in Stream /\ t.fd = st.fd
         /\ \A S \in Kinds : Pending(t, S) = Pending(st, S) + One(req \in S)
<1> DEFINE queued == [st EXCEPT !.queue = Append(@, req)]
<1>1. st.queue \in Seq(WriteReq) /\ st.completed \in Seq(WriteReq)
  BY DEF Stream
<1>2. Append(st.queue, req) \in Seq(WriteReq)
  BY <1>1
<1>3. /\ queued \in Stream /\ queued.fd = st.fd /\ queued.completed = st.completed
      /\ queued.queue = Append(st.queue, req)
  BY <1>2 DEF Stream
<1>4. t \in Attempt(queued, 0) \/ t = queued
  BY DEF uv_write
<1> HIDE DEF queued
<1>5. ASSUME NEW S \in Kinds PROVE Pending(queued, S) = Pending(st, S) + One(req \in S)
  <2>1. CountIn(Append(st.queue, req), S) = CountIn(st.queue, S) + IF req \in S THEN 1 ELSE 0
    BY <1>1, CountAppend
  <2>2. CountIn(st.queue, S) \in Nat /\ CountIn(st.completed, S) \in Nat
    BY <1>1, CountType
  <2> QED BY <1>3, <2>1, <2>2 DEF Pending, One
<1>6. CASE t = queued
  BY <1>3, <1>5, <1>6
<1>7. CASE t \in Attempt(queued, 0)
  <2>1. t \in Stream /\ t.fd = queued.fd /\ \A S \in Kinds : Pending(t, S) = Pending(queued, S)
    BY <1>3, <1>7, AttemptEffect
  <2> QED BY <1>3, <1>5, <2>1
<1> QED BY <1>4, <1>6, <1>7

\* What is in libuv's hands is a natural number of requests of each kind.
LEMMA HandsTyped ==
  ASSUME TypeOK, NEW S
  PROVE  /\ Pending(stream, S) \in Nat /\ CountIn(bg.pq, S) \in Nat
         /\ CountIn(<<>>, S) = 0
<1>1. stream.queue \in Seq(WriteReq) /\ stream.completed \in Seq(WriteReq) /\ bg.pq \in Seq(WriteReq)
  BY DEF TypeOK, Stream, Thread
<1>2. CountIn(stream.queue, S) \in Nat /\ CountIn(stream.completed, S) \in Nat
  BY <1>1, CountType
<1>3. CountIn(bg.pq, S) \in Nat /\ CountIn(<<>>, S) = 0
  BY <1>1, CountType, Zenon
<1> QED BY <1>2, <1>3 DEF Pending

\* The counts of the properties are the counts of the invariant.
LEMMA InFlightCounts ==
  ASSUME TypeOK
  PROVE  InFlight(BodyAt) = InHands(Bodies) /\ InFlight(OwnedAt) = InHands(OwnedBodies)
<1>1. stream.queue \in Seq(WriteReq) /\ stream.completed \in Seq(WriteReq) /\ bg.pq \in Seq(WriteReq)
  BY DEF TypeOK, Stream, Thread
<1>2. ASSUME NEW q \in Seq(WriteReq)
      PROVE  /\ BodyAt(q) = {i \in DOMAIN q : q[i] \in Bodies}
             /\ OwnedAt(q) = {i \in DOMAIN q : q[i] \in OwnedBodies}
  <2>1. \A i \in DOMAIN q : q[i] \in WriteReq
    BY ElementOfSeq, LenProperties
  <2> QED BY <2>1, Zenon DEF BodyAt, OwnedAt, Bodies, OwnedBodies
<1>3. ASSUME NEW q \in Seq(WriteReq)
      PROVE  /\ Cardinality(BodyAt(q)) = CountIn(q, Bodies)
             /\ Cardinality(OwnedAt(q)) = CountIn(q, OwnedBodies)
  BY <1>2 DEF CountIn
<1> QED BY <1>1, <1>3 DEF InFlight, InHands, Pending

-----------------------------------------------------------------------------
(* Data.                                                                    *)

\* What a DataSource gives is a sequence of bytes.
LEMMA GetDataTyped ==
  ASSUME NEW s \in DataSource, NEW n \in Nat
  PROVE  GetData(s, n) \in Seq(Nat) /\ Len(GetData(s, n)) \in Nat
<1> DEFINE left == IF s.real > s.pos THEN s.real - s.pos ELSE 0
           k == IF n < left THEN n ELSE left
           f == [i \in 1..k |-> s.pos + i]
<1>1. s.real \in Nat /\ s.pos \in Nat
  BY DEF DataSource
<1>2. k \in Nat
  BY <1>1
<1> HIDE DEF k
<1>3. f \in Seq(Nat)
  <2>1. \A i \in 1..k : s.pos + i \in Nat
    BY <1>1, <1>2
  <2> QED BY <1>2, <2>1, IsASeq
<1>4. GetData(s, n) = f
  BY DEF GetData, k
<1> HIDE DEF f
<1> QED BY <1>3, <1>4, LenProperties

\* Reading moves the position in the file or in memory.
LEMMA PosMoves ==
  ASSUME NEW s \in DataSource, NEW n \in Nat, NEW t, t = [s EXCEPT !.pos = @ + n]
  PROVE  t \in DataSource /\ t.open = s.open /\ t.kind = s.kind
<1> DEFINE p == s.pos + n
<1>1. s.pos \in Nat
  BY DEF DataSource
<1>2. p \in Nat /\ t = [s EXCEPT !.pos = p]
  BY <1>1
<1> HIDE DEF p
<1> QED BY <1>2 DEF DataSource

\* Its bytes, as they are or compressed, are units of data.
LEMMA ApplyTyped ==
  ASSUME NEW s \in Seq(Nat)
  PROVE  Apply(Byte, s) \in Seq(Unit) /\ Apply(Compressed, s) \in Seq(Unit)
<1>1. DOMAIN s = 1..Len(s) /\ Len(s) \in Nat /\ \A i \in 1..Len(s) : s[i] \in Nat
  BY LenProperties, ElementOfSeq
<1>2. \A i \in 1..Len(s) : <<"b", s[i]>> \in Unit /\ <<"z", s[i]>> \in Unit
  BY <1>1 DEF Unit
<1> DEFINE bytes == [i \in 1..Len(s) |-> <<"b", s[i]>>]
           zipped == [i \in 1..Len(s) |-> <<"z", s[i]>>]
<1>3. bytes \in [1..Len(s) -> Unit] /\ zipped \in [1..Len(s) -> Unit]
  BY <1>2
<1>4. Apply(Byte, s) = bytes /\ Apply(Compressed, s) = zipped
  BY <1>1 DEF Apply, Byte, Compressed
<1> HIDE DEF bytes, zipped
<1>5. bytes \in Seq(Unit) /\ zipped \in Seq(Unit)
  BY <1>1, <1>3, FunctionIsSeq
<1> QED BY <1>4, <1>5

\* The head, and the body of a 101 behind it.
LEMMA HeadTyped ==
  ASSUME NEW r \in HttpResponse, NEW s \in DataSource
  PROVE  HeadUnits(r, s) \in Seq(Unit)
<1> DEFINE n == IF Framing(r) = "length" THEN r.size ELSE NoLength
           more == IF Inlines(r) THEN Apply(Byte, GetData(s, r.size)) ELSE <<>>
<1>1. r.size \in Nat
  BY DEF HttpResponse
<1>2. n \in Nat
  BY <1>1, LimitsAssumption DEF NoLength
<1>3. Apply(Byte, GetData(s, r.size)) \in Seq(Unit)
  BY <1>1, GetDataTyped, ApplyTyped
<1>4. more \in Seq(Unit)
  BY <1>3
<1> HIDE DEF n, more
<1>5. <<"head", n>> \in Unit
  BY <1>2 DEF Unit
<1>6. <<<<"head", n>>>> \in Seq(Unit)
  BY <1>5
<1>7. <<<<"head", n>>>> \o more \in Seq(Unit)
  BY <1>4, <1>6, ConcatProperties
<1> QED BY <1>7 DEF HeadUnits, n, more

\* The buffer that next() writes, in its framing.
BodyUnits(chunked, buf) ==
    IF chunked THEN IF buf = <<>> THEN <<LastChunk>>
                    ELSE <<ChunkSize(Len(buf))>> \o buf \o <<ChunkEnd>>
    ELSE buf

\* They are units of data, with or without the chunk around them.
LEMMA BodyUnitsTyped ==
  ASSUME NEW chunked \in BOOLEAN, NEW buf \in Seq(Unit)
  PROVE  BodyUnits(chunked, buf) \in Seq(Unit)
<1>1. Len(buf) \in Nat
  OBVIOUS
<1> DEFINE first == ChunkSize(Len(buf))
<1>2. LastChunk \in Unit /\ ChunkEnd \in Unit /\ first \in Unit
  BY <1>1 DEF LastChunk, ChunkEnd, ChunkSize, Unit
<1> HIDE DEF first
<1>3. <<LastChunk>> \in Seq(Unit) /\ <<ChunkEnd>> \in Seq(Unit) /\ <<first>> \in Seq(Unit)
  BY <1>2
<1> DEFINE one == <<first>>
           last == <<ChunkEnd>>
<1>4. one \in Seq(Unit) /\ last \in Seq(Unit)
  BY <1>3
<1> HIDE DEF one, last
<1>5. (one \o buf) \o last \in Seq(Unit)
  BY <1>4, ConcatProperties
<1>6. CASE chunked /\ buf = <<>>
  BY <1>3, <1>6 DEF BodyUnits
<1>7. CASE chunked /\ buf # <<>>
  <2>1. BodyUnits(chunked, buf) = (one \o buf) \o last
    BY <1>7 DEF BodyUnits, one, last, first
  <2> QED BY <1>5, <2>1
<1>8. CASE ~chunked
  BY <1>8 DEF BodyUnits
<1> QED BY <1>6, <1>7, <1>8

\* zlib gives units of data, keeps the buffer its input is in, and has input
\* left only of what it was given.
LEMMA DeflateEffect ==
  ASSUME NEW g \in GZipDataSource, Len(g.out) < Window, NEW h \in Deflate(g)
  PROVE  /\ h \in GZipDataSource /\ h.inBuf = g.inBuf
         /\ h.in # <<>> => g.in # <<>>
<1> DEFINE room == Window - Len(g.out)
           taken(k) == g.held \o Apply(Compressed, SubSeq(g.in, 1, k))
           given(k) == { n \in 0 .. room :
                           n <= Len(g.held) + k /\ (k = Len(g.in) \/ n = room) }
           After(all, k, n) ==
               [g EXCEPT !.in = SubSeq(@, k + 1, Len(@)),
                         !.held = SubSeq(all, n + 1, Len(all)),
                         !.out = @ \o SubSeq(all, 1, n)]
<1>0. Window \in Nat
  BY WindowAssumption
<1>1. /\ g.in \in Seq(Nat) /\ g.held \in Seq(Unit) /\ g.out \in Seq(Unit)
      /\ Len(g.in) \in Nat /\ Len(g.held) \in Nat /\ Len(g.out) \in Nat
  BY LenProperties DEF GZipDataSource
<1>2. ASSUME NEW k \in 0 .. Len(g.in), NEW all \in Seq(Unit), NEW n \in 0 .. Len(all)
      PROVE  /\ After(all, k, n) \in GZipDataSource /\ After(all, k, n).inBuf = g.inBuf
             /\ After(all, k, n).in # <<>> => g.in # <<>>
  <2>1. Len(all) \in Nat
    BY LenProperties
  <2>2. SubSeq(g.in, k + 1, Len(g.in)) \in Seq(Nat)
        /\ (g.in = <<>> => SubSeq(g.in, k + 1, Len(g.in)) = <<>>)
    BY <1>1, SubSeqProperties
  <2>3. SubSeq(all, n + 1, Len(all)) \in Seq(Unit) /\ SubSeq(all, 1, n) \in Seq(Unit)
    BY <2>1, SubSeqProperties
  <2>4. g.out \o SubSeq(all, 1, n) \in Seq(Unit)
    BY <1>1, <2>3, ConcatProperties
  <2> QED BY <2>2, <2>3, <2>4 DEF GZipDataSource
<1>3. CASE g.state = "Finishing"
  <2> DEFINE all == g.held \o <<GzEnd>>
             n == IF Len(all) < room THEN Len(all) ELSE room
  <2>1. GzEnd \in Unit
    BY DEF GzEnd, Unit
  <2>2. <<GzEnd>> \in Seq(Unit) /\ Len(<<GzEnd>>) = 1
    BY <2>1
  <2>3. all \in Seq(Unit) /\ Len(all) = Len(g.held) + 1
    BY <1>1, <2>2, ConcatProperties
  <2>4. room \in Nat /\ Len(all) \in Nat /\ n \in 0 .. Len(all)
    BY <1>0, <1>1, <2>3
  <2>5. CASE n = Len(all)
    <3>1. h = [After(all, 0, n) EXCEPT !.state = "Done"]
      BY <1>3, <2>5 DEF Deflate
    <3>2. 0 \in 0 .. Len(g.in)
      BY <1>1
    <3> DEFINE a == After(all, 0, n)
    <3>3. h = [a EXCEPT !.state = "Done"]
      BY <3>1
    <3> HIDE DEF all, n, After
    <3>4. a \in GZipDataSource /\ a.inBuf = g.inBuf /\ (a.in # <<>> => g.in # <<>>)
      BY <1>2, <2>3, <2>4, <3>2
    <3> HIDE DEF a
    <3> QED BY <3>3, <3>4 DEF GZipDataSource
  <2>6. CASE n # Len(all)
    <3>1. h = After(g.held, 0, n)
      BY <1>3, <2>6 DEF Deflate
    <3>2. 0 \in 0 .. Len(g.in) /\ n \in 0 .. Len(g.held)
      BY <1>1, <2>3, <2>4, <2>6
    <3> QED BY <1>1, <1>2, <3>1, <3>2, ZenonT(40)
  <2> QED BY <2>5, <2>6
<1>4. CASE g.state # "Finishing"
  <2>1. PICK k \in 0 .. Len(g.in) : \E n \in given(k) : h = After(taken(k), k, n)
    BY <1>4 DEF Deflate
  <2>2. PICK n \in given(k) : h = After(taken(k), k, n)
    BY <2>1
  <2> DEFINE more == SubSeq(g.in, 1, k)
             zipped == Apply(Compressed, more)
  <2>3. more \in Seq(Nat) /\ Len(more) = k
    BY <1>1
  <2>4. DOMAIN more = 1 .. k
    BY <2>3
  <2>5. zipped \in Seq(Unit) /\ DOMAIN zipped = 1 .. k
    <3> HIDE DEF more
    <3> QED BY <2>3, <2>4, ApplyTyped DEF Apply
  <2>6. taken(k) = g.held \o zipped
    OBVIOUS
  <2> HIDE DEF zipped, taken, After
  <2>7. Len(zipped) = k /\ k \in Nat
    BY <2>5, LenProperties
  <2>8. taken(k) \in Seq(Unit) /\ Len(taken(k)) = Len(g.held) + k
    <3>1. /\ g.held \o zipped \in Seq(Unit)
          /\ Len(g.held \o zipped) = Len(g.held) + Len(zipped)
      BY <1>1, <2>5, ConcatProperties
    <3> QED BY <2>6, <2>7, <3>1
  <2>9. n \in 0 .. Len(taken(k))
    BY <1>0, <1>1, <2>7, <2>8
  <2> QED BY <1>2, <2>2, <2>8, <2>9
<1> QED BY <1>3, <1>4

-----------------------------------------------------------------------------
(* The invariant.                                                           *)

\* It holds before the response is written.
LEMMA InitIInv == Init => IInv
<1> SUFFICES ASSUME Init PROVE IInv
  OBVIOUS
<1>1. PICK r \in Responses :
        /\ resp = [code |-> r.code, body |-> r.kind # "none", size |-> r.size,
                   acceptGzip |-> r.acceptGzip, encoded |-> r.encoded,
                   ownLength |-> r.ownLength, closeAfter |-> r.close,
                   gzip |-> FALSE, framing |-> "undecided", heldBy |-> "scheduled"]
        /\ src = [kind |-> r.kind, pos |-> 0, real |-> r.size, open |-> r.kind # "none"]
  BY DEF Init
<1>2. /\ r.code \in {101, 200} /\ r.kind \in {"none", "memory", "file"} /\ r.size \in Nat
      /\ r.acceptGzip \in BOOLEAN /\ r.encoded \in BOOLEAN
      /\ r.ownLength \in BOOLEAN /\ r.close \in BOOLEAN
  <2>1. r.size \in 0 .. MaxSize
    BY DEF Responses
  <2> QED BY <2>1, LimitsAssumption DEF Responses
<1>3. resp \in HttpResponse /\ src \in DataSource
  BY <1>1, <1>2 DEF HttpResponse, DataSource
<1>4. gz \in GZipDataSource /\ gz.in = <<>> /\ ~gz.inBuf
  <2>1. <<GzHead>> \in Seq(Unit)
    BY DEF GzHead, Unit
  <2>2. gz = [state |-> "Streaming", in |-> <<>>, inBuf |-> FALSE,
              held |-> <<GzHead>>, out |-> <<>>]
    BY DEF Init
  <2> QED BY <2>1, <2>2 DEF GZipDataSource
<1>5. ew \in ExtendedWrite /\ ~ew.alive /\ ew.active = 0
  BY DEF Init, ExtendedWrite
<1>6. stream \in Stream /\ stream.queue = <<>> /\ stream.completed = <<>>
  BY DEF Init, Stream
<1>7. bg \in Thread /\ bg.at = "loop" /\ bg.pq = <<>> /\ ~bg.owned
  BY DEF Init, Thread
<1>8. heap \in [out : Nat, in : Nat] /\ heap.out = 0 /\ heap.in = 0
  BY DEF Init
<1>9. env \in Outside /\ ~env.other /\ ~env.refused /\ ~env.readError
  BY DEF Init, Outside
<1>10. TypeOK
  BY <1>3, <1>4, <1>5, <1>6, <1>7, <1>8, <1>9 DEF TypeOK
<1>11. \A S : CountIn(<<>>, S) = 0
  BY <1>10, HandsTyped, Zenon
<1>12. \A S : InHands(S) = 0
  BY <1>6, <1>7, <1>11 DEF InHands, Pending
<1>13. resp.heldBy = "scheduled" /\ (resp.body => src.open)
  BY <1>1
<1>14. HolderInv
  BY <1>5, <1>9, <1>12, <1>13 DEF HolderInv, One
<1>15. OneWriteInv
  BY <1>5, <1>7, <1>9, <1>12 DEF OneWriteInv, One, InNext
<1>16. OutputInv
  BY <1>7, <1>8, <1>12 DEF OutputInv, One
<1>17. InputInv
  BY <1>4, <1>8 DEF InputInv, InputBufs
<1> QED BY <1>10, <1>14, <1>15, <1>16, <1>17 DEF IInv

\* What the steps of libuv and of the outside leave alone is enough for the
\* invariant.
LEMMA Frame ==
  ASSUME IInv, TypeOK',
         InHands(Bodies)' = InHands(Bodies),
         InHands(OwnedBodies)' = InHands(OwnedBodies),
         InHands(Heads)' = InHands(Heads),
         InHands(Others)' > 0 => env'.other,
         env.other => env'.other,
         env'.refused = env.refused, env'.readError = env.readError,
         bg'.at = bg.at \/ {bg.at, bg'.at} \subseteq {"loop", "callbacks"},
         bg'.owned = bg.owned, src'.open = src.open, src'.kind = src.kind,
         resp' = resp, ew' = ew, gz' = gz, heap' = heap
  PROVE  IInv'
<1>1. InNext' <=> InNext
  BY DEF InNext
<1>2. HolderInv'
  BY DEF IInv, HolderInv
<1>3. OneWriteInv'
  BY <1>1 DEF IInv, OneWriteInv
<1>4. OutputInv'
  BY DEF IInv, OutputInv
<1>5. InputInv'
  BY DEF IInv, InputInv, InputBufs
<1> QED BY <1>2, <1>3, <1>4, <1>5 DEF IInv

\* uv_close only takes the descriptor.
LEMMA CloseEffect ==
  ASSUME NEW st \in Stream
  PROVE  /\ uv_close(st) \in Stream /\ uv_close(st).queue = st.queue
         /\ uv_close(st).completed = st.completed
         /\ \A S : Pending(uv_close(st), S) = Pending(st, S)
<1>1. /\ uv_close(st) \in Stream /\ uv_close(st).queue = st.queue
      /\ uv_close(st).completed = st.completed
  BY DEF uv_close, Stream
<1> QED BY <1>1, Zenon DEF Pending

\* HttpRequest::close, the client's reset and a change of the file.
LEMMA OutsideStep ==
  ASSUME IInv, Close \/ ClientGone \/ FileChanges
  PROVE  IInv'
<1>1. TypeOK
  BY DEF IInv
<1>2. CASE Close
  <2>1. /\ stream' = uv_close(stream) /\ env' = [env EXCEPT !.closed = TRUE]
        /\ resp' = resp /\ src' = src /\ gz' = gz /\ ew' = ew /\ bg' = bg /\ heap' = heap
    BY <1>2 DEF Close
  <2>2. /\ stream' \in Stream /\ \A S : Pending(stream', S) = Pending(stream, S)
    BY <1>1, <2>1, CloseEffect DEF TypeOK
  <2>3. /\ env' \in Outside /\ env'.other = env.other /\ env'.refused = env.refused
        /\ env'.readError = env.readError
    BY <1>1, <2>1 DEF TypeOK, Outside
  <2>4. TypeOK'
    BY <1>1, <2>1, <2>2, <2>3 DEF TypeOK
  <2>5. \A S \in Kinds : InHands(S)' = InHands(S)
    BY <2>1, <2>2 DEF InHands
  <2>6. InHands(Others)' > 0 => env'.other
    BY <2>3, <2>5 DEF IInv, HolderInv, Kinds
  <2> QED BY <2>1, <2>3, <2>4, <2>5, <2>6, Frame DEF Kinds
<1>3. CASE ClientGone
  <2>1. /\ stream' = [stream EXCEPT !.broken = TRUE] /\ env' = env
        /\ resp' = resp /\ src' = src /\ gz' = gz /\ ew' = ew /\ bg' = bg /\ heap' = heap
    BY <1>3 DEF ClientGone
  <2>2. stream' \in Stream /\ stream'.queue = stream.queue /\ stream'.completed = stream.completed
    BY <1>1, <2>1 DEF TypeOK, Stream
  <2>3. TypeOK'
    BY <1>1, <2>1, <2>2 DEF TypeOK
  <2>4. \A S \in Kinds : InHands(S)' = InHands(S)
    BY <2>1, <2>2 DEF InHands, Pending
  <2>5. InHands(Others)' > 0 => env'.other
    BY <2>1, <2>4 DEF IInv, HolderInv, Kinds
  <2> QED BY <2>1, <2>3, <2>4, <2>5, Frame DEF Kinds
<1>4. CASE FileChanges
  <2>1. PICK n \in 0 .. MaxSize + 1 : src' = [src EXCEPT !.real = n]
    BY <1>4 DEF FileChanges
  <2>2. /\ env' = [env EXCEPT !.changed = TRUE] /\ stream' = stream
        /\ resp' = resp /\ gz' = gz /\ ew' = ew /\ bg' = bg /\ heap' = heap
    BY <1>4 DEF FileChanges
  <2>3. n \in Nat
    BY LimitsAssumption
  <2>4. src' \in DataSource /\ src'.open = src.open /\ src'.kind = src.kind
    BY <1>1, <2>1, <2>3 DEF TypeOK, DataSource
  <2>5. /\ env' \in Outside /\ env'.other = env.other /\ env'.refused = env.refused
        /\ env'.readError = env.readError
    BY <1>1, <2>2 DEF TypeOK, Outside
  <2>6. TypeOK'
    BY <1>1, <2>2, <2>4, <2>5 DEF TypeOK
  <2>7. \A S \in Kinds : InHands(S)' = InHands(S)
    BY <2>2 DEF InHands
  <2>8. InHands(Others)' > 0 => env'.other
    BY <2>5, <2>7 DEF IInv, HolderInv, Kinds
  <2> QED BY <2>2, <2>4, <2>5, <2>6, <2>7, <2>8, Frame DEF Kinds
<1> QED BY <1>2, <1>3, <1>4

\* In the event loop no callback is waiting.
LEMMA LoopIsIdle ==
  ASSUME TypeOK, bg.at = "loop"
  PROVE  bg.pq = <<>> /\ \A S : InHands(S) = Pending(stream, S)
<1>1. bg.pq = <<>>
  BY DEF TypeOK
<1>2. ASSUME NEW S PROVE InHands(S) = Pending(stream, S)
  <2>1. CountIn(<<>>, S) = 0 /\ Pending(stream, S) \in Nat
    BY HandsTyped
  <2> QED BY <1>1, <2>1 DEF InHands
<1> QED BY <1>1, <1>2

\* Where the thread goes agrees with the callbacks that are left.
LEMMA BackTyped ==
  ASSUME NEW pq \in Seq(WriteReq)
  PROVE  /\ Back(pq) \in {"loop", "callbacks"}
         /\ Back(pq) = "callbacks" <=> pq # <<>>
BY DEF Back

\* A write of the next response.
LEMMA OtherResponseStep ==
  ASSUME IInv, OtherResponse
  PROVE  IInv'
<1> DEFINE req == Req("other", <<OtherUnit>>, FALSE)
<1>1. TypeOK /\ bg.at = "loop"
  BY DEF IInv, OtherResponse
<1>2. /\ stream' \in uv_write(stream, <<>>, req) /\ env' = [env EXCEPT !.other = TRUE]
      /\ resp' = resp /\ src' = src /\ gz' = gz /\ ew' = ew /\ bg' = bg /\ heap' = heap
  BY DEF OtherResponse
<1>3. <<OtherUnit>> \in Seq(Unit)
  BY DEF OtherUnit, Unit
<1>4. req \in WriteReq /\ req \notin Bodies /\ req \notin OwnedBodies /\ req \notin Heads
  BY <1>3, ReqTyped
<1> HIDE DEF req
<1>5. /\ stream' \in Stream
      /\ \A S \in Kinds : Pending(stream', S) = Pending(stream, S) + One(req \in S)
  BY <1>1, <1>2, <1>4, WriteEffect DEF TypeOK
<1>6. /\ env' \in Outside /\ env'.other /\ env'.refused = env.refused
      /\ env'.readError = env.readError
  BY <1>1, <1>2 DEF TypeOK, Outside
<1>7. TypeOK'
  BY <1>1, <1>2, <1>5, <1>6 DEF TypeOK
<1>8. ASSUME NEW S \in Kinds, req \notin S PROVE InHands(S)' = InHands(S)
  <2>1. Pending(stream, S) \in Nat /\ CountIn(bg.pq, S) \in Nat
    BY <1>1, HandsTyped
  <2>2. Pending(stream', S) = Pending(stream, S)
    BY <1>5, <1>8, <2>1 DEF One
  <2> QED BY <1>2, <2>2 DEF InHands
<1>9. /\ InHands(Bodies)' = InHands(Bodies) /\ InHands(OwnedBodies)' = InHands(OwnedBodies)
      /\ InHands(Heads)' = InHands(Heads)
  BY <1>4, <1>8 DEF Kinds
<1> QED BY <1>2, <1>6, <1>7, <1>9, Frame

\* The event loop writes, and hands the completed requests to their callbacks.
LEMMA PollStep ==
  ASSUME IInv, Poll
  PROVE  IInv'
<1> DEFINE least == IF stream.completed = <<>> THEN 1 ELSE 0
<1>1. TypeOK /\ bg.at = "loop"
  BY DEF IInv, Poll
<1>2. PICK st \in Attempt(stream, least) :
        /\ stream' = [st EXCEPT !.completed = <<>>]
        /\ bg' = [bg EXCEPT !.pq = st.completed, !.at = Back(st.completed)]
  BY DEF Poll
<1>3. /\ env' = env /\ resp' = resp /\ src' = src /\ gz' = gz /\ ew' = ew /\ heap' = heap
  BY DEF Poll
<1>4. least \in Nat
  OBVIOUS
<1> HIDE DEF least
<1>5. st \in Stream /\ \A S \in Kinds : Pending(st, S) = Pending(stream, S)
  BY <1>1, <1>4, AttemptEffect DEF TypeOK
<1>6. st.completed \in Seq(WriteReq) /\ st.queue \in Seq(WriteReq)
  BY <1>5 DEF Stream
<1>7. stream' \in Stream /\ stream'.queue = st.queue /\ stream'.completed = <<>>
  <2> DEFINE none == <<>>
  <2>1. none \in Seq(WriteReq) /\ stream' = [st EXCEPT !.completed = none]
    BY <1>2
  <2> HIDE DEF none
  <2>2. stream' \in Stream /\ stream'.queue = st.queue /\ stream'.completed = none
    BY <1>5, <2>1 DEF Stream
  <2> QED BY <2>2 DEF none
<1>8. /\ Back(st.completed) \in {"loop", "callbacks"}
      /\ Back(st.completed) = "callbacks" <=> st.completed # <<>>
  BY <1>6, BackTyped
<1>9. /\ bg' \in Thread /\ bg'.pq = st.completed /\ bg'.at = Back(st.completed)
      /\ bg'.owned = bg.owned
  BY <1>1, <1>2, <1>6, <1>8 DEF TypeOK, Thread
<1>10. TypeOK'
  BY <1>1, <1>3, <1>7, <1>8, <1>9 DEF TypeOK
<1>11. ASSUME NEW S \in Kinds PROVE InHands(S)' = InHands(S)
  <2>1. CountIn(<<>>, S) = 0 /\ InHands(S) = Pending(stream, S)
    BY <1>1, HandsTyped, LoopIsIdle
  <2>2. CountIn(st.queue, S) \in Nat /\ CountIn(st.completed, S) \in Nat
    BY <1>6, CountType
  <2>3. Pending(stream', S) = CountIn(st.queue, S)
    BY <1>7, <2>1, <2>2 DEF Pending
  <2>4. InHands(S)' = CountIn(st.queue, S) + CountIn(st.completed, S)
    BY <1>9, <2>3 DEF InHands
  <2> QED BY <1>5, <2>1, <2>4 DEF Pending
<1>12. InHands(Others)' > 0 => env'.other
  BY <1>3, <1>11 DEF IInv, HolderInv, Kinds
<1>13. /\ InHands(Bodies)' = InHands(Bodies) /\ InHands(OwnedBodies)' = InHands(OwnedBodies)
       /\ InHands(Heads)' = InHands(Heads)
  BY <1>11 DEF Kinds
<1> QED BY <1>1, <1>3, <1>8, <1>9, <1>10, <1>12, <1>13, Frame

\* After uv_close: what is queued is cancelled, and all callbacks run.
LEMMA DestroyStep ==
  ASSUME IInv, Destroy
  PROVE  IInv'
<1> DEFINE q == stream.queue
           cancelled == Apply(LAMBDA r : [r EXCEPT !.err = TRUE], q)
           pq == stream.completed \o cancelled
<1>1. TypeOK /\ bg.at = "loop"
  BY DEF IInv, Destroy
<1>2. /\ bg' = [bg EXCEPT !.pq = pq, !.at = Back(pq)]
      /\ stream' = [stream EXCEPT !.queue = <<>>, !.completed = <<>>, !.fd = "closed"]
      /\ env' = env /\ resp' = resp /\ src' = src /\ gz' = gz /\ ew' = ew /\ heap' = heap
  BY DEF Destroy
<1>3. /\ stream.queue \in Seq(WriteReq) /\ stream.completed \in Seq(WriteReq)
      /\ DOMAIN q = 1 .. Len(q) /\ Len(q) \in Nat
      /\ \A i \in 1 .. Len(q) : q[i] \in WriteReq
  BY <1>1, LenProperties, ElementOfSeq DEF TypeOK, Stream
<1>4. /\ cancelled \in Seq(WriteReq) /\ Len(cancelled) = Len(q)
      /\ \A i \in 1 .. Len(q) : cancelled[i] = [q[i] EXCEPT !.err = TRUE]
  <2> HIDE DEF q
  <2>1. cancelled = [i \in 1 .. Len(q) |-> [q[i] EXCEPT !.err = TRUE]]
    BY <1>3 DEF Apply
  <2>2. \A i \in 1 .. Len(q) : [q[i] EXCEPT !.err = TRUE] \in WriteReq
    BY <1>3 DEF WriteReq
  <2>3. cancelled \in [1 .. Len(q) -> WriteReq]
    BY <2>1, <2>2
  <2>4. \A i \in 1 .. Len(q) : cancelled[i] = [q[i] EXCEPT !.err = TRUE]
    BY <2>1
  <2> HIDE DEF cancelled
  <2> QED BY <1>3, <2>3, <2>4, FunctionIsSeq
<1>5. ASSUME NEW S \in Kinds PROVE CountIn(cancelled, S) = CountIn(q, S)
  <2>1. ASSUME NEW i \in 1 .. Len(q) PROVE q[i] \in S <=> cancelled[i] \in S
    <3> DEFINE c == [q[i] EXCEPT !.err = TRUE]
    <3>1. q[i] \in WriteReq /\ cancelled[i] = c
      BY <1>3, <1>4
    <3>2. c \in WriteReq /\ c.who = q[i].who /\ c.owned = q[i].owned
      BY <3>1 DEF WriteReq
    <3> QED BY <3>1, <3>2, KindStays, ZenonT(40)
  <2> HIDE DEF cancelled
  <2> QED BY <1>3, <1>4, <2>1, CountAlike
<1> HIDE DEF cancelled
<1>6. pq \in Seq(WriteReq) /\ \A S : CountIn(pq, S) = CountIn(stream.completed, S) + CountIn(cancelled, S)
  BY <1>3, <1>4, ConcatProperties, CountConcat
<1> HIDE DEF pq
<1>7. stream' \in Stream /\ stream'.queue = <<>> /\ stream'.completed = <<>>
  <2> DEFINE none == <<>>
  <2>1. /\ none \in Seq(WriteReq) /\ stream \in Stream
        /\ stream' = [stream EXCEPT !.queue = none, !.completed = none, !.fd = "closed"]
    BY <1>1, <1>2 DEF TypeOK
  <2> HIDE DEF none
  <2>2. stream' \in Stream /\ stream'.queue = none /\ stream'.completed = none
    BY <2>1 DEF Stream
  <2> QED BY <2>2 DEF none
<1>8. Back(pq) \in {"loop", "callbacks"} /\ (Back(pq) = "callbacks" <=> pq # <<>>)
  BY <1>6, BackTyped
<1>9. bg' \in Thread /\ bg'.pq = pq /\ bg'.at = Back(pq) /\ bg'.owned = bg.owned
  BY <1>1, <1>2, <1>6, <1>8 DEF TypeOK, Thread
<1>10. TypeOK'
  BY <1>1, <1>2, <1>7, <1>8, <1>9 DEF TypeOK
<1>11. ASSUME NEW S \in Kinds PROVE InHands(S)' = InHands(S)
  <2>1. CountIn(<<>>, S) = 0 /\ InHands(S) = Pending(stream, S)
    BY <1>1, HandsTyped, LoopIsIdle
  <2>2. CountIn(q, S) \in Nat /\ CountIn(stream.completed, S) \in Nat
    BY <1>3, CountType
  <2>3. Pending(stream', S) = 0
    BY <1>7, <2>1 DEF Pending
  <2>4. InHands(S)' = 0 + CountIn(pq, S)
    BY <1>9, <2>3 DEF InHands
  <2>5. CountIn(pq, S) = CountIn(stream.completed, S) + CountIn(q, S)
    BY <1>5, <1>6
  <2> QED BY <2>1, <2>2, <2>4, <2>5 DEF Pending
<1>12. InHands(Others)' > 0 => env'.other
  BY <1>2, <1>11 DEF IInv, HolderInv, Kinds
<1>13. /\ InHands(Bodies)' = InHands(Bodies) /\ InHands(OwnedBodies)' = InHands(OwnedBodies)
       /\ InHands(Heads)' = InHands(Heads)
  BY <1>11 DEF Kinds
<1> QED BY <1>1, <1>2, <1>8, <1>9, <1>10, <1>12, <1>13, Frame

-----------------------------------------------------------------------------
(* Callbacks, and the end of a response.                                    *)

\* A callback takes its request out of libuv's hands.
LEMMA CallbackEffect ==
  ASSUME TypeOK, bg.at = "callbacks"
  PROVE  /\ Head(bg.pq) \in WriteReq /\ Tail(bg.pq) \in Seq(WriteReq)
         /\ \A S \in Kinds :
              InHands(S) = Pending(stream, S) + CountIn(Tail(bg.pq), S) + One(Head(bg.pq) \in S)
<1>1. bg.pq \in Seq(WriteReq) /\ bg.pq # <<>>
  BY DEF TypeOK, Thread
<1>2. Head(bg.pq) \in WriteReq /\ Tail(bg.pq) \in Seq(WriteReq)
  BY <1>1, TailRange, Zenon
<1>3. ASSUME NEW S \in Kinds
      PROVE  InHands(S) = Pending(stream, S) + CountIn(Tail(bg.pq), S) + One(Head(bg.pq) \in S)
  <2>1. CountIn(bg.pq, S) = CountIn(Tail(bg.pq), S) + IF Head(bg.pq) \in S THEN 1 ELSE 0
    BY <1>1, CountTail, Zenon
  <2>2. CountIn(Tail(bg.pq), S) \in Nat /\ Pending(stream, S) \in Nat
    BY <1>2, CountType, HandsTyped, Zenon
  <2> QED BY <2>1, <2>2 DEF InHands, One
<1> QED BY <1>2, <1>3

\* Which of the kinds a request is of.
LEMMA KindOf ==
  ASSUME NEW r \in WriteReq
  PROVE  /\ r \in Bodies <=> r.who = "body"
         /\ r \in OwnedBodies <=> r.who = "body" /\ r.owned
         /\ r \in Heads <=> r.who = "head"
         /\ r \in Others <=> r.who = "other"
         /\ r.who \in {"head", "body", "other"} /\ r.owned \in BOOLEAN
<1>1. r.who \in {"head", "body", "other"} /\ r.owned \in BOOLEAN
  BY DEF WriteReq
<1> QED BY <1>1, Zenon DEF Bodies, OwnedBodies, Heads, Others

\* The destructor gives zlib's input buffer back and leaves the writes alone.
LEMMA DestructorEffect ==
  ASSUME TypeOK, InputInv, NEW r, Destructor(r)
  PROVE  /\ src' \in DataSource /\ stream' \in Stream /\ gz' \in GZipDataSource
         /\ heap' \in [out : Nat, in : Nat] /\ heap'.out = heap.out /\ InputInv'
         /\ \A S : Pending(stream', S) = Pending(stream, S)
<1>1. src' \in DataSource
  BY DEF Destructor, TypeOK, CloseSource, DataSource
<1>2. stream' = uv_close(stream) \/ stream' = stream
  BY DEF Destructor
<1>3. stream' \in Stream /\ \A S : Pending(stream', S) = Pending(stream, S)
  BY <1>2, CloseEffect DEF TypeOK
<1>4. gz' \in GZipDataSource /\ gz'.in = <<>> /\ ~gz'.inBuf
  <2> DEFINE none == <<>>
  <2>1. none \in Seq(Nat) /\ gz' = [gz EXCEPT !.inBuf = FALSE, !.in = none] /\ gz \in GZipDataSource
    BY DEF Destructor, TypeOK
  <2> HIDE DEF none
  <2>2. gz' \in GZipDataSource /\ gz'.in = none /\ ~gz'.inBuf
    BY <2>1 DEF GZipDataSource
  <2> QED BY <2>2 DEF none
<1>5. /\ heap' = [heap EXCEPT !.in = @ - InputBufs(gz)] /\ heap \in [out : Nat, in : Nat]
      /\ heap.in = InputBufs(gz)
  BY DEF Destructor, TypeOK, InputInv
<1>6. heap' \in [out : Nat, in : Nat] /\ heap'.out = heap.out /\ heap'.in = 0
  BY <1>5
<1>7. InputInv'
  BY <1>4, <1>6 DEF InputInv, InputBufs
<1> QED BY <1>1, <1>3, <1>4, <1>6, <1>7

\* A response that is over, with no write of its own left.
LEMMA OverIsSafe ==
  ASSUME TypeOK', InputInv', resp'.heldBy = "nobody", ~ew'.alive, ew'.active = 0,
         InHands(Bodies)' = 0, InHands(Heads)' = 0, InHands(Others)' > 0 => env'.other,
         ~env'.refused, bg'.at \in {"loop", "callbacks"}, ~bg'.owned,
         \/ heap'.out = InHands(OwnedBodies)'
         \/ heap'.out = InHands(OwnedBodies)' + 1 /\ env'.readError /\ resp'.gzip
  PROVE  IInv'
<1>0. InHands(OwnedBodies)' \in Nat
  <2>1. /\ stream'.queue \in Seq(WriteReq) /\ stream'.completed \in Seq(WriteReq)
        /\ bg'.pq \in Seq(WriteReq)
    BY DEF TypeOK, Stream, Thread
  <2>2. /\ CountIn(stream'.queue, OwnedBodies) \in Nat
        /\ CountIn(stream'.completed, OwnedBodies) \in Nat
        /\ CountIn(bg'.pq, OwnedBodies) \in Nat
    BY <2>1, CountType
  <2> QED BY <2>2 DEF InHands, Pending
<1>1. HolderInv'
  BY DEF HolderInv, One
<1>2. OneWriteInv'
  BY DEF OneWriteInv, One, InNext
<1>3. OutputInv'
  BY <1>0 DEF OutputInv, One
<1> QED BY <1>1, <1>2, <1>3 DEF IInv

\* The callback of the next response's write.
LEMMA OtherWrittenStep ==
  ASSUME IInv, bg.at = "callbacks", OtherWritten(Head(bg.pq))
  PROVE  IInv'
<1> DEFINE req == Head(bg.pq)
           pq == Tail(bg.pq)
<1>1. TypeOK
  BY DEF IInv
<1>2. /\ req \in WriteReq /\ pq \in Seq(WriteReq) /\ req.who = "other"
      /\ \A S \in Kinds : InHands(S) = Pending(stream, S) + CountIn(pq, S) + One(req \in S)
  BY <1>1, CallbackEffect DEF OtherWritten
<1>3. /\ bg' = [bg EXCEPT !.pq = pq, !.at = Back(pq)] /\ stream' = stream
      /\ env' = env /\ resp' = resp /\ src' = src /\ gz' = gz /\ ew' = ew /\ heap' = heap
  BY DEF OtherWritten
<1> HIDE DEF req, pq
<1>4. Back(pq) \in {"loop", "callbacks"} /\ (Back(pq) = "callbacks" <=> pq # <<>>)
  BY <1>2, BackTyped
<1>5. bg' \in Thread /\ bg'.pq = pq /\ bg'.at = Back(pq) /\ bg'.owned = bg.owned
  BY <1>1, <1>2, <1>3, <1>4 DEF TypeOK, Thread
<1>6. TypeOK'
  BY <1>1, <1>3, <1>4, <1>5 DEF TypeOK
<1>7. ASSUME NEW S \in Kinds
      PROVE  InHands(S)' \in Nat /\ InHands(S) = InHands(S)' + One(req \in S)
  <2>1. InHands(S)' = Pending(stream, S) + CountIn(pq, S)
    BY <1>3, <1>5 DEF InHands
  <2>2. Pending(stream, S) \in Nat /\ CountIn(pq, S) \in Nat
    BY <1>1, <1>2, HandsTyped, CountType, Zenon
  <2> QED BY <1>2, <2>1, <2>2
<1>8. req \notin Bodies /\ req \notin OwnedBodies /\ req \notin Heads /\ req \in Others
  BY <1>2, KindOf
<1>9. /\ InHands(Bodies)' = InHands(Bodies) /\ InHands(OwnedBodies)' = InHands(OwnedBodies)
      /\ InHands(Heads)' = InHands(Heads) /\ InHands(Others) > 0
  BY <1>7, <1>8 DEF Kinds, One
<1>10. InHands(Others)' > 0 => env'.other
  BY <1>3, <1>9 DEF IInv, HolderInv
<1> QED BY <1>3, <1>4, <1>5, <1>6, <1>9, <1>10, Frame

\* When libuv still has something to write, a request is in its hands.
LEMMA SomethingToWrite ==
  ASSUME TypeOK, NEW pq \in Seq(WriteReq), ~NothingToWrite(stream, pq)
  PROVE  \E S \in {Bodies, Heads, Others} : Pending(stream, S) + CountIn(pq, S) > 0
<1>1. stream.queue \in Seq(WriteReq) /\ stream.completed \in Seq(WriteReq)
  BY DEF TypeOK, Stream
<1>2. PICK q \in {stream.queue, stream.completed, pq} : \E i \in DOMAIN q : q[i].units # <<>>
  BY DEF NothingToWrite
<1>3. PICK i \in DOMAIN q : q[i].units # <<>>
  BY <1>2
<1>4. q \in Seq(WriteReq)
  BY <1>1
<1>5. q[i] \in WriteReq
  BY <1>4, ElementOfSeq, LenProperties
<1>6. PICK S \in {Bodies, Heads, Others} : q[i] \in S
  BY <1>5, KindOf
<1>7. CountIn(q, S) > 0
  BY <1>4, <1>6, CountPositive, Zenon
<1>8. /\ CountIn(stream.queue, S) \in Nat /\ CountIn(stream.completed, S) \in Nat
      /\ CountIn(pq, S) \in Nat
  BY <1>1, CountType, Zenon
<1>9. Pending(stream, S) + CountIn(pq, S) > 0
  BY <1>7, <1>8 DEF Pending
<1> QED BY <1>9

\* The callback of a body write: next() follows, unless the write of another
\* response is waiting.
LEMMA WriteOpEndStep ==
  ASSUME IInv, bg.at = "callbacks", WriteOpEnd(Head(bg.pq))
  PROVE  IInv'
<1> DEFINE req == Head(bg.pq)
           pq == Tail(bg.pq)
           at == IF NothingToWrite(stream, pq) THEN "next" ELSE Back(pq)
<1>1. TypeOK
  BY DEF IInv
<1>2. /\ req \in WriteReq /\ pq \in Seq(WriteReq) /\ req.who = "body"
      /\ \A S \in Kinds : InHands(S) = Pending(stream, S) + CountIn(pq, S) + One(req \in S)
  BY <1>1, CallbackEffect DEF WriteOpEnd
<1>3. /\ bg' = [bg EXCEPT !.pq = pq, !.at = at] /\ stream' = stream
      /\ heap' = [heap EXCEPT !.out = @ - (IF req.owned THEN 1 ELSE 0)]
      /\ ew' = [ew EXCEPT !.active = @ - 1]
      /\ env' = env /\ resp' = resp /\ src' = src /\ gz' = gz
  BY DEF WriteOpEnd
<1> HIDE DEF req, pq
<1>4. Back(pq) \in {"loop", "callbacks"} /\ (Back(pq) = "callbacks" <=> pq # <<>>)
  BY <1>2, BackTyped
<1>5. ASSUME NEW S \in Kinds
      PROVE  /\ Pending(stream, S) + CountIn(pq, S) \in Nat
             /\ InHands(S) = Pending(stream, S) + CountIn(pq, S) + One(req \in S)
  <2>1. Pending(stream, S) \in Nat /\ CountIn(pq, S) \in Nat
    BY <1>1, <1>2, HandsTyped, CountType, Zenon
  <2> QED BY <1>2, <2>1
<1>6. req \in Bodies /\ req \notin Heads /\ req \notin Others /\ (req \in OwnedBodies <=> req.owned)
  BY <1>2, KindOf
<1> DEFINE Left(S) == Pending(stream, S) + CountIn(pq, S)
<1>7. /\ Left(Bodies) \in Nat /\ InHands(Bodies) = Left(Bodies) + 1
      /\ Left(OwnedBodies) \in Nat /\ InHands(OwnedBodies) = Left(OwnedBodies) + One(req.owned)
      /\ Left(Heads) \in Nat /\ InHands(Heads) = Left(Heads)
      /\ Left(Others) \in Nat /\ InHands(Others) = Left(Others)
  <2>1. Bodies \in Kinds /\ OwnedBodies \in Kinds /\ Heads \in Kinds /\ Others \in Kinds
    BY DEF Kinds
  <2>2. One(req \in OwnedBodies) = One(req.owned)
    BY <1>6 DEF One
  <2>3. InHands(OwnedBodies) = Left(OwnedBodies) + One(req \in OwnedBodies)
    BY <1>5, <2>1
  <2>4. /\ InHands(Bodies) = Left(Bodies) + One(req \in Bodies)
        /\ InHands(Heads) = Left(Heads) + One(req \in Heads)
        /\ InHands(Others) = Left(Others) + One(req \in Others)
    BY <1>5, <2>1
  <2>5. Left(Bodies) \in Nat /\ Left(OwnedBodies) \in Nat /\ Left(Heads) \in Nat /\ Left(Others) \in Nat
    BY <1>5, <2>1
  <2> HIDE DEF Left
  <2> QED BY <1>6, <2>2, <2>3, <2>4, <2>5 DEF One
<1>8. /\ ew.active = 1 /\ Left(Bodies) = 0 /\ ~env.refused /\ ew.alive
  <2> HIDE DEF Left
  <2>1. ew.active \in Nat /\ env.refused \in BOOLEAN /\ ew.alive \in BOOLEAN
    BY <1>1 DEF TypeOK, ExtendedWrite, Outside
  <2> QED BY <1>7, <2>1 DEF IInv, OneWriteInv, One
<1>9. resp.heldBy = "body" /\ Left(Heads) = 0 /\ ~env.readError /\ resp.body
  <2> HIDE DEF Left
  <2> QED BY <1>7, <1>8 DEF IInv, HolderInv, One
<1>10. ~bg.owned /\ heap.out = Left(OwnedBodies) + One(req.owned)
  <2> HIDE DEF Left
  <2>1. ~bg.owned
    BY DEF IInv, OutputInv
  <2>2. heap.out = InHands(OwnedBodies) + One(bg.owned)
    BY <1>8, <1>9 DEF IInv, OutputInv
  <2> QED BY <1>7, <2>1, <2>2 DEF One
<1>11. heap' \in [out : Nat, in : Nat] /\ heap'.out = Left(OwnedBodies) /\ heap'.in = heap.in
  <2> HIDE DEF Left
  <2>1. heap \in [out : Nat, in : Nat] /\ req.owned \in BOOLEAN
    BY <1>1, <1>2, KindOf DEF TypeOK
  <2>2. heap.out - (IF req.owned THEN 1 ELSE 0) = Left(OwnedBodies)
    BY <1>7, <1>10, <2>1 DEF One
  <2> QED BY <1>3, <1>7, <2>1, <2>2
<1>12. ew' \in ExtendedWrite /\ ew'.active = 0 /\ ew'.alive
  BY <1>1, <1>3, <1>8 DEF TypeOK, ExtendedWrite
<1>13. at = "next" \/ (at = Back(pq) /\ ~NothingToWrite(stream, pq))
  BY Zenon
<1> HIDE DEF at
<1>14. bg' \in Thread /\ bg'.pq = pq /\ bg'.at = at /\ ~bg'.owned
  BY <1>1, <1>2, <1>3, <1>4, <1>10, <1>13 DEF TypeOK, Thread
<1>15. TypeOK'
  BY <1>1, <1>3, <1>4, <1>11, <1>12, <1>13, <1>14 DEF TypeOK
<1>16. \A S : InHands(S)' = Left(S)
  BY <1>3, <1>14 DEF InHands
<1>17. at # "next" => Left(Others) > 0
  <2>1. SUFFICES ASSUME ~NothingToWrite(stream, pq) PROVE Left(Others) > 0
    BY <1>13
  <2>2. \E S \in {Bodies, Heads, Others} : Left(S) > 0
    BY <1>1, <1>2, <2>1, SomethingToWrite
  <2> HIDE DEF Left
  <2> QED BY <1>8, <1>9, <2>2
<1> HIDE DEF Left
<1>18. HolderInv'
  BY <1>3, <1>7, <1>9, <1>12, <1>16 DEF IInv, HolderInv, One
<1>19. OneWriteInv'
  <2>1. at # "next" => env'.other
    BY <1>3, <1>7, <1>17 DEF IInv, HolderInv
  <2>2. InNext' <=> at = "next"
    BY <1>4, <1>13, <1>14 DEF InNext
  <2> QED BY <1>3, <1>8, <1>12, <1>16, <2>1, <2>2 DEF OneWriteInv, One
<1>20. OutputInv'
  BY <1>4, <1>7, <1>11, <1>13, <1>14, <1>16 DEF OutputInv, One
<1>21. InputInv'
  BY <1>3, <1>11, <1>12 DEF IInv, InputInv, InputBufs
<1> QED BY <1>15, <1>18, <1>19, <1>20, <1>21 DEF IInv

\* Before the ExtendedWrite there is no body write and no buffer of one.
LEMMA BeforeBody ==
  ASSUME IInv, resp.heldBy \in {"scheduled", "write"}
  PROVE  /\ ~ew.alive /\ ew.active = 0 /\ InHands(Bodies) = 0 /\ ~env.refused /\ ~env.readError
         /\ ~InNext /\ ~bg.owned /\ InHands(OwnedBodies) \in Nat /\ heap.out = InHands(OwnedBodies)
         /\ gz.in = <<>> /\ (resp.body => src.open)
<1>1. TypeOK
  BY DEF IInv
<1>2. ~ew.alive /\ ~env.readError /\ (resp.body => src.open)
  BY DEF IInv, HolderInv
<1>3. ew.active = 0 /\ ~InNext
  BY <1>2 DEF IInv, OneWriteInv
<1>4. \A S : InHands(S) \in Nat
  BY <1>1, HandsTyped DEF InHands
<1>5. InHands(Bodies) = 0 /\ ~env.refused
  BY <1>3, <1>4 DEF IInv, OneWriteInv, One
<1>6. ~bg.owned
  BY <1>3 DEF IInv, OutputInv, InNext
<1>7. heap.out = InHands(OwnedBodies)
  BY <1>2, <1>4, <1>5, <1>6 DEF IInv, OutputInv, One
<1>8. gz.in = <<>>
  BY <1>2 DEF IInv, InputInv
<1> QED BY <1>2, <1>3, <1>4, <1>5, <1>6, <1>7, <1>8

\* The callback of the head: the body begins, or the response is over.
LEMMA OnResponseWrittenStep ==
  ASSUME IInv, bg.at = "callbacks", OnResponseWritten(Head(bg.pq))
  PROVE  IInv'
<1> DEFINE req == Head(bg.pq)
           pq == Tail(bg.pq)
           r == IF req.err THEN [resp EXCEPT !.closeAfter = TRUE] ELSE resp
           Left(S) == Pending(stream, S) + CountIn(pq, S)
<1>1. TypeOK
  BY DEF IInv
<1>2. /\ req \in WriteReq /\ pq \in Seq(WriteReq) /\ req.who = "head"
      /\ \A S \in Kinds : InHands(S) = Left(S) + One(req \in S)
  BY <1>1, CallbackEffect DEF OnResponseWritten
<1>3. \/ /\ resp.body
         /\ ew' = [ew EXCEPT !.alive = TRUE]
         /\ resp' = [resp EXCEPT !.heldBy = "body"]
         /\ bg' = [bg EXCEPT !.pq = pq, !.at = "next"]
         /\ src' = src /\ stream' = stream /\ heap' = heap /\ gz' = gz
      \/ /\ resp' = Released(r)
         /\ bg' = [bg EXCEPT !.pq = pq, !.at = Back(pq)]
         /\ Destructor(r)
         /\ ew' = ew
  BY DEF OnResponseWritten
<1>4. env' = env
  BY DEF OnResponseWritten
<1>5. r \in HttpResponse
  <2>1. resp \in HttpResponse /\ (r = resp \/ r = [resp EXCEPT !.closeAfter = TRUE])
    BY <1>1 DEF TypeOK
  <2> HIDE DEF r
  <2>2. CASE r = [resp EXCEPT !.closeAfter = TRUE]
    BY <2>1, <2>2, ZenonT(40) DEF HttpResponse
  <2> QED BY <2>1, <2>2
<1> HIDE DEF req, pq, r
<1>6. Back(pq) \in {"loop", "callbacks"} /\ (Back(pq) = "callbacks" <=> pq # <<>>)
  BY <1>2, BackTyped
<1>7. \A S : Left(S) \in Nat
  <2>1. ASSUME NEW S PROVE Left(S) \in Nat
    <3>1. Pending(stream, S) \in Nat /\ CountIn(pq, S) \in Nat
      BY <1>1, <1>2, HandsTyped, CountType, Zenon
    <3> QED BY <3>1
  <2> QED BY <2>1
<1>8. req \notin Bodies /\ req \notin OwnedBodies /\ req \notin Others /\ req \in Heads
  BY <1>2, KindOf
<1>9. /\ InHands(Bodies) = Left(Bodies) /\ InHands(OwnedBodies) = Left(OwnedBodies)
      /\ InHands(Others) = Left(Others) /\ InHands(Heads) = Left(Heads) + 1
  <2> HIDE DEF Left
  <2>1. /\ InHands(Bodies) = Left(Bodies) + One(req \in Bodies)
        /\ InHands(OwnedBodies) = Left(OwnedBodies) + One(req \in OwnedBodies)
        /\ InHands(Others) = Left(Others) + One(req \in Others)
        /\ InHands(Heads) = Left(Heads) + One(req \in Heads)
    BY <1>2 DEF Kinds
  <2> QED BY <1>7, <1>8, <2>1 DEF One
<1>10. resp.heldBy = "write" /\ Left(Heads) = 0
  <2> HIDE DEF Left
  <2> QED BY <1>7, <1>9 DEF IInv, HolderInv, One
<1>11. /\ ~ew.alive /\ ew.active = 0 /\ InHands(Bodies) = 0 /\ ~env.refused /\ ~env.readError
       /\ ~bg.owned /\ heap.out = InHands(OwnedBodies)
       /\ gz.in = <<>> /\ (resp.body => src.open)
  BY <1>10, BeforeBody
<1>12. Left(Others) > 0 => env'.other
  BY <1>4, <1>9 DEF IInv, HolderInv
<1>13. ASSUME resp.body,
              ew' = [ew EXCEPT !.alive = TRUE],
              resp' = [resp EXCEPT !.heldBy = "body"],
              bg' = [bg EXCEPT !.pq = pq, !.at = "next"],
              src' = src /\ stream' = stream /\ heap' = heap /\ gz' = gz
       PROVE  IInv'
  <2>1. ew' \in ExtendedWrite /\ ew'.alive /\ ew'.active = 0
    BY <1>1, <1>11, <1>13 DEF TypeOK, ExtendedWrite
  <2>2. resp' \in HttpResponse /\ resp'.heldBy = "body" /\ resp'.body
    BY <1>1, <1>13 DEF TypeOK, HttpResponse
  <2>3. bg' \in Thread /\ bg'.pq = pq /\ bg'.at = "next" /\ ~bg'.owned
    BY <1>1, <1>2, <1>11, <1>13 DEF TypeOK, Thread
  <2>4. TypeOK'
    BY <1>1, <1>4, <1>13, <2>1, <2>2, <2>3 DEF TypeOK
  <2>5. \A S : InHands(S)' = Left(S)
    BY <1>13, <2>3 DEF InHands
  <2> HIDE DEF Left
  <2>6. HolderInv'
    BY <1>4, <1>10, <1>11, <1>12, <1>13, <2>1, <2>2, <2>5 DEF HolderInv, One
  <2>7. OneWriteInv'
    <3>1. InHands(Bodies)' = 0 /\ ~env'.refused /\ InNext'
      BY <1>4, <1>9, <1>11, <2>3, <2>5 DEF InNext
    <3> QED BY <2>1, <3>1 DEF OneWriteInv, One
  <2>8. OutputInv'
    BY <1>7, <1>9, <1>11, <1>13, <2>3, <2>5 DEF OutputInv, One
  <2>9. InputInv'
    BY <1>11, <1>13 DEF IInv, InputInv, InputBufs
  <2> QED BY <2>4, <2>6, <2>7, <2>8, <2>9 DEF IInv
<1>14. ASSUME resp' = Released(r),
              bg' = [bg EXCEPT !.pq = pq, !.at = Back(pq)],
              Destructor(r),
              ew' = ew
       PROVE  IInv'
  <2>1. InputInv
    BY DEF IInv
  <2>2. /\ src' \in DataSource /\ stream' \in Stream /\ gz' \in GZipDataSource
        /\ heap' \in [out : Nat, in : Nat] /\ heap'.out = heap.out /\ InputInv'
        /\ \A S : Pending(stream', S) = Pending(stream, S)
    BY <1>1, <1>14, <2>1, DestructorEffect
  <2>3. resp' \in HttpResponse /\ resp'.heldBy = "nobody"
    BY <1>5, <1>14 DEF Released, HttpResponse
  <2>4. bg' \in Thread /\ bg'.pq = pq /\ bg'.at = Back(pq) /\ ~bg'.owned
    BY <1>1, <1>2, <1>6, <1>11, <1>14 DEF TypeOK, Thread
  <2>5. TypeOK'
    BY <1>1, <1>4, <1>6, <1>14, <2>2, <2>3, <2>4 DEF TypeOK
  <2>6. \A S : InHands(S)' = Left(S)
    BY <2>2, <2>4 DEF InHands
  <2> HIDE DEF Left
  <2> QED BY <1>4, <1>6, <1>9, <1>10, <1>11, <1>12, <1>14, <2>2, <2>3, <2>4, <2>5, <2>6, OverIsSafe
<1> QED BY <1>3, <1>13, <1>14

\* writeResponse.
LEMMA WriteResponseStep ==
  ASSUME IInv, WriteResponse
  PROVE  IInv'
<1> DEFINE decided == [resp EXCEPT !.gzip = Gzips(resp), !.framing = Framing(resp),
                                   !.body = @ /\ ~Inlines(resp), !.heldBy = "write"]
           req == Req("head", HeadUnits(resp, src), FALSE)
<1>1. TypeOK /\ bg.at = "loop" /\ resp.heldBy = "scheduled"
  BY DEF IInv, WriteResponse
<1>2. /\ ew' = ew /\ bg' = bg /\ env' = env
      /\ \/ resp' = Released(decided) /\ Destructor(decided)
         \/ /\ resp' = decided /\ stream' \in uv_write(stream, <<>>, req)
            /\ src' = src /\ heap' = heap /\ gz' = gz
  BY DEF WriteResponse
<1>3. /\ decided \in HttpResponse /\ decided.heldBy = "write" /\ (decided.body => resp.body)
  <2>1. resp \in HttpResponse
    BY <1>1 DEF TypeOK
  <2>2. Framing(resp) \in {"undecided", "none", "length", "chunked"}
    BY DEF Framing
  <2>3. Gzips(resp) \in BOOLEAN /\ Inlines(resp) \in BOOLEAN
    BY DEF Gzips, Inlines
  <2> DEFINE zip == Gzips(resp)
             framing == Framing(resp)
             body == resp.body /\ ~Inlines(resp)
  <2>4. /\ zip \in BOOLEAN /\ framing \in {"undecided", "none", "length", "chunked"}
        /\ body \in BOOLEAN /\ (body => resp.body)
    BY <2>2, <2>3
  <2>5. decided = [resp EXCEPT !.gzip = zip, !.framing = framing, !.body = body,
                               !.heldBy = "write"]
    BY <2>1 DEF HttpResponse
  <2> HIDE DEF decided, zip, framing, body
  <2> DEFINE one == [resp EXCEPT !.gzip = zip]
             two == [one EXCEPT !.framing = framing]
             three == [two EXCEPT !.body = body]
  <2>6. one \in HttpResponse
    BY <2>1, <2>4 DEF HttpResponse
  <2>7. decided = [three EXCEPT !.heldBy = "write"]
    BY <2>5
  <2> HIDE DEF one
  <2>8. two \in HttpResponse
    BY <2>4, <2>6 DEF HttpResponse
  <2> HIDE DEF two
  <2>9. three \in HttpResponse /\ three.body = body
    BY <2>4, <2>8 DEF HttpResponse
  <2> HIDE DEF three
  <2>10. decided \in HttpResponse /\ decided.heldBy = "write" /\ decided.body = body
    BY <2>7, <2>9 DEF HttpResponse
  <2> QED BY <2>4, <2>10
<1>4. req \in WriteReq /\ req \notin Bodies /\ req \notin OwnedBodies /\ req \notin Others /\ req \in Heads
  <2>1. HeadUnits(resp, src) \in Seq(Unit)
    BY <1>1, HeadTyped DEF TypeOK
  <2> QED BY <2>1, ReqTyped
<1> HIDE DEF decided, req
<1>5. bg.pq = <<>> /\ \A S : InHands(S) = Pending(stream, S)
  BY <1>1, LoopIsIdle
<1>6. /\ ~ew.alive /\ ew.active = 0 /\ InHands(Bodies) = 0 /\ ~env.refused /\ ~env.readError
      /\ ~InNext /\ ~bg.owned /\ InHands(OwnedBodies) \in Nat /\ heap.out = InHands(OwnedBodies)
      /\ gz.in = <<>> /\ (resp.body => src.open)
  BY <1>1, BeforeBody
<1>7. InHands(Heads) = 0 /\ (InHands(Others) > 0 => env'.other)
  BY <1>1, <1>2 DEF IInv, HolderInv, One
<1>8. \A S : Pending(stream, S) \in Nat /\ CountIn(bg.pq, S) = 0
  BY <1>1, <1>5, HandsTyped
<1>9. ASSUME resp' = Released(decided), Destructor(decided) PROVE IInv'
  <2>1. InputInv
    BY DEF IInv
  <2>2. /\ src' \in DataSource /\ stream' \in Stream /\ gz' \in GZipDataSource
        /\ heap' \in [out : Nat, in : Nat] /\ heap'.out = heap.out /\ InputInv'
        /\ \A S : Pending(stream', S) = Pending(stream, S)
    BY <1>1, <1>9, <2>1, DestructorEffect
  <2>3. resp' \in HttpResponse /\ resp'.heldBy = "nobody"
    BY <1>3, <1>9 DEF Released, HttpResponse
  <2>4. TypeOK'
    BY <1>1, <1>2, <2>2, <2>3 DEF TypeOK
  <2>5. \A S : InHands(S)' = InHands(S)
    BY <1>2, <2>2 DEF InHands
  <2> QED BY <1>1, <1>2, <1>6, <1>7, <2>2, <2>3, <2>4, <2>5, OverIsSafe
<1>10. ASSUME resp' = decided, stream' \in uv_write(stream, <<>>, req),
              src' = src /\ heap' = heap /\ gz' = gz
       PROVE  IInv'
  <2>1. /\ stream' \in Stream
        /\ \A S \in Kinds : Pending(stream', S) = Pending(stream, S) + One(req \in S)
    BY <1>1, <1>4, <1>10, WriteEffect DEF TypeOK
  <2>2. TypeOK'
    BY <1>1, <1>2, <1>3, <1>10, <2>1 DEF TypeOK
  <2>3. ASSUME NEW S \in Kinds PROVE InHands(S)' = InHands(S) + One(req \in S)
    <3>1. InHands(S)' = Pending(stream', S) + 0
      BY <1>2, <1>8 DEF InHands
    <3>2. Pending(stream', S) = Pending(stream, S) + One(req \in S)
      BY <2>1
    <3>3. Pending(stream, S) \in Nat /\ InHands(S) = Pending(stream, S)
      BY <1>5, <1>8
    <3> QED BY <3>1, <3>2, <3>3 DEF One
  <2>4. /\ InHands(Bodies)' = 0 /\ InHands(OwnedBodies)' = InHands(OwnedBodies)
        /\ InHands(Heads)' = 1 /\ InHands(Others)' = InHands(Others)
    <3>1. /\ InHands(Bodies)' = InHands(Bodies) + One(req \in Bodies)
          /\ InHands(OwnedBodies)' = InHands(OwnedBodies) + One(req \in OwnedBodies)
          /\ InHands(Heads)' = InHands(Heads) + One(req \in Heads)
          /\ InHands(Others)' = InHands(Others) + One(req \in Others)
      BY <2>3 DEF Kinds
    <3>2. InHands(Others) \in Nat
      BY <1>5, <1>8
    <3> QED BY <1>4, <1>6, <1>7, <3>1, <3>2 DEF One
  <2>5. HolderInv'
    BY <1>2, <1>3, <1>6, <1>7, <1>10, <2>4 DEF HolderInv, One
  <2>6. OneWriteInv'
    BY <1>2, <1>6, <2>4 DEF OneWriteInv, One, InNext
  <2>7. OutputInv'
    BY <1>1, <1>2, <1>6, <1>10, <2>4 DEF OutputInv, One
  <2>8. InputInv'
    BY <1>6, <1>10 DEF IInv, InputInv, InputBufs
  <2> QED BY <2>2, <2>5, <2>6, <2>7, <2>8 DEF IInv
<1> QED BY <1>2, <1>9, <1>10

-----------------------------------------------------------------------------
(* ExtendedWrite::next and the DataSources.                                 *)

\* Inside next() no body write is under way and no buffer was lost so far.
LEMMA InNextFacts ==
  ASSUME IInv, InNext
  PROVE  /\ ew.alive /\ ew.active = 0 /\ InHands(Bodies) = 0 /\ ~env.refused /\ ~env.readError
         /\ resp.heldBy = "body" /\ resp.body /\ src.open /\ InHands(Heads) = 0
         /\ InHands(OwnedBodies) \in Nat /\ heap.out = InHands(OwnedBodies) + One(bg.owned)
<1>1. TypeOK
  BY DEF IInv
<1>2. ew.alive /\ ew.active = 0
  BY DEF IInv, OneWriteInv
<1>3. resp.heldBy = "body" /\ resp.body /\ src.open /\ ~env.readError /\ InHands(Heads) = 0
  BY <1>2 DEF IInv, HolderInv, One
<1>4. \A S : InHands(S) \in Nat
  BY <1>1, HandsTyped DEF InHands
<1>5. InHands(Bodies) = 0 /\ ~env.refused
  BY <1>2, <1>4 DEF IInv, OneWriteInv, One
<1>6. heap.out = InHands(OwnedBodies) + One(bg.owned)
  BY <1>3, <1>5 DEF IInv, OutputInv
<1> QED BY <1>2, <1>3, <1>4, <1>5, <1>6

\* A step inside next() that accounts for the buffer it takes or frees.
LEMMA FrameNext ==
  ASSUME IInv, InNext, InNext', TypeOK', InputInv',
         stream' = stream, bg'.pq = bg.pq, env' = env, resp' = resp,
         ew'.alive = ew.alive, ew'.active = ew.active, src'.open = src.open,
         bg'.owned => bg'.at \in {"gzip", "write"},
         bg'.at = "gzip" => resp.gzip,
         heap'.out = heap.out - One(bg.owned) + One(bg'.owned)
  PROVE  IInv'
<1>1. /\ ew.alive /\ ew.active = 0 /\ InHands(Bodies) = 0 /\ ~env.refused /\ ~env.readError
      /\ resp.heldBy = "body" /\ resp.body /\ src.open /\ InHands(Heads) = 0
      /\ InHands(OwnedBodies) \in Nat /\ heap.out = InHands(OwnedBodies) + One(bg.owned)
  BY InNextFacts
<1>2. \A S : InHands(S)' = InHands(S)
  BY DEF InHands
<1>3. HolderInv'
  BY <1>1, <1>2 DEF IInv, HolderInv
<1>4. OneWriteInv'
  BY <1>1, <1>2 DEF OneWriteInv, One
<1>5. heap'.out = InHands(OwnedBodies) + One(bg'.owned)
  BY <1>1 DEF One
<1>6. OutputInv'
  BY <1>2, <1>5 DEF OutputInv
<1> QED BY <1>3, <1>4, <1>6 DEF IInv

\* The ExtendedWrite deletes itself.
LEMMA DisposeStep ==
  ASSUME IInv, InNext, NEW e \in ExtendedWrite, e.active = ew.active, Dispose(e),
         env' \in Outside, env'.other = env.other, env'.refused = env.refused,
         bg.owned => env'.readError /\ resp.gzip
  PROVE  IInv'
<1>1. TypeOK /\ InputInv
  BY DEF IInv
<1>2. /\ ew.active = 0 /\ InHands(Bodies) = 0 /\ ~env.refused /\ InHands(Heads) = 0
      /\ InHands(OwnedBodies) \in Nat /\ heap.out = InHands(OwnedBodies) + One(bg.owned)
  BY InNextFacts
<1>3. /\ ew' = [e EXCEPT !.alive = FALSE] /\ resp' = Released(resp) /\ Destructor(resp)
      /\ bg' = [bg EXCEPT !.at = Back(bg.pq), !.buf = <<>>, !.owned = FALSE]
  BY DEF Dispose
<1>4. ew' \in ExtendedWrite /\ ~ew'.alive /\ ew'.active = 0
  BY <1>2, <1>3 DEF ExtendedWrite
<1>5. /\ src' \in DataSource /\ stream' \in Stream /\ gz' \in GZipDataSource
      /\ heap' \in [out : Nat, in : Nat] /\ heap'.out = heap.out /\ InputInv'
      /\ \A S : Pending(stream', S) = Pending(stream, S)
  BY <1>1, <1>3, DestructorEffect
<1>6. resp' \in HttpResponse /\ resp'.heldBy = "nobody" /\ resp'.gzip = resp.gzip
  BY <1>1, <1>3 DEF TypeOK, Released, HttpResponse
<1>7. /\ bg.pq \in Seq(WriteReq) /\ Back(bg.pq) \in {"loop", "callbacks"}
      /\ Back(bg.pq) = "callbacks" <=> bg.pq # <<>>
  <2>1. bg.pq \in Seq(WriteReq)
    BY <1>1 DEF TypeOK, Thread
  <2> QED BY <2>1, BackTyped
<1>8. bg' \in Thread /\ bg'.pq = bg.pq /\ bg'.at = Back(bg.pq) /\ ~bg'.owned
  <2> DEFINE none == <<>>
             at == Back(bg.pq)
  <2>1. /\ none \in Seq(Unit) /\ at \in {"loop", "callbacks"} /\ bg \in Thread
        /\ bg' = [bg EXCEPT !.at = at, !.buf = none, !.owned = FALSE]
    BY <1>1, <1>3, <1>7 DEF TypeOK
  <2> HIDE DEF none, at
  <2>2. bg' \in Thread /\ bg'.pq = bg.pq /\ bg'.at = at /\ ~bg'.owned
    BY <2>1 DEF Thread
  <2> QED BY <2>2 DEF at
<1>9. TypeOK'
  BY <1>4, <1>5, <1>6, <1>7, <1>8 DEF TypeOK
<1>10. \A S : InHands(S)' = InHands(S)
  BY <1>5, <1>8 DEF InHands
<1>11. InHands(Others)' > 0 => env'.other
  BY <1>10 DEF IInv, HolderInv
<1>12. \/ heap'.out = InHands(OwnedBodies)'
       \/ heap'.out = InHands(OwnedBodies)' + 1 /\ env'.readError /\ resp'.gzip
  BY <1>2, <1>5, <1>6, <1>10 DEF One
<1> QED BY <1>2, <1>4, <1>5, <1>6, <1>7, <1>8, <1>9, <1>10, <1>11, <1>12, OverIsSafe

\* next() with nothing left to send, and a read that fails.
LEMMA EndOfBodyStep ==
  ASSUME IInv, NextDisposes \/ ReadFails
  PROVE  IInv'
<1>1. TypeOK
  BY DEF IInv
<1>2. InNext
  BY DEF NextDisposes, ReadFails, InNext
<1>3. ew.active = 0
  BY <1>2, InNextFacts
<1>4. CASE NextDisposes
  <2>1. Dispose(ew) /\ env' = env /\ bg.at = "next"
    BY <1>3, <1>4 DEF NextDisposes
  <2>2. ~bg.owned
    BY <2>1 DEF IInv, OutputInv
  <2>3. ew \in ExtendedWrite /\ env' \in Outside
    BY <1>1, <2>1 DEF TypeOK
  <2> QED BY <1>2, <2>1, <2>2, <2>3, DisposeStep
<1>5. CASE ReadFails
  <2> DEFINE e == [ew EXCEPT !.errored = TRUE]
  <2>1. Dispose(e) /\ env' = [env EXCEPT !.readError = TRUE] /\ bg.at \in {"next", "gzip"}
    BY <1>3, <1>5 DEF ReadFails
  <2>2. bg.owned => resp.gzip
    BY <2>1 DEF IInv, OutputInv
  <2>3. e \in ExtendedWrite /\ e.active = ew.active
    BY <1>1 DEF TypeOK, ExtendedWrite
  <2>4. /\ env' \in Outside /\ env'.other = env.other /\ env'.refused = env.refused
        /\ env'.readError
    BY <1>1, <2>1 DEF TypeOK, Outside
  <2> HIDE DEF e
  <2> QED BY <1>2, <2>1, <2>2, <2>3, <2>4, DisposeStep
<1> QED BY <1>4, <1>5

\* getData's answer: memory where it lies, a new buffer of the file, or the
\* start of zlib's loop.
LEMMA NextGetsDataStep ==
  ASSUME IInv, NextGetsData
  PROVE  IInv'
<1> DEFINE more == gz.state # "Done"
           at == IF gz.state = "Done" THEN "write" ELSE "gzip"
           none == <<>>
           bytes == GetData(src, Window)
           buf == Apply(Byte, bytes)
           own == Mallocs(src) = 1
<1>1. TypeOK /\ bg.at = "next" /\ ~bg.owned
  BY DEF IInv, NextGetsData, OutputInv
<1>2. /\ resp' = resp /\ ew' = ew /\ stream' = stream /\ env' = env
  BY DEF NextGetsData
<1>3. heap \in [out : Nat, in : Nat] /\ bg \in Thread
  BY <1>1 DEF TypeOK
<1>4. InNext
  BY <1>1 DEF InNext
<1>5. CASE resp.gzip
  <2>1. /\ bg' = [bg EXCEPT !.at = at, !.buf = none, !.owned = more]
        /\ heap' = [heap EXCEPT !.out = @ + (IF gz.state = "Done" THEN 0 ELSE 1)]
        /\ gz' = [gz EXCEPT !.out = none] /\ src' = src
    BY <1>5 DEF NextGetsData
  <2>2. /\ at \in {"write", "gzip"} /\ more \in BOOLEAN /\ none \in Seq(Unit)
    OBVIOUS
  <2>3. (IF gz.state = "Done" THEN 0 ELSE 1) = One(more)
    BY DEF One
  <2> HIDE DEF at, more, none
  <2>4. bg' \in Thread /\ bg'.pq = bg.pq /\ bg'.at = at /\ bg'.owned = more
    BY <1>3, <2>1, <2>2 DEF Thread
  <2>5. heap' \in [out : Nat, in : Nat] /\ heap'.out = heap.out + One(more) /\ heap'.in = heap.in
    BY <1>3, <2>1, <2>3 DEF One
  <2>6. gz' \in GZipDataSource /\ gz'.in = gz.in /\ gz'.inBuf = gz.inBuf
    BY <1>1, <2>1, <2>2 DEF TypeOK, GZipDataSource
  <2>7. TypeOK'
    BY <1>1, <1>2, <2>1, <2>2, <2>4, <2>5, <2>6 DEF TypeOK
  <2>8. InputInv'
    BY <1>2, <2>1, <2>5, <2>6 DEF IInv, InputInv, InputBufs
  <2>9. InNext'
    BY <2>2, <2>4 DEF InNext
  <2>10. heap'.out = heap.out - One(bg.owned) + One(bg'.owned)
    BY <1>1, <1>3, <2>4, <2>5 DEF One
  <2> QED BY <1>2, <1>4, <1>5, <2>1, <2>2, <2>4, <2>7, <2>8, <2>9, <2>10, FrameNext
<1>6. CASE ~resp.gzip
  <2>1. /\ bg' = [bg EXCEPT !.at = "write", !.buf = buf, !.owned = own]
        /\ heap' = [heap EXCEPT !.out = @ + Mallocs(src)]
        /\ src' = [src EXCEPT !.pos = @ + Len(bytes)] /\ gz' = gz
    BY <1>6 DEF NextGetsData
  <2>2. Mallocs(src) = One(own) /\ own \in BOOLEAN
    BY DEF Mallocs, One
  <2>3. bytes \in Seq(Nat) /\ Len(bytes) \in Nat /\ src \in DataSource
    BY <1>1, WindowAssumption, GetDataTyped DEF TypeOK
  <2>4. buf \in Seq(Unit)
    BY <2>3, ApplyTyped
  <2> HIDE DEF own, bytes, buf
  <2>5. bg' \in Thread /\ bg'.pq = bg.pq /\ bg'.at = "write" /\ bg'.owned = own
    BY <1>3, <2>1, <2>2, <2>4 DEF Thread
  <2>6. heap' \in [out : Nat, in : Nat] /\ heap'.out = heap.out + One(own) /\ heap'.in = heap.in
    BY <1>3, <2>1, <2>2 DEF One
  <2>7. src' \in DataSource /\ src'.open = src.open /\ src'.kind = src.kind
    BY <2>1, <2>3, PosMoves
  <2>8. TypeOK'
    BY <1>1, <1>2, <2>1, <2>5, <2>6, <2>7 DEF TypeOK
  <2>9. InputInv'
    BY <1>2, <2>1, <2>6, <2>7 DEF IInv, InputInv, InputBufs
  <2>10. InNext'
    BY <2>5 DEF InNext
  <2>11. heap'.out = heap.out - One(bg.owned) + One(bg'.owned)
    BY <1>1, <1>3, <2>5, <2>6 DEF One
  <2> QED BY <1>2, <1>4, <2>5, <2>7, <2>8, <2>9, <2>10, <2>11, FrameNext
<1> QED BY <1>5, <1>6

\* next() writes the buffer, or has none to write.
LEMMA NextWritesStep ==
  ASSUME IInv, NextWrites
  PROVE  IInv'
<1> DEFINE units == BodyUnits(resp.framing = "chunked", bg.buf)
           done == [ew EXCEPT !.completed = bg.buf = <<>>]
           none == <<>>
           req == Req("body", units, bg.owned)
<1>1. TypeOK /\ bg.at = "write"
  BY DEF IInv, NextWrites
<1>2. /\ resp' = resp /\ src' = src /\ gz' = gz
      /\ \/ /\ units = none
            /\ heap' = [heap EXCEPT !.out = @ - (IF bg.owned THEN 1 ELSE 0)]
            /\ ew' = done
            /\ bg' = [bg EXCEPT !.at = "next", !.owned = FALSE]
            /\ stream' = stream /\ env' = env
         \/ /\ ew' = [done EXCEPT !.active = @ + 1]
            /\ bg' = [bg EXCEPT !.at = Back(bg.pq), !.buf = none, !.owned = FALSE]
            /\ \/ env' = [env EXCEPT !.refused = TRUE] /\ stream' = stream
               \/ stream' \in uv_write(stream, bg.pq, req) /\ env' = env
            /\ heap' = heap
  BY Zenon DEF NextWrites, BodyUnits
<1>3. InNext
  BY <1>1 DEF InNext
<1>4. /\ ew.alive /\ ew.active = 0 /\ InHands(Bodies) = 0 /\ ~env.refused /\ ~env.readError
      /\ resp.heldBy = "body" /\ resp.body /\ src.open /\ InHands(Heads) = 0
      /\ InHands(OwnedBodies) \in Nat /\ heap.out = InHands(OwnedBodies) + One(bg.owned)
  BY <1>3, InNextFacts
<1>5. /\ heap \in [out : Nat, in : Nat] /\ bg \in Thread /\ bg.owned \in BOOLEAN
      /\ ew \in ExtendedWrite /\ bg.buf \in Seq(Unit) /\ bg.pq \in Seq(WriteReq)
      /\ stream \in Stream /\ env \in Outside
  BY <1>1 DEF TypeOK, Thread
<1>6. units \in Seq(Unit) /\ none \in Seq(Unit)
  <2>1. (resp.framing = "chunked") \in BOOLEAN
    OBVIOUS
  <2>2. units \in Seq(Unit)
    BY <1>5, <2>1, BodyUnitsTyped, Zenon
  <2> QED BY <2>2
<1>7. done \in ExtendedWrite /\ done.alive = ew.alive /\ done.active = ew.active
  BY <1>5 DEF ExtendedWrite
<1>8. /\ req \in WriteReq /\ req \in Bodies /\ req \notin Heads /\ req \notin Others
      /\ req \in OwnedBodies <=> bg.owned
  BY <1>5, <1>6, ReqTyped
<1> HIDE DEF units, done, none, req
<1>9. ASSUME heap' = [heap EXCEPT !.out = @ - (IF bg.owned THEN 1 ELSE 0)],
             ew' = done, bg' = [bg EXCEPT !.at = "next", !.owned = FALSE],
             stream' = stream, env' = env
      PROVE  IInv'
  <2>1. bg' \in Thread /\ bg'.pq = bg.pq /\ bg'.at = "next" /\ ~bg'.owned
    BY <1>5, <1>9 DEF Thread
  <2>2. heap.out - (IF bg.owned THEN 1 ELSE 0) \in Nat
    BY <1>4, <1>5 DEF One
  <2>3. /\ heap' \in [out : Nat, in : Nat] /\ heap'.in = heap.in
        /\ heap'.out = heap.out - (IF bg.owned THEN 1 ELSE 0)
    BY <1>5, <1>9, <2>2
  <2>4. heap'.out = heap.out - One(bg.owned) + One(bg'.owned)
    BY <1>5, <2>1, <2>3 DEF One
  <2>5. TypeOK'
    BY <1>1, <1>2, <1>7, <1>9, <2>1, <2>3 DEF TypeOK
  <2>6. InputInv'
    BY <1>2, <1>7, <1>9, <2>3 DEF IInv, InputInv, InputBufs
  <2>7. InNext'
    BY <2>1 DEF InNext
  <2> QED BY <1>2, <1>3, <1>7, <1>9, <2>1, <2>4, <2>5, <2>6, <2>7, FrameNext
<1>10. ASSUME ew' = [done EXCEPT !.active = @ + 1],
              bg' = [bg EXCEPT !.at = Back(bg.pq), !.buf = none, !.owned = FALSE],
              \/ env' = [env EXCEPT !.refused = TRUE] /\ stream' = stream
              \/ stream' \in uv_write(stream, bg.pq, req) /\ env' = env,
              heap' = heap
       PROVE  IInv'
  <2> DEFINE at == Back(bg.pq)
  <2>1. at \in {"loop", "callbacks"} /\ (at = "callbacks" <=> bg.pq # <<>>)
    BY <1>5, BackTyped
  <2> HIDE DEF at
  <2>2. bg' \in Thread /\ bg'.pq = bg.pq /\ bg'.at = at /\ ~bg'.owned
    <3>1. bg' = [bg EXCEPT !.at = at, !.buf = none, !.owned = FALSE]
      BY <1>10 DEF at
    <3> QED BY <1>5, <1>6, <2>1, <3>1 DEF Thread
  <2>3. ew' \in ExtendedWrite /\ ew'.alive /\ ew'.active = 1
    <3>1. ew' = [done EXCEPT !.active = 1]
      BY <1>4, <1>7, <1>10
    <3> QED BY <1>4, <1>7, <3>1 DEF ExtendedWrite
  <2>4. /\ env' \in Outside /\ env'.other = env.other /\ env'.readError = env.readError
        /\ stream' \in Stream
        /\ \/ env'.refused /\ \A S \in Kinds : Pending(stream', S) = Pending(stream, S)
           \/ /\ ~env'.refused
              /\ \A S \in Kinds : Pending(stream', S) = Pending(stream, S) + One(req \in S)
    <3>1. CASE env' = [env EXCEPT !.refused = TRUE] /\ stream' = stream
      BY <1>5, <3>1 DEF Outside
    <3>2. CASE stream' \in uv_write(stream, bg.pq, req) /\ env' = env
      <4>1. /\ stream' \in Stream
            /\ \A S \in Kinds : Pending(stream', S) = Pending(stream, S) + One(req \in S)
        BY <1>5, <1>8, <3>2, WriteEffect
      <4> QED BY <1>4, <1>5, <3>2, <4>1
    <3> QED BY <1>10, <3>1, <3>2
  <2>5. TypeOK'
    BY <1>1, <1>2, <1>10, <2>1, <2>2, <2>3, <2>4 DEF TypeOK
  <2>6. ASSUME NEW S \in Kinds
        PROVE  IF env'.refused THEN InHands(S)' = InHands(S)
               ELSE InHands(S)' = InHands(S) + One(req \in S)
    <3>1. InHands(S)' = Pending(stream', S) + CountIn(bg.pq, S)
      BY <2>2 DEF InHands
    <3>2. Pending(stream, S) \in Nat /\ CountIn(bg.pq, S) \in Nat
      BY <1>1, HandsTyped
    <3> QED BY <2>4, <3>1, <3>2 DEF InHands, One
  <2>7. IF env'.refused
        THEN /\ InHands(Bodies)' = 0 /\ InHands(OwnedBodies)' = InHands(OwnedBodies)
             /\ InHands(Heads)' = 0 /\ InHands(Others)' = InHands(Others)
        ELSE /\ InHands(Bodies)' = 1
             /\ InHands(OwnedBodies)' = InHands(OwnedBodies) + One(bg.owned)
             /\ InHands(Heads)' = 0 /\ InHands(Others)' = InHands(Others)
    <3>1. Bodies \in Kinds /\ OwnedBodies \in Kinds /\ Heads \in Kinds /\ Others \in Kinds
      BY DEF Kinds
    <3>2. InHands(Others) \in Nat
      BY <1>1, HandsTyped DEF InHands
    <3>3. CASE env'.refused
      BY <1>4, <2>6, <3>1, <3>3
    <3>4. CASE ~env'.refused
      <4>1. /\ InHands(Bodies)' = InHands(Bodies) + One(req \in Bodies)
            /\ InHands(OwnedBodies)' = InHands(OwnedBodies) + One(req \in OwnedBodies)
            /\ InHands(Heads)' = InHands(Heads) + One(req \in Heads)
            /\ InHands(Others)' = InHands(Others) + One(req \in Others)
        BY <2>6, <3>1, <3>4
      <4>2. One(req \in OwnedBodies) = One(bg.owned)
        BY <1>8 DEF One
      <4> QED BY <1>4, <1>8, <3>2, <3>4, <4>1, <4>2 DEF One
    <3> QED BY <3>3, <3>4
  <2>8. HolderInv'
    <3>1. InHands(Heads)' = 0 /\ (InHands(Others)' > 0 => env'.other)
      BY <2>4, <2>7 DEF IInv, HolderInv
    <3> QED BY <1>2, <1>4, <2>3, <2>4, <3>1 DEF HolderInv, One
  <2>9. OneWriteInv'
    <3>1. InHands(Bodies)' + One(env'.refused) = 1
      BY <2>7 DEF One
    <3>2. ~InNext'
      BY <2>1, <2>2 DEF InNext
    <3> QED BY <2>3, <3>1, <3>2 DEF OneWriteInv
  <2>10. OutputInv'
    <3>1. CASE env'.refused
      BY <1>4, <1>5, <1>10, <2>1, <2>2, <2>7, <3>1 DEF OutputInv, One
    <3>2. CASE ~env'.refused
      BY <1>4, <1>5, <1>10, <2>1, <2>2, <2>7, <3>2 DEF OutputInv, One
    <3> QED BY <3>1, <3>2
  <2>11. InputInv'
    BY <1>2, <1>4, <1>10, <2>3 DEF IInv, InputInv, InputBufs
  <2> QED BY <2>5, <2>8, <2>9, <2>10, <2>11 DEF IInv
<1> QED BY <1>2, <1>9, <1>10

\* A turn of zlib's loop, and its end.
LEMMA GzipStep ==
  ASSUME IInv, GzipTurn \/ GzipReturns
  PROVE  IInv'
<1>1. TypeOK /\ InputInv /\ bg.at = "gzip"
  BY DEF IInv, GzipTurn, GzipReturns
<1>2. InNext
  BY <1>1 DEF InNext
<1>3. ew.alive /\ resp.gzip
  BY <1>1, <1>2, InNextFacts DEF IInv, OutputInv
<1>4. /\ heap \in [out : Nat, in : Nat] /\ heap.in = InputBufs(gz) /\ gz \in GZipDataSource
      /\ gz.inBuf \in BOOLEAN /\ src \in DataSource /\ bg \in Thread
  BY <1>1 DEF TypeOK, InputInv, GZipDataSource
<1>5. ASSUME gz' \in GZipDataSource, heap' \in [out : Nat, in : Nat], InputInv',
             src' \in DataSource, src'.open = src.open, bg' \in Thread,
             bg'.at \in {"gzip", "write"}, bg'.pq = bg.pq, bg'.owned = bg.owned,
             heap'.out = heap.out,
             resp' = resp, ew' = ew, stream' = stream, env' = env
      PROVE  IInv'
  <2>1. TypeOK'
    BY <1>1, <1>5 DEF TypeOK
  <2>2. InNext'
    BY <1>5 DEF InNext
  <2>3. heap'.out = heap.out - One(bg.owned) + One(bg'.owned)
    BY <1>4, <1>5 DEF One
  <2> QED BY <1>2, <1>3, <1>5, <2>1, <2>2, <2>3, FrameNext
<1>6. CASE GzipTurn
  <2> DEFINE fetch == gz.state = "Streaming" /\ gz.in = <<>>
  <2>1. /\ resp' = resp /\ ew' = ew /\ stream' = stream /\ bg' = bg /\ env' = env
        /\ Len(gz.out) < Window
    BY <1>6 DEF GzipTurn
  <2>2. CASE fetch
    <3> DEFINE bytes == GetData(src, Window)
               freed == FreeInputBuffer(gz)
               own == Mallocs(src) = 1
               state == IF bytes = <<>> THEN "Finishing" ELSE freed.state
               fed == [freed EXCEPT !.in = bytes, !.inBuf = own, !.state = state]
    <3>1. /\ gz' \in Deflate(fed)
          /\ src' = [src EXCEPT !.pos = @ + Len(bytes)]
          /\ heap' = [heap EXCEPT !.in = @ - InputBufs(gz) + InputBufs(freed) + Mallocs(src)]
      BY <1>6, <2>2, Zenon DEF GzipTurn
    <3>2. bytes \in Seq(Nat) /\ Len(bytes) \in Nat
      BY <1>4, WindowAssumption, GetDataTyped
    <3>3. freed \in GZipDataSource /\ freed.out = gz.out /\ ~freed.inBuf
      BY <1>4, <2>2 DEF FreeInputBuffer, GZipDataSource
    <3>4. /\ Mallocs(src) = One(own) /\ own \in BOOLEAN /\ (src.kind = "file" => own)
          /\ state \in {"Streaming", "Finishing", "Done"}
      BY <3>3 DEF Mallocs, One, GZipDataSource
    <3> HIDE DEF bytes, freed, own, state
    <3>5. fed \in GZipDataSource /\ fed.out = gz.out /\ fed.inBuf = own
      BY <3>2, <3>3, <3>4 DEF GZipDataSource
    <3> HIDE DEF fed
    <3>6. gz' \in GZipDataSource /\ gz'.inBuf = own
      BY <2>1, <3>1, <3>5, DeflateEffect
    <3>7. heap.in - InputBufs(gz) + InputBufs(freed) + Mallocs(src) = One(own)
      BY <1>4, <3>3, <3>4 DEF InputBufs, One
    <3>8. heap' \in [out : Nat, in : Nat] /\ heap'.out = heap.out /\ heap'.in = One(own)
      <4>1. heap' = [heap EXCEPT !.in = One(own)] /\ One(own) \in Nat
        BY <1>4, <3>1, <3>7 DEF One
      <4> QED BY <1>4, <4>1
    <3>9. src' \in DataSource /\ src'.open = src.open /\ src'.kind = src.kind
      BY <1>4, <3>1, <3>2, PosMoves
    <3>10. InputInv'
      BY <1>3, <2>1, <3>4, <3>6, <3>8, <3>9 DEF InputInv, InputBufs, One
    <3> QED BY <1>1, <1>4, <1>5, <2>1, <3>6, <3>8, <3>9, <3>10
  <2>3. CASE ~fetch
    <3> DEFINE none == <<>>
               n == Len(none)
    <3>1. /\ gz' \in Deflate(gz)
          /\ src' = [src EXCEPT !.pos = @ + n]
          /\ heap' = [heap EXCEPT !.in = @ - InputBufs(gz) + InputBufs(gz) + 0]
      BY <1>6, <2>3, Zenon DEF GzipTurn
    <3>2. n \in Nat
      OBVIOUS
    <3> HIDE DEF n
    <3>3. gz' \in GZipDataSource /\ gz'.inBuf = gz.inBuf /\ (gz'.in # <<>> => gz.in # <<>>)
      BY <1>4, <2>1, <3>1, DeflateEffect
    <3>4. heap' \in [out : Nat, in : Nat] /\ heap'.out = heap.out /\ heap'.in = heap.in
      <4>1. heap.in - InputBufs(gz) + InputBufs(gz) + 0 = heap.in
        BY <1>4 DEF InputBufs
      <4> QED BY <1>4, <3>1, <4>1
    <3>5. src' \in DataSource /\ src'.open = src.open /\ src'.kind = src.kind
      BY <1>4, <3>1, <3>2, PosMoves
    <3>6. InputInv'
      BY <1>1, <1>3, <2>1, <3>3, <3>4, <3>5 DEF InputInv, InputBufs
    <3> QED BY <1>1, <1>4, <1>5, <2>1, <3>3, <3>4, <3>5, <3>6
  <2> QED BY <2>2, <2>3
<1>7. CASE GzipReturns
  <2> DEFINE freed == FreeInputBuffer(gz)
             none == <<>>
  <2>1. /\ gz' = [freed EXCEPT !.out = none]
        /\ heap' = [heap EXCEPT !.in = @ - InputBufs(gz) + InputBufs(freed)]
        /\ bg' = [bg EXCEPT !.at = "write", !.buf = gz.out]
        /\ resp' = resp /\ src' = src /\ ew' = ew /\ stream' = stream /\ env' = env
    BY <1>7 DEF GzipReturns
  <2>2. /\ freed \in GZipDataSource /\ freed.in = gz.in
        /\ gz.in # <<>> => freed.inBuf = gz.inBuf
    BY <1>4 DEF FreeInputBuffer, GZipDataSource
  <2>3. none \in Seq(Unit)
    OBVIOUS
  <2> HIDE DEF freed, none
  <2>4. gz' \in GZipDataSource /\ gz'.in = gz.in /\ gz'.inBuf = freed.inBuf
    BY <2>1, <2>2, <2>3 DEF GZipDataSource
  <2>5. heap' \in [out : Nat, in : Nat] /\ heap'.out = heap.out /\ heap'.in = InputBufs(freed)
    <3>1. heap.in - InputBufs(gz) + InputBufs(freed) = InputBufs(freed) /\ InputBufs(freed) \in Nat
      BY <1>4 DEF InputBufs
    <3> QED BY <1>4, <2>1, <3>1
  <2>6. bg' \in Thread /\ bg'.at = "write" /\ bg'.pq = bg.pq /\ bg'.owned = bg.owned
    <3>1. gz.out \in Seq(Unit)
      BY <1>4 DEF GZipDataSource
    <3> QED BY <1>4, <2>1, <3>1 DEF Thread
  <2>7. InputInv'
    BY <1>1, <1>3, <2>1, <2>2, <2>4, <2>5 DEF InputInv, InputBufs
  <2> QED BY <1>4, <1>5, <2>1, <2>4, <2>5, <2>6, <2>7
<1> QED BY <1>6, <1>7

-----------------------------------------------------------------------------
(* The theorems.                                                            *)

\* Every step keeps the invariant.
LEMMA NextIInv ==
  ASSUME IInv, [Next]_vars
  PROVE  IInv'
<1>1. CASE WriteResponse
  BY <1>1, WriteResponseStep
<1>2. CASE RunCallback
  BY <1>2, OnResponseWrittenStep, WriteOpEndStep, OtherWrittenStep DEF RunCallback
<1>3. CASE NextDisposes \/ ReadFails
  BY <1>3, EndOfBodyStep
<1>4. CASE NextGetsData
  BY <1>4, NextGetsDataStep
<1>5. CASE NextWrites
  BY <1>5, NextWritesStep
<1>6. CASE GzipTurn \/ GzipReturns
  BY <1>6, GzipStep
<1>7. CASE Poll
  BY <1>7, PollStep
<1>8. CASE Destroy
  BY <1>8, DestroyStep
<1>9. CASE Close \/ ClientGone \/ FileChanges
  BY <1>9, OutsideStep
<1>10. CASE OtherResponse
  BY <1>10, OtherResponseStep
<1>11. CASE UNCHANGED vars
  <2>1. /\ resp' = resp /\ src' = src /\ gz' = gz /\ ew' = ew /\ stream' = stream
        /\ bg' = bg /\ heap' = heap /\ env' = env
    BY <1>11 DEF vars
  <2>2. TypeOK'
    BY <2>1 DEF IInv, TypeOK
  <2>3. \A S : InHands(S)' = InHands(S)
    BY <2>1 DEF InHands
  <2>4. InHands(Others)' > 0 => env'.other
    BY <2>1, <2>3 DEF IInv, HolderInv
  <2> QED BY <2>1, <2>2, <2>3, <2>4, Frame
<1> QED
  BY <1>1, <1>2, <1>3, <1>4, <1>5, <1>6, <1>7, <1>8, <1>9, <1>10, <1>11 DEF Next, Background

\* The counts of writes and buffers in a response's code agree with what
\* libuv holds at every moment, for bodies, buffers and limits of every size.
THEOREM IndInv == Spec => []IInv
<1>1. Init => IInv
  BY InitIInv
<1>2. IInv /\ [Next]_vars => IInv'
  BY NextIInv
<1> QED BY <1>1, <1>2, PTL DEF Spec

\* Every variable of the response keeps its type; no count of buffers or of
\* writes goes below zero (_activeWrites of ExtendedWrite is compared with 0
\* and nothing else).
THEOREM TypeCorrect == Spec => []TypeOK
<1>1. IInv => TypeOK
  BY DEF IInv
<1> QED BY <1>1, IndInv, PTL

\* Every malloced buffer has its one owner (WriteOp, next() or
\* GZipDataSource), nothing is freed before it is written or compressed, and
\* only the two known leaks lose one.
THEOREM BuffersOwnedHolds == Spec => []BuffersOwned
<1>1. IInv => BuffersOwned
  <2> SUFFICES ASSUME IInv PROVE BuffersOwned
    OBVIOUS
  <2>1. TypeOK
    BY DEF IInv
  <2>2. InFlight(BodyAt) = InHands(Bodies) /\ InFlight(OwnedAt) = InHands(OwnedBodies)
    BY <2>1, InFlightCounts
  <2>3. \A S : InHands(S) \in Nat
    BY <2>1, HandsTyped DEF InHands
  <2> DEFINE lost == heap.out - InFlight(OwnedAt) - (IF bg.owned THEN 1 ELSE 0)
  <2>4. lost \in (IF env.refused \/ (env.readError /\ resp.gzip) THEN {0, 1} ELSE {0})
    BY <2>2, <2>3 DEF IInv, OutputInv, One
  <2>5. heap.in = InputBufs(gz) /\ ((gz.in # <<>> /\ src.kind = "file") => gz.inBuf)
    BY DEF IInv, InputInv
  <2>6. ew.active = InFlight(BodyAt) + (IF env.refused THEN 1 ELSE 0)
    BY <2>2 DEF IInv, OneWriteInv, One
  <2>7. (InFlight(BodyAt) > 0 \/ gz.in # <<>>) => src.open /\ ew.alive
    <3>1. ew.alive => src.open
      BY DEF IInv, HolderInv
    <3>2. InHands(Bodies) > 0 => ew.alive
      BY <2>3 DEF IInv, OneWriteInv, One
    <3> QED BY <2>2, <3>1, <3>2 DEF IInv, InputInv
  <2> QED BY <2>4, <2>5, <2>6, <2>7 DEF BuffersOwned
<1> QED BY <1>1, IndInv, PTL

\* No lost wake-up: a body that is not through has a write under way whose
\* callback calls next(), but for the refused write and the write of another
\* response behind it.
THEOREM BodyKeepsMovingHolds == Spec => []BodyKeepsMoving
<1>1. IInv => BodyKeepsMoving
  <2> SUFFICES ASSUME IInv, bg.at = "loop", ew.alive, ~env.refused, ~env.other
               PROVE  InFlight(BodyAt) > 0
    BY DEF BodyKeepsMoving
  <2>1. InFlight(BodyAt) = InHands(Bodies)
    BY InFlightCounts DEF IInv
  <2>2. ~InNext
    BY DEF InNext
  <2>3. InHands(Bodies) \in Nat
    BY HandsTyped DEF IInv, InHands
  <2> QED BY <2>1, <2>2, <2>3 DEF IInv, OneWriteInv, One
<1> QED BY <1>1, IndInv, PTL
=============================================================================
