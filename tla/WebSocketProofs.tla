---------------------------- MODULE WebSocketProofs ----------------------------
(***************************************************************************)
(* Proofs about WebSocketConnection for any frames of the client, any      *)
(* number of frames, messages and pings: the types, the closing handshake  *)
(* as the server sees it, and the buffers and the order of what R sends.   *)
(***************************************************************************)
EXTENDS WebSocketConnection, SequencesExt, SequenceTheorems, FiniteSetTheorems,
        FunctionTheorems, WellFoundedInduction, TLAPS

(* Facts about sequences that the proofs below use.                         *)

\* A nonempty set of natural numbers has a least element.
LEMMA LeastElement ==
  ASSUME NEW T, T \subseteq Nat, T # {}
  PROVE  \E x \in T : \A y \in T : x <= y
<1> DEFINE R == OpToRel(<, Nat)
<1>1. \A x, y \in Nat : <<x, y>> \in R <=> x < y
  BY DEF OpToRel
<1>2. IsWellFoundedOn(R, Nat)
  BY NatLessThanWellFounded
<1> HIDE DEF R
<1>3. PICK x \in T : \A y \in T : ~(<<y, x>> \in R)
  BY <1>2, WFMin
<1>4. ASSUME NEW y \in T PROVE x <= y
  <2>1. x \in Nat /\ y \in Nat
    OBVIOUS
  <2>2. ~(y < x)
    BY <1>1, <1>3, <2>1
  <2> QED BY <2>1, <2>2
<1> QED BY <1>4

\* A function on the first n numbers is a sequence of length n.
LEMMA FunctionIsSeq ==
  ASSUME NEW S, NEW n \in Nat, NEW f \in [1..n -> S]
  PROVE  f \in Seq(S) /\ Len(f) = n
<1>1. Seq(S) = UNION {[1..m -> S] : m \in Nat}
  BY SeqDef, Zenon
<1>2. [1..n -> S] \in {[1..m -> S] : m \in Nat}
  BY Zenon
<1>3. f \in Seq(S)
  BY <1>1, <1>2, Zenon
<1>4. Len(f) \in Nat /\ DOMAIN f = 1..Len(f) /\ DOMAIN f = 1..n
  BY <1>3, LenProperties
<1>5. 1..Len(f) = 1..n
  BY <1>4
<1> QED BY <1>3, <1>4, <1>5

\* Popping the front keeps the order and brings in nothing new.
LEMMA TailRange ==
  ASSUME NEW S, NEW s \in Seq(S), s # <<>>
  PROVE  /\ Head(s) \in S /\ Tail(s) \in Seq(S) /\ Head(s) = s[1]
         /\ Len(s) \in Nat \ {0} /\ Len(Tail(s)) = Len(s) - 1
         /\ \A i \in 1..Len(Tail(s)) : Tail(s)[i] = s[i + 1]
         /\ Range(s) = {Head(s)} \cup Range(Tail(s))
<1>1. /\ Head(s) \in S /\ Tail(s) \in Seq(S) /\ Head(s) = s[1]
      /\ Len(s) \in Nat \ {0} /\ Len(Tail(s)) = Len(s) - 1
      /\ \A i \in 1..Len(Tail(s)) : Tail(s)[i] = s[i + 1]
  BY HeadTailProperties, EmptySeq
<1>2. Range(s) = {Head(s)} \cup Range(Tail(s))
  <2> DEFINE t == Tail(s)
  <2>1. Range(s) = {s[i] : i \in 1..Len(s)} /\ Range(t) = {t[i] : i \in 1..Len(t)}
    BY <1>1, RangeEquality, ZenonT(40)
  <2> HIDE DEF t
  <2>2. ASSUME NEW x \in Range(s) PROVE x \in {Head(s)} \cup Range(t)
    <3>1. PICK i \in 1..Len(s) : s[i] = x
      BY <2>1
    <3>2. CASE i = 1
      BY <1>1, <3>1, <3>2
    <3>3. CASE i # 1
      <4>1. i - 1 \in 1..Len(t) /\ t[i - 1] = s[i]
        BY <1>1, <3>3 DEF t
      <4> QED BY <2>1, <3>1, <4>1
    <3> QED BY <3>2, <3>3
  <2>3. ASSUME NEW x \in {Head(s)} \cup Range(t) PROVE x \in Range(s)
    <3>1. CASE x = Head(s)
      BY <1>1, <2>1, <3>1
    <3>2. CASE x \in Range(t)
      <4>1. PICK i \in 1..Len(t) : t[i] = x
        BY <2>1, <3>2
      <4>2. i + 1 \in 1..Len(s) /\ s[i + 1] = x
        BY <1>1, <4>1 DEF t
      <4> QED BY <2>1, <4>2
    <3> QED BY <3>1, <3>2
  <2> QED BY <2>2, <2>3 DEF t
<1> QED BY <1>1, <1>2

-----------------------------------------------------------------------------
(* The inductive invariant. *)

\* The bytes of a header that the parser keeps do not make a whole one.
HeaderPending == ~HeaderComplete(parser.header)

\* Behind R's close nothing is sent and nothing closed again; the buffer of a
\* message is freed after the message is sent; messages are in their order.
QueueInOrder ==
  /\ \A i, j \in 1..Len(bgq) : i < j =>
       /\ bgq[i].op = "closeWS" => bgq[j].op # "send"
       /\ bgq[i].op = "send" /\ bgq[j].op = "send" => bgq[i].n < bgq[j].n
       /\ bgq[i].op = "free" /\ bgq[j].op = "send" => bgq[i].n # bgq[j].n
  /\ \A i \in 1..Len(bgq) :
       /\ bgq[i].op \in {"send", "free"} => bgq[i].n <= ws.sent
       /\ bgq[i].op = "send" => bgq[i].n \in ws.live
       /\ bgq[i].op = "closeWS" => ~ws.handle

CloseSent == \E i \in 1..Len(out) : out[i].op = "Close"

\* What was sent is older than what is queued; once a Close frame was sent the
\* connection is not open and R has nothing more to send.
SentInOrder ==
  /\ \A i \in 1..Len(out) : out[i].op = "Text" =>
       /\ out[i].n <= ws.sent
       /\ \A j \in 1..Len(bgq) : bgq[j].op = "send" => out[i].n < bgq[j].n
  /\ \A i, j \in 1..Len(out) : i < j =>
       /\ out[i].op = "Text" /\ out[j].op = "Text" => out[i].n < out[j].n
       /\ out[i].op = "Close" => out[j].op \in {"Ping", "Pong"}
  /\ CloseSent => /\ conn.state # "WS_OPEN" /\ ~ws.handle
                  /\ \A j \in 1..Len(bgq) : bgq[j].op # "send"

IInv == TypeOK /\ HeaderPending /\ QueueInOrder /\ SentInOrder

-------------------------------------------------------------------------------
(* Types of the operators. *)

BytesUpTo(n) == Seq([f : 1..n, o : Nat, m : 0..GARBLED])
Message == [op : Opcode, as : Opcode, n : 0..MaxSends]

\* The rest of a sequence, and its beginning.
LEMMA FromType ==
  ASSUME NEW S, NEW s \in Seq(S), NEW x \in Nat \ {0}
  PROVE  From(s, x) \in Seq(S)
<1>1. Len(s) \in Int /\ x \in Int /\ \A i \in x..Len(s) : s[i] \in S
  BY LenProperties, ElementOfSeq
<1> QED BY <1>1, SubSeqProperties DEF From

LEMMA FrontType ==
  ASSUME NEW S, NEW s \in Seq(S), NEW n \in 0..Len(s)
  PROVE  /\ SubSeq(s, 1, n) \in Seq(S) /\ Len(SubSeq(s, 1, n)) = n
         /\ \A i \in 1..n : SubSeq(s, 1, n)[i] = s[i]
<1>1. Len(s) \in Nat
  BY LenProperties
<1>2. n \in Int /\ \A i \in 1..n : s[i] \in S
  BY <1>1, ElementOfSeq
<1> QED BY <1>2, SubSeqProperties

LEMMA BytesGrow ==
  ASSUME NEW n \in Nat, NEW k \in Nat, n <= k
  PROVE  BytesUpTo(n) \subseteq BytesUpTo(k)
<1>1. [f : 1..n, o : Nat, m : 0..GARBLED] \subseteq [f : 1..k, o : Nat, m : 0..GARBLED]
  OBVIOUS
<1>2. ASSUME NEW s \in BytesUpTo(n) PROVE s \in BytesUpTo(k)
  BY <1>1, SeqMonotonic DEF BytesUpTo
<1> QED BY <1>2

LEMMA SizeType ==
  ASSUME NEW f \in Frames \cup OldFrames
  PROVE  PayloadStart(f) \in Nat /\ Size(f) \in Nat /\ f.fin \in BOOLEAN
         /\ f.opcode \in Opcode /\ f.masked \in BOOLEAN /\ f.len \in Nat /\ f.ext \in Nat
<1>1. /\ f.ext \in Nat /\ f.len \in Nat /\ f.fin \in BOOLEAN /\ f.opcode \in Opcode
      /\ f.masked \in BOOLEAN
  <2>1. f \in Frame \/ f \in OldFrame
    BY ConstantsAssumption
  <2>2. CASE f \in Frame
    BY <2>2 DEF Frame
  <2>3. CASE f \in OldFrame
    <3>1. f.fin \in {TRUE} /\ f.masked \in {FALSE} /\ f.opcode \in {"Text", "Binary", "Close"}
          /\ f.ext \in Nat /\ f.len \in 0..127
      BY <2>3 DEF OldFrame
    <3>2. f.fin \in BOOLEAN /\ f.masked \in BOOLEAN
      BY <3>1, Zenon
    <3> QED BY <3>1, <3>2 DEF Opcode
  <2> QED BY <2>1, <2>2, <2>3
<1>2. PayloadStart(f) \in Nat
  BY <1>1 DEF PayloadStart, HeaderLength
<1> QED BY <1>1, <1>2 DEF Size

LEMMA BytesType ==
  ASSUME NEW f \in Frames \cup OldFrames, NEW k \in Nat, NEW n \in 1..k
  PROVE  Bytes(f, n) \in BytesUpTo(k)
<1> DEFINE h == PayloadStart(f)
           size == Size(f)
<1>1. h \in Nat /\ size \in Nat
  BY SizeType
<1> HIDE DEF h, size
<1>2. Bytes(f, n) = [i \in 1..size |->
                       [f |-> n, o |-> i - 1,
                        m |-> IF f.masked /\ i > h THEN (i - 1 - h) % 4 ELSE CLEAR]]
  BY DEF Bytes, h, size
<1>3. ASSUME NEW i \in 1..size
      PROVE  [f |-> n, o |-> i - 1,
              m |-> IF f.masked /\ i > h THEN (i - 1 - h) % 4 ELSE CLEAR]
                \in [f : 1..k, o : Nat, m : 0..GARBLED]
  <2>1. CLEAR \in 0..GARBLED /\ i - 1 \in Nat
    BY <1>1 DEF CLEAR, GARBLED
  <2>2. i > h => (i - 1 - h) % 4 \in 0..GARBLED
    BY <1>1 DEF GARBLED
  <2> QED BY <2>1, <2>2
<1>4. Bytes(f, n) \in [1..size -> [f : 1..k, o : Nat, m : 0..GARBLED]]
  BY <1>2, <1>3
<1> QED BY <1>1, <1>4, FunctionIsSeq DEF BytesUpTo

LEMMA SendType ==
  ASSUME NEW c \in Connection, NEW op \in Opcode, NEW n \in 0..MaxSends, TypeOK
  PROVE  /\ SendWSMessage(c, op, n) \in Seq(Message)
         /\ \/ SendWSMessage(c, op, n) = out
            \/ c.state # "WS_CLOSED" /\
               \E m \in Message : m.op = op /\ m.n = n /\ SendWSMessage(c, op, n) = Append(out, m)
<1>1. out \in Seq(Message)
  BY DEF TypeOK, Message
<1> DEFINE m == [op |-> op, as |-> IF parser.old THEN "Text" ELSE op, n |-> n]
<1>2. m \in Message /\ m.op = op /\ m.n = n
  BY DEF Message, Opcode
<1>3. \/ SendWSMessage(c, op, n) = out
      \/ c.state # "WS_CLOSED" /\ SendWSMessage(c, op, n) = Append(out, m)
  <2>1. CASE c.state = "WS_CLOSED" \/ socket # "open"
    BY <2>1 DEF SendWSMessage
  <2>2. CASE ~(c.state = "WS_CLOSED" \/ socket # "open")
    BY <2>2 DEF SendWSMessage
  <2> QED BY <2>1, <2>2
<1> HIDE DEF m
<1>4. Append(out, m) \in Seq(Message)
  BY <1>1, <1>2, AppendProperties
<1> QED BY <1>1, <1>2, <1>3, <1>4

LEMMA OnHeaderCompleteType ==
  ASSUME NEW c \in Connection, NEW f \in 0..Len(frames), NEW info,
         info.fin \in BOOLEAN, info.opcode \in Opcode, info.masked \in BOOLEAN
  PROVE  OnHeaderComplete(c, f, info) \in Connection /\ OnHeaderComplete(c, f, info).state = c.state
<1> DEFINE header == [f |-> f, fin |-> info.fin, opcode |-> info.opcode, masked |-> info.masked]
           last == IF ~info.fin /\ info.opcode # "Continuation" THEN header ELSE c.incompleteHeader
<1>1. header \in Header
  BY DEF Header
<1>2. OnHeaderComplete(c, f, info) =
        IF c.state = "WS_CLOSED" THEN c
        ELSE [c EXCEPT !.header = header, !.incompleteHeader = last]
  BY DEF OnHeaderComplete, Connection
<1>3. last \in Header
  BY <1>1 DEF Connection
<1> HIDE DEF header, last
<1>4. [c EXCEPT !.header = header, !.incompleteHeader = last] \in Connection
  BY <1>1, <1>3 DEF Connection
<1>5. [c EXCEPT !.header = header, !.incompleteHeader = last].state = c.state
  BY DEF Connection
<1> QED BY <1>2, <1>4, <1>5

LEMMA OnPayloadType ==
  ASSUME NEW c \in Connection, NEW d \in ByteSeq
  PROVE  OnPayload(c, d) \in Connection /\ OnPayload(c, d).state = c.state
<1> DEFINE B == [f : 1..Len(frames), o : Nat, m : 0..GARBLED]
           plain == [i \in DOMAIN d |-> Unmask(d[i], c.header.f, (Len(c.payload) + i - 1) % 4)]
           more == IF c.header.masked THEN plain ELSE d
<1>1. d \in Seq(B) /\ Len(d) \in Nat /\ DOMAIN d = 1..Len(d) /\ \A i \in 1..Len(d) : d[i] \in B
  BY LenProperties, ElementOfSeq DEF ByteSeq
<1>2. ASSUME NEW i \in 1..Len(d), NEW j PROVE Unmask(d[i], c.header.f, j) \in B
  <2>1. d[i] \in B /\ CLEAR \in 0..GARBLED /\ GARBLED \in 0..GARBLED
    BY <1>1 DEF CLEAR, GARBLED
  <2>2. \E x \in {CLEAR, GARBLED} : Unmask(d[i], c.header.f, j) = [d[i] EXCEPT !.m = x]
    BY DEF Unmask
  <2> QED BY <2>1, <2>2
<1>3. plain \in [1..Len(d) -> B]
  BY <1>1, <1>2
<1> HIDE DEF plain
<1>4. plain \in Seq(B)
  BY <1>1, <1>3, FunctionIsSeq
<1>5. more \in Seq(B)
  BY <1>1, <1>4
<1>6. OnPayload(c, d) = IF c.state = "WS_CLOSED" THEN c
                        ELSE [c EXCEPT !.payload = c.payload \o more]
  BY DEF OnPayload, Connection, plain
<1> HIDE DEF more
<1>7. c.payload \o more \in ByteSeq
  BY <1>5, ConcatProperties DEF Connection, ByteSeq
<1>8. [c EXCEPT !.payload = c.payload \o more] \in Connection
  BY <1>7 DEF Connection
<1>9. [c EXCEPT !.payload = c.payload \o more].state = c.state
  BY DEF Connection
<1> QED BY <1>6, <1>8, <1>9

-------------------------------------------------------------------------------
(* What a step of the parser does to the connection, to R and to the stream. *)

WsObject == [handle : BOOLEAN, sent : 0..MaxSends, live : SUBSET (1..MaxSends),
             closed : {"no", "scheduled", "told"}, pings : 0..MaxPings]

\* Nothing that R's object keeps changes; a Pong or a Ping may be sent.
Quiet ==
  /\ ws'.handle = ws.handle /\ ws'.sent = ws.sent /\ ws'.live = ws.live
  /\ out' = out \/ \E m \in Message : m.op \in {"Ping", "Pong"} /\ out' = Append(out, m)

Typed ==
  /\ conn' \in Connection /\ socket' \in {"open", "closing", "closed"}
  /\ out' \in Seq(Message) /\ got' \in Seq([binary : BOOLEAN, data : ByteSeq])
  /\ ws' \in WsObject

LEMMA CloseWSSocketType ==
  ASSUME TypeOK, CloseWSSocket
  PROVE  /\ socket' \in {"open", "closing", "closed"} /\ ws' \in WsObject
         /\ ws'.handle = ws.handle /\ ws'.sent = ws.sent /\ ws'.live = ws.live
<1>1. ws \in WsObject /\ socket \in {"open", "closing", "closed"}
  BY DEF TypeOK, WsObject
<1>2. CASE socket = "open"
  BY <1>1, <1>2 DEF CloseWSSocket, WsObject
<1>3. CASE socket # "open"
  BY <1>1, <1>3 DEF CloseWSSocket
<1> QED BY <1>2, <1>3

LEMMA OnFrameCompleteType ==
  ASSUME TypeOK, NEW c \in Connection, OnFrameComplete(c)
  PROVE  Typed /\ Quiet /\ conn'.state \in {c.state, "WS_CLOSED"}
<1> DEFINE done == [c EXCEPT !.payload = <<>>]
           closed == [done EXCEPT !.state = "WS_CLOSED"]
           whole == c.incompletePayload \o c.payload
           Got == [binary : BOOLEAN, data : ByteSeq]
<1>1. /\ ws \in WsObject /\ socket \in {"open", "closing", "closed"} /\ out \in Seq(Message)
      /\ got \in Seq(Got)
  BY DEF TypeOK, WsObject, Message
<1>2. <<>> \in ByteSeq /\ whole \in ByteSeq /\ c.payload \in ByteSeq
  BY EmptySeq, ConcatProperties DEF Connection, ByteSeq
<1>3. done \in Connection /\ done.state = c.state
  BY <1>2 DEF Connection
<1>4. closed \in Connection /\ closed.state = "WS_CLOSED"
  BY <1>2 DEF Connection
<1>5. [done EXCEPT !.incompletePayload = whole] \in Connection
      /\ [done EXCEPT !.incompletePayload = whole].state = c.state
  <2> HIDE DEF done, whole
  <2> QED BY <1>2, <1>3 DEF Connection
<1>6. [done EXCEPT !.incompletePayload = <<>>] \in Connection
      /\ [done EXCEPT !.incompletePayload = <<>>].state = c.state
  <2> HIDE DEF done, whole
  <2> QED BY <1>2, <1>3 DEF Connection
<1>7. ASSUME NEW b \in BOOLEAN, NEW d \in ByteSeq PROVE Append(got, [binary |-> b, data |-> d]) \in Seq(Got)
  <2> DEFINE g == [binary |-> b, data |-> d]
  <2>1. g \in Got
    OBVIOUS
  <2> HIDE DEF g
  <2> QED BY <1>1, <2>1, AppendProperties DEF g
<1>8. Append(got, [binary |-> c.incompleteHeader.opcode = "Binary", data |-> whole]) \in Seq(Got)
      /\ Append(got, [binary |-> c.header.opcode = "Binary", data |-> c.payload]) \in Seq(Got)
  <2>1. (c.incompleteHeader.opcode = "Binary") \in BOOLEAN /\ (c.header.opcode = "Binary") \in BOOLEAN
    BY Zenon
  <2> DEFINE b1 == c.incompleteHeader.opcode = "Binary"
             b2 == c.header.opcode = "Binary"
  <2> HIDE DEF b1, b2, whole
  <2>2. b1 \in BOOLEAN /\ b2 \in BOOLEAN
    BY <2>1 DEF b1, b2
  <2>3. Append(got, [binary |-> b1, data |-> whole]) \in Seq(Got)
        /\ Append(got, [binary |-> b2, data |-> c.payload]) \in Seq(Got)
    BY <1>2, <1>7, <2>2
  <2> QED BY <2>3 DEF b1, b2
<1>9. SendWSMessage(closed, "Close", 0) = out
  BY <1>4 DEF SendWSMessage
<1>10. /\ SendWSMessage(c, "Pong", 0) \in Seq(Message)
       /\ \/ SendWSMessage(c, "Pong", 0) = out
          \/ \E m \in Message : m.op = "Pong" /\ SendWSMessage(c, "Pong", 0) = Append(out, m)
  <2>1. 0 \in 0..MaxSends /\ "Pong" \in Opcode
    BY ConstantsAssumption DEF Opcode
  <2> QED BY <2>1, SendType
<1>11. CASE c.state = "WS_CLOSED" /\ conn' = c /\ UNCHANGED <<socket, out, got, ws>>
  BY <1>1, <1>11 DEF Typed, Quiet
<1>12. CASE conn' = [done EXCEPT !.incompletePayload = whole] /\ UNCHANGED <<socket, out, got, ws>>
  BY <1>1, <1>5, <1>12 DEF Typed, Quiet
<1>13. CASE /\ got' = Append(got, [binary |-> c.incompleteHeader.opcode = "Binary", data |-> whole])
            /\ conn' = [done EXCEPT !.incompletePayload = <<>>]
            /\ UNCHANGED <<socket, out, ws>>
  BY <1>1, <1>6, <1>8, <1>13 DEF Typed, Quiet
<1>14. CASE /\ got' = Append(got, [binary |-> c.header.opcode = "Binary", data |-> c.payload])
            /\ conn' = done /\ UNCHANGED <<socket, out, ws>>
  BY <1>1, <1>3, <1>8, <1>14 DEF Typed, Quiet
<1>15. CASE /\ conn' = closed
            /\ out' = IF c.state = "WS_OPEN" THEN SendWSMessage(closed, "Close", 0) ELSE out
            /\ CloseWSSocket
            /\ UNCHANGED got
  <2>1. out' = out
    BY <1>9, <1>15
  <2>2. /\ socket' \in {"open", "closing", "closed"} /\ ws' \in WsObject
        /\ ws'.handle = ws.handle /\ ws'.sent = ws.sent /\ ws'.live = ws.live
    BY <1>15, CloseWSSocketType
  <2> HIDE DEF closed
  <2> QED BY <1>1, <1>4, <1>15, <2>1, <2>2 DEF Typed, Quiet
<1>16. CASE out' = SendWSMessage(c, "Pong", 0) /\ conn' = done /\ UNCHANGED <<socket, got, ws>>
  <2> HIDE DEF done
  <2> QED BY <1>1, <1>3, <1>10, <1>16 DEF Typed, Quiet
<1>17. CASE conn' = done /\ UNCHANGED <<socket, out, got, ws>>
  BY <1>1, <1>3, <1>17 DEF Typed, Quiet
<1> QED BY <1>11, <1>12, <1>13, <1>14, <1>15, <1>16, <1>17 DEF OnFrameComplete

\* The parser and the connection while no frame arrives.
LEMMA TypesStay ==
  ASSUME TypeOK, frames' = frames, net' \in ByteSeq, parser' \in Parser,
         Len(parser'.header) < MAX_HEADER_BYTES, parser'.old = parser.old,
         parser'.old <=> parser'.state \notin {"InHeader", "InPayload"},
         bgq' \in Seq(Task), Typed
  PROVE  TypeOK'
<1>1. ByteSeq' = ByteSeq /\ Header' = Header
  BY DEF ByteSeq, Header
<1>2. Parser' = Parser /\ Connection' = Connection
  BY <1>1 DEF Parser, Connection
<1> QED BY <1>1, <1>2 DEF TypeOK, Typed, WsObject, Message

\* A quiet step keeps the order of the queue and of what was sent.
LEMMA QuietKeeps ==
  ASSUME TypeOK, QueueInOrder, SentInOrder, Quiet, bgq' = bgq,
         conn.state # "WS_OPEN" => conn'.state # "WS_OPEN"
  PROVE  QueueInOrder' /\ SentInOrder'
<1>1. QueueInOrder'
  BY DEF QueueInOrder, Quiet
<1>2. CASE out' = out
  <2>1. ws'.handle = ws.handle /\ ws'.sent = ws.sent
    BY DEF Quiet
  <2>2. CloseSent' <=> CloseSent
    BY <1>2 DEF CloseSent
  <2>3. CloseSent' => /\ conn'.state # "WS_OPEN" /\ ~ws'.handle
                      /\ \A j \in 1..Len(bgq') : bgq'[j].op # "send"
    BY <2>1, <2>2 DEF SentInOrder
  <2> QED BY <1>1, <1>2, <2>1, <2>3 DEF SentInOrder
<1>3. CASE out' # out
  <2>1. PICK m \in Message : m.op \in {"Ping", "Pong"} /\ out' = Append(out, m)
    BY <1>3 DEF Quiet
  <2>2. out \in Seq(Message) /\ Len(out) \in Nat
    BY LenProperties DEF TypeOK, Message
  <2>3. /\ Len(out') = Len(out) + 1 /\ out'[Len(out) + 1] = m
        /\ \A i \in 1..Len(out) : out'[i] = out[i]
    BY <2>1, <2>2, AppendProperties
  <2>4. /\ \A i \in 1..Len(out') : i \in 1..Len(out) \/ i = Len(out) + 1
        /\ m.op # "Close" /\ m.op # "Text"
    BY <2>1, <2>2, <2>3
  <2>5. CloseSent' => CloseSent
    BY <2>3, <2>4 DEF CloseSent
  <2>6. ASSUME NEW i \in 1..Len(out'), out'[i].op = "Text"
        PROVE  /\ out'[i].n <= ws'.sent
               /\ \A j \in 1..Len(bgq') : bgq'[j].op = "send" => out'[i].n < bgq'[j].n
    BY <2>3, <2>4, <2>6 DEF SentInOrder, Quiet
  <2>7. ASSUME NEW i \in 1..Len(out'), NEW j \in 1..Len(out'), i < j
        PROVE  /\ out'[i].op = "Text" /\ out'[j].op = "Text" => out'[i].n < out'[j].n
               /\ out'[i].op = "Close" => out'[j].op \in {"Ping", "Pong"}
    <3>1. i \in 1..Len(out)
      BY <2>2, <2>4, <2>7
    <3>2. CASE j \in 1..Len(out)
      BY <2>3, <2>7, <3>1, <3>2 DEF SentInOrder
    <3>3. CASE j = Len(out) + 1
      BY <2>1, <2>3, <2>4, <3>3
    <3> QED BY <2>4, <3>2, <3>3
  <2>8. CloseSent' => /\ conn'.state # "WS_OPEN" /\ ~ws'.handle
                      /\ \A j \in 1..Len(bgq') : bgq'[j].op # "send"
    BY <2>5 DEF SentInOrder, Quiet
  <2> QED BY <1>1, <2>6, <2>7, <2>8 DEF SentInOrder
<1> QED BY <1>1, <1>2, <1>3

\* A step of the parser or of the loop that pushes and takes no callback.
LEMMA ParserStepKeeps ==
  ASSUME IInv, frames' = frames, net' \in ByteSeq, bgq' = bgq, parser' \in Parser,
         Len(parser'.header) < MAX_HEADER_BYTES, parser'.old = parser.old,
         parser'.old <=> parser'.state \notin {"InHeader", "InPayload"},
         HeaderPending', Typed, Quiet, conn'.state \in {conn.state, "WS_CLOSED"}
  PROVE  IInv'
<1>1. TypeOK /\ QueueInOrder /\ SentInOrder /\ bgq' \in Seq(Task)
  BY DEF IInv, TypeOK
<1>2. TypeOK'
  BY <1>1, TypesStay
<1>3. conn.state # "WS_OPEN" => conn'.state # "WS_OPEN"
  OBVIOUS
<1>4. QueueInOrder' /\ SentInOrder'
  BY <1>1, <1>3, QuietKeeps
<1> QED BY <1>2, <1>4 DEF IInv

\* The same header, or none: it is not complete.
LEMMA SameHeaderPends ==
  ASSUME IInv, frames' = frames, parser'.header = parser.header \/ parser'.header = <<>>
  PROVE  HeaderPending'
<1>1. CASE parser'.header = parser.header
  BY <1>1 DEF IInv, HeaderPending, HeaderComplete, Info
<1>2. CASE parser'.header = <<>>
  <2>1. Len(<<>>) = 0
    BY EmptySeq
  <2> QED BY <1>2, <2>1 DEF HeaderPending, HeaderComplete
<1> QED BY <1>1, <1>2

LEMMA UnprocessedType ==
  ASSUME TypeOK, conn' \in Connection, UNCHANGED <<socket, out, got, ws>>
  PROVE  Typed /\ Quiet
BY DEF TypeOK, Typed, Quiet, WsObject, Message

LEMMA ReadKeeps ==
  ASSUME IInv, Read
  PROVE  IInv'
<1>1. PICK n \in 1..Len(net) :
        /\ parser' = [parser EXCEPT !.reading = TRUE, !.data = SubSeq(net, 1, n)]
        /\ net' = From(net, n + 1)
  BY DEF Read
<1>2. TypeOK /\ parser \in Parser /\ net \in ByteSeq /\ Len(parser.header) < MAX_HEADER_BYTES
      /\ (parser.old <=> parser.state \notin {"InHeader", "InPayload"})
  BY DEF IInv, TypeOK
<1>3. UNCHANGED <<frames, conn, socket, out, got, bgq, ws>> /\ conn \in Connection
  BY DEF Read, IInv, TypeOK
<1>4. net' \in ByteSeq /\ SubSeq(net, 1, n) \in ByteSeq
  <2>1. Len(net) \in Nat
    BY <1>2, LenProperties DEF ByteSeq
  <2>2. n \in 0..Len(net) /\ n + 1 \in Nat \ {0}
    BY <2>1
  <2> QED BY <1>1, <1>2, <2>2, FromType, FrontType DEF ByteSeq
<1> DEFINE d == SubSeq(net, 1, n)
<1> HIDE DEF d
<1>5. parser' = [parser EXCEPT !.reading = TRUE, !.data = d] /\ d \in ByteSeq
  BY <1>1, <1>4 DEF d
<1>6. parser' \in Parser /\ parser'.header = parser.header /\ parser'.old = parser.old
      /\ parser'.state = parser.state
  BY <1>2, <1>5 DEF Parser
<1>7. Typed /\ Quiet
  BY <1>2, <1>3, UnprocessedType
<1>8. HeaderPending'
  BY <1>3, <1>6, SameHeaderPends
<1> QED BY <1>2, <1>3, <1>4, <1>6, <1>7, <1>8, ParserStepKeeps

\* The header that the bytes read so far make, and what is behind it.
LEMMA HeaderFacts ==
  ASSUME TypeOK, ~parser.old, NEW bytes \in ByteSeq, Len(bytes) >= 2
  PROVE  /\ bytes[2].f \in 1..Len(frames) /\ Info(bytes) \in Frames
         /\ HeaderLength(Info(bytes)) \in 2..MAX_HEADER_BYTES
<1>1. Len(bytes) \in Nat
  BY LenProperties DEF ByteSeq
<1>2. bytes[2] \in [f : 1..Len(frames), o : Nat, m : 0..GARBLED]
  <2>1. 2 \in 1..Len(bytes)
    BY <1>1
  <2> QED BY <2>1, ElementOfSeq DEF ByteSeq
<1>3. bytes[2].f \in 1..Len(frames)
  BY <1>2
<1>4. frames \in Seq(Frames)
  BY DEF TypeOK
<1>5. Info(bytes) \in Frames
  BY <1>3, <1>4, ElementOfSeq DEF Info
<1>6. Info(bytes) \in Frame
  BY <1>5, ConstantsAssumption
<1>7. Info(bytes).ext \in {0, 2, 8}
  BY <1>6 DEF Frame
<1> QED BY <1>3, <1>5, <1>7 DEF HeaderLength, MAX_HEADER_BYTES

LEMMA ParseHeaderKeeps ==
  ASSUME IInv, ParseHeader
  PROVE  IInv'
<1> DEFINE had == Len(parser.header)
           k == Least(Len(parser.data), MAX_HEADER_BYTES - had)
           bytes == parser.header \o SubSeq(parser.data, 1, k)
           info == Info(bytes)
<1>1. /\ TypeOK /\ parser \in Parser /\ had < MAX_HEADER_BYTES /\ parser.state = "InHeader"
      /\ parser.data # <<>> /\ ~parser.old /\ conn \in Connection /\ net \in ByteSeq
      /\ UNCHANGED <<frames, net, socket, out, got, bgq, ws>>
  BY DEF IInv, TypeOK, ParseHeader
<1>2. parser.header \in ByteSeq /\ parser.data \in ByteSeq
  BY <1>1 DEF Parser
<1>3. had \in Nat /\ Len(parser.data) \in Nat \ {0}
  BY <1>1, <1>2, LenProperties, EmptySeq DEF ByteSeq
<1>4. k \in 0..Len(parser.data) /\ k <= MAX_HEADER_BYTES - had
      /\ (k = Len(parser.data) \/ k = MAX_HEADER_BYTES - had)
  <2>1. had \in 0..13
    <3>1. had \in Nat /\ had < MAX_HEADER_BYTES
      BY <1>1, <1>3
    <3> HIDE DEF had
    <3> QED BY <3>1 DEF MAX_HEADER_BYTES
  <2>2. k = IF Len(parser.data) < MAX_HEADER_BYTES - had THEN Len(parser.data)
            ELSE MAX_HEADER_BYTES - had
    BY DEF Least
  <2> HIDE DEF k, had
  <2> QED BY <1>3, <2>1, <2>2 DEF MAX_HEADER_BYTES
<1> HIDE DEF k, had
<1>5. /\ bytes \in ByteSeq /\ Len(bytes) = had + k
      /\ \A i \in 1..had : bytes[i] = parser.header[i]
  <2>1. SubSeq(parser.data, 1, k) \in ByteSeq /\ Len(SubSeq(parser.data, 1, k)) = k
    BY <1>2, <1>4, FrontType DEF ByteSeq
  <2> DEFINE t == SubSeq(parser.data, 1, k)
  <2> HIDE DEF t
  <2>2. t \in ByteSeq /\ Len(t) = k /\ bytes = parser.header \o t
    BY <2>1 DEF t
  <2> HIDE DEF bytes
  <2>3. /\ bytes \in ByteSeq /\ Len(bytes) = Len(parser.header) + Len(t)
        /\ \A i \in 1..Len(parser.header) + Len(t) :
             bytes[i] = IF i <= Len(parser.header) THEN parser.header[i] ELSE t[i - Len(parser.header)]
    BY <1>2, <2>2, ConcatProperties DEF ByteSeq
  <2>4. Len(parser.header) = had
    BY DEF had
  <2> QED BY <1>3, <1>4, <2>2, <2>3, <2>4
<1> HIDE DEF bytes
<1>6. CASE /\ HeaderComplete(bytes)
           /\ conn' = OnHeaderComplete(conn, bytes[2].f, info)
           /\ parser' = [parser EXCEPT !.state = "InPayload", !.header = <<>>,
                           !.bytesLeft = info.len, !.recur = (info.len = 0),
                           !.data = From(@, HeaderLength(info) - had + 1)]
  <2>1. Len(bytes) >= 2
    BY <1>6 DEF HeaderComplete
  <2>2. /\ bytes[2].f \in 1..Len(frames) /\ info \in Frames
        /\ HeaderLength(info) \in 2..MAX_HEADER_BYTES
    BY <1>1, <1>5, <2>1, HeaderFacts
  <2>3. HeaderLength(info) > had
    <3>1. CASE had < 2
      BY <1>3, <2>2, <3>1 DEF MAX_HEADER_BYTES
    <3>2. CASE had >= 2
      <4>1. Info(parser.header) = info
        BY <1>3, <1>5, <3>2 DEF Info
      <4>2. ~(Len(parser.header) >= HeaderLength(info))
        BY <3>2, <4>1 DEF IInv, HeaderPending, HeaderComplete, had
      <4> QED BY <1>3, <2>2, <4>2 DEF had, MAX_HEADER_BYTES
    <3> QED BY <1>3, <3>1, <3>2
  <2>4. HeaderLength(info) - had + 1 \in Nat \ {0}
    <3> DEFINE hl == HeaderLength(info)
    <3>1. hl \in Nat /\ hl > had
      BY <2>2, <2>3
    <3> HIDE DEF hl
    <3>2. hl - had + 1 \in Nat \ {0}
      BY <1>3, <3>1
    <3> QED BY <3>2 DEF hl
  <2> DEFINE d == From(parser.data, HeaderLength(info) - had + 1)
             empty == info.len = 0
  <2>5. d \in ByteSeq
    BY <1>2, <2>4, FromType DEF ByteSeq
  <2>6. info.len \in Nat /\ info.fin \in BOOLEAN /\ info.opcode \in Opcode /\ info.masked \in BOOLEAN
    BY <2>2, SizeType
  <2>7. conn' \in Connection /\ conn'.state = conn.state
    <3>1. bytes[2].f \in 0..Len(frames)
      BY <2>2
    <3> HIDE DEF info
    <3> QED BY <1>1, <1>6, <2>6, <3>1, OnHeaderCompleteType
  <2>8. parser' = [parser EXCEPT !.state = "InPayload", !.header = <<>>, !.bytesLeft = info.len,
                                 !.recur = empty, !.data = d]
    BY <1>6
  <2>9. empty \in BOOLEAN
    BY Zenon
  <2>10. <<>> \in ByteSeq /\ Len(<<>>) = 0
    BY EmptySeq DEF ByteSeq
  <2> HIDE DEF d, empty, info
  <2>11. parser' \in Parser
    BY <1>1, <2>5, <2>6, <2>8, <2>9, <2>10 DEF Parser
  <2>12. parser'.header = <<>> /\ parser'.old = parser.old /\ parser'.state = "InPayload"
    BY <1>1, <2>8 DEF Parser
  <2>13. Typed /\ Quiet
    BY <1>1, <2>7, UnprocessedType
  <2>14. HeaderPending'
    BY <1>1, <2>12, SameHeaderPends
  <2>15. Len(parser'.header) < MAX_HEADER_BYTES
    BY <2>10, <2>12 DEF MAX_HEADER_BYTES
  <2> QED BY <1>1, <2>7, <2>11, <2>12, <2>13, <2>14, <2>15, ParserStepKeeps
<1>7. CASE /\ ~HeaderComplete(bytes)
           /\ parser' = [parser EXCEPT !.header = bytes, !.data = <<>>]
           /\ UNCHANGED conn
  <2>1. Len(bytes) < MAX_HEADER_BYTES
    <3>1. SUFFICES ASSUME Len(bytes) >= MAX_HEADER_BYTES PROVE FALSE
      BY <1>3, <1>4, <1>5 DEF MAX_HEADER_BYTES
    <3>2. Len(bytes) >= 2
      BY <1>3, <1>4, <1>5, <3>1 DEF MAX_HEADER_BYTES
    <3>3. HeaderLength(info) \in 2..MAX_HEADER_BYTES
      BY <1>1, <1>5, <3>2, HeaderFacts
    <3>4. Len(bytes) >= HeaderLength(info)
      BY <1>3, <1>4, <1>5, <3>1, <3>3 DEF MAX_HEADER_BYTES
    <3> QED BY <1>7, <3>2, <3>4 DEF HeaderComplete
  <2>2. <<>> \in ByteSeq
    BY EmptySeq DEF ByteSeq
  <2>3. parser' \in Parser /\ parser'.header = bytes /\ parser'.old = parser.old
        /\ parser'.state = parser.state
    BY <1>1, <1>5, <1>7, <2>2 DEF Parser
  <2>4. HeaderPending'
    BY <1>1, <1>7, <2>3 DEF HeaderPending, HeaderComplete, Info
  <2>5. Typed /\ Quiet
    BY <1>1, <1>7, UnprocessedType
  <2> QED BY <1>1, <1>7, <2>1, <2>3, <2>4, <2>5, ParserStepKeeps
<1> QED BY <1>6, <1>7 DEF ParseHeader, bytes, k, had

LEMMA ParsePayloadKeeps ==
  ASSUME IInv, ParsePayload
  PROVE  IInv'
<1> DEFINE n == Least(Len(parser.data), parser.bytesLeft)
           front == SubSeq(parser.data, 1, n)
           rest == From(parser.data, n + 1)
           c == OnPayload(conn, front)
           p == [parser EXCEPT !.recur = FALSE, !.bytesLeft = @ - n, !.data = From(@, n + 1)]
<1>1. /\ TypeOK /\ parser \in Parser /\ parser.state = "InPayload" /\ ~parser.old
      /\ Len(parser.header) < MAX_HEADER_BYTES /\ conn \in Connection /\ net \in ByteSeq
      /\ UNCHANGED <<frames, net, bgq>>
  BY DEF IInv, TypeOK, ParsePayload
<1>2. parser.data \in ByteSeq /\ parser.bytesLeft \in Nat /\ Len(parser.data) \in Nat
  BY <1>1, LenProperties DEF Parser, ByteSeq
<1>3. n \in 0..Len(parser.data) /\ n + 1 \in Nat \ {0} /\ parser.bytesLeft - n \in Nat
  BY <1>2 DEF Least
<1> DEFINE left == parser.bytesLeft - n
<1>4. p = [parser EXCEPT !.recur = FALSE, !.bytesLeft = left, !.data = rest] /\ left \in Nat
  BY <1>1, <1>3 DEF Parser
<1> HIDE DEF n
<1>5. front \in ByteSeq /\ rest \in ByteSeq
  BY <1>2, <1>3, FromType, FrontType DEF ByteSeq
<1> HIDE DEF front, rest, left
<1>6. c \in Connection /\ c.state = conn.state
  BY <1>1, <1>5, OnPayloadType
<1> HIDE DEF c, p
<1>7. /\ p \in Parser /\ p.header = parser.header /\ p.old = parser.old /\ p.state = parser.state
      /\ [p EXCEPT !.state = "InHeader"] \in Parser
      /\ [p EXCEPT !.state = "InHeader"].header = parser.header
      /\ [p EXCEPT !.state = "InHeader"].old = parser.old
      /\ [p EXCEPT !.state = "InHeader"].state = "InHeader"
  BY <1>1, <1>4, <1>5 DEF Parser
<1>8. CASE parser' = [p EXCEPT !.state = "InHeader"] /\ OnFrameComplete(c)
  <2>1. Typed /\ Quiet /\ conn'.state \in {conn.state, "WS_CLOSED"}
    BY <1>1, <1>6, <1>8, OnFrameCompleteType
  <2>2. HeaderPending'
    BY <1>1, <1>7, <1>8, SameHeaderPends
  <2> QED BY <1>1, <1>7, <1>8, <2>1, <2>2, ParserStepKeeps
<1>9. CASE parser' = p /\ conn' = c /\ UNCHANGED <<socket, out, got, ws>>
  <2>1. Typed /\ Quiet
    BY <1>1, <1>6, <1>9, UnprocessedType
  <2>2. HeaderPending'
    BY <1>1, <1>7, <1>9, SameHeaderPends
  <2> QED BY <1>1, <1>6, <1>7, <1>9, <2>1, <2>2, ParserStepKeeps
<1> QED BY <1>8, <1>9 DEF ParsePayload, p, c, front, n

-------------------------------------------------------------------------------
(* WSHixie76Parser *)

OldStates == {"H76_START", "H76_IN_TEXT_FRAME", "H76_IN_BINARY_OR_CLOSE_FRAME_LENGTH",
              "H76_IN_BINARY_FRAME_LENGTH", "H76_IN_BINARY_FRAME"}

\* One turn of its loop: the parser goes to one of its states, with less data,
\* and the connection processes a frame or not.
OldStepped ==
  \E state \in OldStates, d \in ByteSeq, left \in Nat :
    parser' = [parser EXCEPT !.state = state, !.data = d, !.bytesLeft = left]

LEMMA OldStepKeeps ==
  ASSUME IInv, parser.old, OldStepped, UNCHANGED <<frames, net, bgq>>, NEW c \in Connection,
         c.state = conn.state,
         (conn' = c /\ UNCHANGED <<socket, out, got, ws>>) \/ OnFrameComplete(c)
  PROVE  IInv'
<1>1. /\ TypeOK /\ parser \in Parser /\ net \in ByteSeq /\ Len(parser.header) < MAX_HEADER_BYTES
  BY DEF IInv, TypeOK
<1>2. PICK state \in OldStates, d \in ByteSeq, left \in Nat :
        parser' = [parser EXCEPT !.state = state, !.data = d, !.bytesLeft = left]
  BY DEF OldStepped
<1>3. /\ parser' \in Parser /\ parser'.header = parser.header /\ parser'.old = parser.old
      /\ parser'.state = state
  BY <1>1, <1>2 DEF Parser, OldStates
<1>4. state \notin {"InHeader", "InPayload"}
  BY DEF OldStates
<1>5. Typed /\ Quiet /\ conn'.state \in {conn.state, "WS_CLOSED"}
  BY <1>1, UnprocessedType, OnFrameCompleteType
<1>6. HeaderPending'
  BY <1>3, SameHeaderPends
<1> QED BY <1>1, <1>3, <1>4, <1>5, <1>6, ParserStepKeeps

LEMMA OldStateSteps ==
  ASSUME IInv, NEW state \in OldStates, NEW n \in Nat, OldState(state, n)
  PROVE  OldStepped
<1>1. parser \in Parser /\ parser.data \in ByteSeq /\ parser.bytesLeft \in Nat
  BY DEF IInv, TypeOK, Parser
<1>2. From(parser.data, n + 1) \in ByteSeq
  BY <1>1, FromType DEF ByteSeq
<1> DEFINE left == IF parser.state = "H76_START" THEN 0 ELSE parser.bytesLeft
<1>3. left \in Nat
  BY <1>1
<1>4. parser' = [parser EXCEPT !.state = state, !.data = From(parser.data, n + 1),
                               !.bytesLeft = left]
  BY <1>1 DEF OldState, Parser
<1> HIDE DEF left
<1> QED BY <1>2, <1>3, <1>4 DEF OldStepped

LEMMA OldHeaderType ==
  ASSUME IInv, parser.data # <<>>, NEW opcode \in Opcode
  PROVE  OldHeader(opcode) \in Connection /\ OldHeader(opcode).state = conn.state
<1> DEFINE info == [fin |-> TRUE, opcode |-> opcode, masked |-> FALSE]
<1>1. conn \in Connection /\ parser.data \in ByteSeq
  BY DEF IInv, TypeOK, Parser
<1>2. Head(parser.data) \in [f : 1..Len(frames), o : Nat, m : 0..GARBLED]
  BY <1>1, TailRange DEF ByteSeq
<1>3. Head(parser.data).f \in 0..Len(frames)
  BY <1>2
<1>4. info.fin \in BOOLEAN /\ info.opcode \in Opcode /\ info.masked \in BOOLEAN
  <2>1. info.fin = TRUE /\ info.opcode = opcode /\ info.masked = FALSE
    OBVIOUS
  <2> HIDE DEF info
  <2> QED BY <2>1, Zenon
<1>5. OldHeader(opcode) = OnHeaderComplete(conn, Head(parser.data).f, info)
  BY DEF OldHeader
<1> DEFINE k == Head(parser.data).f
<1> HIDE DEF info, k
<1>6. OldHeader(opcode) = OnHeaderComplete(conn, k, info) /\ k \in 0..Len(frames)
  BY <1>3, <1>5 DEF k
<1> QED BY <1>1, <1>4, <1>6, OnHeaderCompleteType

\* The bytes of the old protocol have values.
LEMMA ValueType ==
  ASSUME IInv, parser.old, parser.data # <<>>
  PROVE  Value(Head(parser.data)) \in Nat
<1> DEFINE b == Head(parser.data)
           f == frames[b.f]
<1>1. parser.data \in ByteSeq /\ frames \in Seq(OldFrames)
  BY DEF IInv, TypeOK, Parser
<1>2. b.f \in 1..Len(frames)
  <2>1. b \in [f : 1..Len(frames), o : Nat, m : 0..GARBLED]
    BY <1>1, TailRange DEF ByteSeq
  <2> QED BY <2>1
<1>3. f \in OldFrames
  BY <1>1, <1>2, ElementOfSeq
<1>4. f \in OldFrame
  BY <1>3, ConstantsAssumption
<1>5. f.first \in Nat /\ f.len \in Nat
  <2> HIDE DEF f
  <2>1. f.first \in {0, 128, 255}
    BY <1>4 DEF OldFrame
  <2>2. f.len \in Nat
    BY <1>3, SizeType
  <2> DEFINE x == f.first
  <2>3. x = 0 \/ x = 128 \/ x = 255
    BY <2>1
  <2> HIDE DEF x
  <2>4. x \in Nat
    BY <2>3
  <2> QED BY <2>2, <2>4 DEF x
<1> HIDE DEF b
<1>6. \/ Value(b) = f.first \/ Value(b) = 255 \/ Value(b) = 128 \/ Value(b) = f.len
      \/ Value(b) = 65
  <2> DEFINE A1 == b.o = 0
             A2 == f.opcode = "Text" /\ b.o = Size(f) - 1
             A3 == f.opcode # "Text" /\ b.o \in 1..f.ext
             A4 == f.opcode # "Text" /\ b.o = f.ext + 1
  <2>1. Value(b) = CASE A1 -> f.first [] A2 -> 255 [] A3 -> 128 [] A4 -> f.len [] OTHER -> 65
    BY DEF Value
  <2> HIDE DEF A1, A2, A3, A4, f
  <2> QED BY <2>1
<1> HIDE DEF f
<1>7. Value(b) \in Nat
  <2> DEFINE x == f.first
             y == f.len
             z == Value(b)
  <2> HIDE DEF x, y, z
  <2>1. z = x \/ z = y \/ z = 255 \/ z = 128 \/ z = 65
    BY <1>6 DEF x, y, z
  <2>2. z \in Nat
    BY <1>5, <2>1 DEF x, y
  <2> QED BY <2>2 DEF z
<1> QED BY <1>7 DEF b

LEMMA ParseOldKeeps ==
  ASSUME IInv, ParseOld
  PROVE  IInv'
<1> DEFINE v == Value(Head(parser.data))
<1>1. /\ parser.old /\ parser.data # <<>> /\ UNCHANGED <<frames, net, bgq>>
      /\ OldStart(v) \/ OldText \/ OldClose(v) \/ OldLength(v) \/ OldBinary
  BY DEF ParseOld
<1>2. v \in Nat
  BY <1>1, ValueType
<1>3. conn \in Connection /\ parser \in Parser
  BY DEF IInv, TypeOK
<1>4. parser.data \in ByteSeq /\ parser.bytesLeft \in Nat /\ Len(parser.data) \in Nat
      /\ DOMAIN parser.data = 1..Len(parser.data)
  BY <1>3, LenProperties DEF Parser, ByteSeq
<1>5. \A op \in {"Text", "Binary", "Close"} :
        OldHeader(op) \in Connection /\ OldHeader(op).state = conn.state
  BY <1>1, OldHeaderType DEF Opcode
<1>6. ASSUME NEW n \in 0..Len(parser.data)
      PROVE  /\ OnPayload(conn, SubSeq(parser.data, 1, n)) \in Connection
             /\ OnPayload(conn, SubSeq(parser.data, 1, n)).state = conn.state
  <2>1. SubSeq(parser.data, 1, n) \in ByteSeq
    BY <1>4, FrontType DEF ByteSeq
  <2> QED BY <1>3, <2>1, OnPayloadType
<1> HIDE DEF v
<1>7. CASE OldStart(v)
  <2>1. PICK state \in OldStates : OldState(state, 1)
    BY <1>7 DEF OldStart, OldStates
  <2>2. OldStepped
    BY <2>1, OldStateSteps
  <2>3. (conn' = conn \/ conn' = OldHeader("Text")) /\ UNCHANGED <<socket, out, got, ws>>
    BY <1>7 DEF OldStart, Unprocessed
  <2> QED BY <1>1, <1>3, <1>5, <2>2, <2>3, OldStepKeeps
<1>8. CASE OldText
  <2> DEFINE marks == {i \in DOMAIN parser.data : Value(parser.data[i]) = 255}
             n == IF marks = {} THEN Len(parser.data)
                  ELSE (CHOOSE i \in marks : \A j \in marks : i <= j) - 1
             c == OnPayload(conn, SubSeq(parser.data, 1, n))
  <2>1. n \in 0..Len(parser.data) /\ n \in Nat /\ n + 1 \in Nat
    <3>1. CASE marks = {}
      BY <1>4, <3>1
    <3>2. CASE marks # {}
      <4>1. marks \subseteq 1..Len(parser.data)
        BY <1>4
      <4> HIDE DEF marks
      <4>2. \E i \in marks : \A j \in marks : i <= j
        <5>1. marks \subseteq Nat
          BY <1>4, <4>1
        <5> QED BY <3>2, <5>1, LeastElement, Zenon
      <4> DEFINE k == CHOOSE i \in marks : \A j \in marks : i <= j
      <4>3. k \in marks
        BY <4>2
      <4>4. n = k - 1
        BY <3>2
      <4> HIDE DEF k, n
      <4>5. k \in 1..Len(parser.data)
        BY <4>1, <4>3
      <4> QED BY <1>4, <4>4, <4>5
    <3> QED BY <3>1, <3>2
  <2> HIDE DEF n
  <2>2. c \in Connection /\ c.state = conn.state
    BY <1>6, <2>1
  <2> HIDE DEF c
  <2>3. \/ OldState("H76_START", n + 1) /\ OnFrameComplete(c)
        \/ OldState("H76_IN_TEXT_FRAME", n) /\ conn' = c /\ UNCHANGED <<socket, out, got, ws>>
    BY <1>8 DEF OldText, Unprocessed, n, c
  <2>4. OldStepped
    BY <2>1, <2>3, OldStateSteps DEF OldStates
  <2> QED BY <1>1, <2>2, <2>3, <2>4, OldStepKeeps
<1>9. CASE OldClose(v)
  <2>1. \/ OldState(parser.state, 1) /\ OnFrameComplete(OldHeader("Close"))
        \/ /\ OldState("H76_IN_BINARY_FRAME_LENGTH", 0)
           /\ conn' = conn /\ UNCHANGED <<socket, out, got, ws>>
    BY <1>9 DEF OldClose, Unprocessed
  <2>2. parser.state \in OldStates
    BY <1>9 DEF OldClose, OldStates
  <2>3. OldStepped
    BY <2>1, <2>2, OldStateSteps DEF OldStates
  <2> QED BY <1>1, <1>3, <1>5, <2>1, <2>3, OldStepKeeps
<1>10. CASE OldLength(v)
  <2> DEFINE left == parser.bytesLeft * 128 + (v % 128)
             p == [parser EXCEPT !.bytesLeft = left, !.data = Tail(@)]
  <2>1. left \in Nat
    <3>1. v % 128 \in Nat
      BY <1>2
    <3> DEFINE w == v % 128
    <3> HIDE DEF w
    <3>2. w \in Nat
      BY <3>1 DEF w
    <3>3. parser.bytesLeft * 128 + w \in Nat
      BY <1>4, <3>2
    <3> QED BY <3>3 DEF w
  <2> HIDE DEF left
  <2>2. Tail(parser.data) \in ByteSeq
    BY <1>1, <1>4, TailRange DEF ByteSeq
  <2>3. parser.state = "H76_IN_BINARY_FRAME_LENGTH"
    BY <1>10 DEF OldLength
  <2>4. \E state \in OldStates :
          p = [parser EXCEPT !.state = state, !.data = Tail(parser.data), !.bytesLeft = left]
    <3>1. p = [parser EXCEPT !.state = parser.state, !.data = Tail(parser.data), !.bytesLeft = left]
      BY <1>3 DEF Parser
    <3>2. parser.state \in OldStates
      BY <2>3 DEF OldStates
    <3> QED BY <3>1, <3>2
  <2>5. /\ [p EXCEPT !.state = "H76_START"] =
             [parser EXCEPT !.state = "H76_START", !.data = Tail(parser.data), !.bytesLeft = left]
        /\ [p EXCEPT !.state = "H76_IN_BINARY_FRAME"] =
             [parser EXCEPT !.state = "H76_IN_BINARY_FRAME", !.data = Tail(parser.data),
                            !.bytesLeft = left]
    BY <1>3 DEF Parser
  <2> HIDE DEF p
  <2>6. \/ parser' = p /\ conn' = conn /\ UNCHANGED <<socket, out, got, ws>>
        \/ /\ parser' = [p EXCEPT !.state = "H76_IN_BINARY_FRAME"]
           /\ conn' = OldHeader("Binary") /\ UNCHANGED <<socket, out, got, ws>>
        \/ parser' = [p EXCEPT !.state = "H76_START"] /\ OnFrameComplete(OldHeader("Binary"))
    BY <1>10 DEF OldLength, Unprocessed, p, left
  <2> DEFINE d == Tail(parser.data)
  <2>7. OldStepped
    <3>1. d \in ByteSeq
      BY <2>2
    <3>2. "H76_START" \in OldStates /\ "H76_IN_BINARY_FRAME" \in OldStates
      BY DEF OldStates
    <3>3. \E state \in OldStates :
            parser' = [parser EXCEPT !.state = state, !.data = d, !.bytesLeft = left]
      <4>1. CASE parser' = p
        BY <2>4, <4>1
      <4>2. CASE parser' = [p EXCEPT !.state = "H76_IN_BINARY_FRAME"]
        BY <2>5, <3>2, <4>2
      <4>3. CASE parser' = [p EXCEPT !.state = "H76_START"]
        BY <2>5, <3>2, <4>3
      <4> QED BY <2>6, <4>1, <4>2, <4>3
    <3> HIDE DEF d
    <3> QED BY <2>1, <3>1, <3>3 DEF OldStepped
  <2> QED BY <1>1, <1>3, <1>5, <2>6, <2>7, OldStepKeeps
<1>11. CASE OldBinary
  <2> DEFINE n == Least(Len(parser.data), parser.bytesLeft)
             c == OnPayload(conn, SubSeq(parser.data, 1, n))
             p == [parser EXCEPT !.bytesLeft = @ - n, !.data = From(@, n + 1)]
             left == parser.bytesLeft - n
             rest == From(parser.data, n + 1)
  <2>1. n \in 0..Len(parser.data) /\ n + 1 \in Nat \ {0} /\ left \in Nat
    BY <1>4 DEF Least
  <2>2. parser.state = "H76_IN_BINARY_FRAME"
    BY <1>11 DEF OldBinary
  <2>3. /\ p = [parser EXCEPT !.state = "H76_IN_BINARY_FRAME", !.data = rest, !.bytesLeft = left]
        /\ [p EXCEPT !.state = "H76_START"] =
             [parser EXCEPT !.state = "H76_START", !.data = rest, !.bytesLeft = left]
    BY <1>3, <2>2 DEF Parser
  <2> HIDE DEF n
  <2>4. rest \in ByteSeq
    BY <1>4, <2>1, FromType DEF ByteSeq
  <2>5. c \in Connection /\ c.state = conn.state
    BY <1>6, <2>1
  <2> HIDE DEF c, p, left, rest
  <2>6. \/ parser' = p /\ conn' = c /\ UNCHANGED <<socket, out, got, ws>>
        \/ parser' = [p EXCEPT !.state = "H76_START"] /\ OnFrameComplete(c)
    BY <1>11 DEF OldBinary, Unprocessed, p, c, n
  <2>7. OldStepped
    <3>1. "H76_START" \in OldStates /\ "H76_IN_BINARY_FRAME" \in OldStates
      BY DEF OldStates
    <3>2. CASE parser' = p
      BY <2>1, <2>3, <2>4, <3>1, <3>2 DEF OldStepped
    <3>3. CASE parser' = [p EXCEPT !.state = "H76_START"]
      <4>1. parser' = [parser EXCEPT !.state = "H76_START", !.data = rest, !.bytesLeft = left]
        BY <2>3, <3>3
      <4> QED BY <2>1, <2>4, <3>1, <4>1 DEF OldStepped
    <3> QED BY <2>6, <3>2, <3>3
  <2> QED BY <1>1, <2>5, <2>6, <2>7, OldStepKeeps
<1> QED BY <1>1, <1>7, <1>8, <1>9, <1>10, <1>11

-------------------------------------------------------------------------------
(* The client's frames and the other events of the background thread. *)

\* With one frame more, bytes and headers of the earlier ones are still such.
LEMMA FramesGrow ==
  ASSUME TypeOK, NEW f \in IF parser.old THEN OldFrames ELSE Frames, frames' = Append(frames, f)
  PROVE  /\ frames' \in Seq(IF parser.old THEN OldFrames ELSE Frames)
         /\ Len(frames') = Len(frames) + 1 /\ Len(frames) \in Nat
         /\ \A i \in 1..Len(frames) : frames'[i] = frames[i]
         /\ ByteSeq \subseteq ByteSeq' /\ Header \subseteq Header'
         /\ Parser \subseteq Parser' /\ Connection \subseteq Connection'
         /\ Seq([binary : BOOLEAN, data : ByteSeq]) \subseteq Seq([binary : BOOLEAN, data : ByteSeq'])
<1>1. /\ frames' \in Seq(IF parser.old THEN OldFrames ELSE Frames)
      /\ Len(frames') = Len(frames) + 1 /\ Len(frames) \in Nat
      /\ \A i \in 1..Len(frames) : frames'[i] = frames[i]
  <2>1. frames \in Seq(IF parser.old THEN OldFrames ELSE Frames)
    BY DEF TypeOK
  <2> QED BY <2>1, AppendProperties, LenProperties
<1>2. ByteSeq \subseteq ByteSeq'
  <2>1. ByteSeq = BytesUpTo(Len(frames)) /\ ByteSeq' = BytesUpTo(Len(frames'))
    BY DEF ByteSeq, BytesUpTo
  <2>2. Len(frames') \in Nat /\ Len(frames) <= Len(frames')
    BY <1>1
  <2> QED BY <1>1, <2>1, <2>2, BytesGrow
<1>3. Header \subseteq Header'
  BY <1>1 DEF Header
<1>4. Parser \subseteq Parser'
  BY <1>2 DEF Parser
<1>5. Connection \subseteq Connection'
  BY <1>2, <1>3 DEF Connection
<1>6. Seq([binary : BOOLEAN, data : ByteSeq]) \subseteq Seq([binary : BOOLEAN, data : ByteSeq'])
  <2> DEFINE A == [binary : BOOLEAN, data : ByteSeq]
             B == [binary : BOOLEAN, data : ByteSeq']
  <2>1. A \subseteq B
    BY <1>2
  <2> HIDE DEF A, B
  <2>2. \A s \in Seq(A) : s \in Seq(B)
    BY <2>1, SeqMonotonic
  <2> QED BY <2>2 DEF A, B
<1> QED BY <1>1, <1>2, <1>3, <1>4, <1>5, <1>6

LEMMA ClientFrameKeeps ==
  ASSUME IInv, NEW f \in IF parser.old THEN OldFrames ELSE Frames, ClientFrame(f)
  PROVE  IInv'
<1>1. /\ frames' = Append(frames, f) /\ net' = net \o Bytes(f, Len(frames) + 1)
      /\ parser' = parser /\ conn' = conn /\ socket' = socket /\ out' = out /\ got' = got
      /\ bgq' = bgq /\ ws' = ws
  BY DEF ClientFrame
<1>2. TypeOK
  BY DEF IInv
<1>3. /\ frames' \in Seq(IF parser.old THEN OldFrames ELSE Frames)
      /\ Len(frames') = Len(frames) + 1 /\ Len(frames) \in Nat
      /\ \A i \in 1..Len(frames) : frames'[i] = frames[i]
      /\ ByteSeq \subseteq ByteSeq' /\ Header \subseteq Header'
      /\ Parser \subseteq Parser' /\ Connection \subseteq Connection'
      /\ Seq([binary : BOOLEAN, data : ByteSeq]) \subseteq Seq([binary : BOOLEAN, data : ByteSeq'])
  BY <1>1, <1>2, FramesGrow
<1>4. net' \in ByteSeq'
  <2> DEFINE n == Len(frames) + 1
             b == Bytes(f, n)
  <2>1. n \in Nat /\ n \in 1..n /\ f \in Frames \cup OldFrames
    BY <1>3
  <2>2. b \in BytesUpTo(n)
    BY <2>1, BytesType
  <2>3. b \in ByteSeq'
    BY <1>3, <2>2 DEF ByteSeq, BytesUpTo
  <2>4. net \in ByteSeq'
    BY <1>2, <1>3 DEF TypeOK
  <2> HIDE DEF b
  <2>5. net' = net \o b
    BY <1>1 DEF b
  <2> DEFINE B == [f : 1..Len(frames'), o : Nat, m : 0..GARBLED]
  <2>6. ByteSeq' = Seq(B)
    BY DEF ByteSeq
  <2> HIDE DEF B
  <2> QED BY <2>3, <2>4, <2>5, <2>6, ConcatProperties
<1>5. TypeOK'
  <2>1. parser \in Parser' /\ conn \in Connection' /\ got \in Seq([binary : BOOLEAN, data : ByteSeq'])
    BY <1>2, <1>3 DEF TypeOK
  <2> QED BY <1>1, <1>2, <1>3, <1>4, <2>1 DEF TypeOK, Task
<1>6. HeaderPending'
  <2>1. SUFFICES ASSUME HeaderComplete(parser.header)' PROVE FALSE
    BY DEF HeaderPending
  <2> DEFINE h == parser.header
  <2>2. h \in ByteSeq /\ parser'.header = h
    BY <1>1, <1>2 DEF TypeOK, Parser
  <2>3. Len(h) >= 2 /\ Len(h) >= HeaderLength(frames'[h[2].f])
    BY <2>1, <2>2 DEF HeaderComplete, Info
  <2>4. h[2].f \in 1..Len(frames)
    <3>1. Len(h) \in Nat
      BY <2>2, LenProperties DEF ByteSeq
    <3>2. 2 \in 1..Len(h)
      BY <2>3, <3>1
    <3>3. h[2] \in [f : 1..Len(frames), o : Nat, m : 0..GARBLED]
      BY <2>2, <3>2, ElementOfSeq DEF ByteSeq
    <3> QED BY <3>3
  <2>5. frames'[h[2].f] = frames[h[2].f]
    BY <1>3, <2>4
  <2>6. HeaderComplete(h)
    BY <2>3, <2>5 DEF HeaderComplete, Info
  <2> QED BY <2>6 DEF IInv, HeaderPending
<1>7. QueueInOrder' /\ SentInOrder'
  BY <1>1 DEF IInv, QueueInOrder, SentInOrder, CloseSent
<1> QED BY <1>5, <1>6, <1>7 DEF IInv

LEMMA ReadReturnsKeeps ==
  ASSUME IInv, ReadReturns
  PROVE  IInv'
<1>1. TypeOK /\ parser \in Parser /\ net \in ByteSeq /\ Len(parser.header) < MAX_HEADER_BYTES
      /\ (parser.old <=> parser.state \notin {"InHeader", "InPayload"}) /\ conn \in Connection
  BY DEF IInv, TypeOK
<1>2. /\ parser' = [parser EXCEPT !.reading = FALSE]
      /\ UNCHANGED <<frames, net, conn, socket, out, got, bgq, ws>>
  BY DEF ReadReturns
<1>3. parser' \in Parser /\ parser'.header = parser.header /\ parser'.old = parser.old
      /\ parser'.state = parser.state
  BY <1>1, <1>2 DEF Parser
<1>4. Typed /\ Quiet
  BY <1>1, <1>2, UnprocessedType
<1>5. HeaderPending'
  BY <1>2, <1>3, SameHeaderPends
<1> QED BY <1>1, <1>2, <1>3, <1>4, <1>5, ParserStepKeeps

LEMMA TimerAndSocketKeep ==
  ASSUME IInv, PingTimer \/ SocketBreaks \/ OnClosed
  PROVE  IInv'
<1>1. TypeOK /\ parser \in Parser /\ net \in ByteSeq /\ Len(parser.header) < MAX_HEADER_BYTES
      /\ (parser.old <=> parser.state \notin {"InHeader", "InPayload"}) /\ conn \in Connection
      /\ out \in Seq(Message) /\ got \in Seq([binary : BOOLEAN, data : ByteSeq])
      /\ ws \in WsObject /\ socket \in {"open", "closing", "closed"}
  BY DEF IInv, TypeOK, WsObject, Message
<1>2. UNCHANGED <<frames, net, parser, got, bgq>>
  BY DEF PingTimer, SocketBreaks, OnClosed
<1>3. HeaderPending'
  BY <1>2, SameHeaderPends
<1>4. CASE PingTimer
  <2>1. 0 \in 0..MaxSends /\ "Ping" \in Opcode
    BY ConstantsAssumption DEF Opcode
  <2>2. /\ out' \in Seq(Message)
        /\ out' = out \/ \E m \in Message : m.op = "Ping" /\ out' = Append(out, m)
    BY <1>1, <1>4, <2>1, SendType DEF PingTimer
  <2>3. ws' \in WsObject /\ ws'.handle = ws.handle /\ ws'.sent = ws.sent /\ ws'.live = ws.live
    <3> DEFINE x == ws.pings + 1
    <3>1. ws.pings \in 0..MaxPings /\ ws.pings < MaxPings
      BY <1>1, <1>4 DEF PingTimer, WsObject
    <3>2. x \in 0..MaxPings
      BY <3>1, ConstantsAssumption
    <3>3. ws' = [ws EXCEPT !.pings = x]
      BY <1>1, <1>4 DEF PingTimer, WsObject
    <3> HIDE DEF x
    <3> QED BY <1>1, <3>2, <3>3 DEF WsObject
  <2>4. conn' = conn /\ socket' = socket
    BY <1>4 DEF PingTimer
  <2>5. Typed /\ Quiet
    BY <1>1, <1>2, <2>2, <2>3, <2>4 DEF Typed, Quiet
  <2> QED BY <1>1, <1>2, <1>3, <2>4, <2>5, ParserStepKeeps
<1>5. CASE SocketBreaks
  <2>1. /\ socket' \in {"open", "closing", "closed"} /\ ws' \in WsObject
        /\ ws'.handle = ws.handle /\ ws'.sent = ws.sent /\ ws'.live = ws.live
    BY <1>1, <1>5, CloseWSSocketType DEF SocketBreaks
  <2>2. conn' = conn /\ out' = out
    BY <1>5 DEF SocketBreaks
  <2>3. Typed /\ Quiet
    BY <1>1, <1>2, <2>1, <2>2 DEF Typed, Quiet
  <2> QED BY <1>1, <1>2, <1>3, <2>2, <2>3, ParserStepKeeps
<1>6. CASE OnClosed
  <2>1. conn' \in Connection /\ conn'.state = "WS_CLOSED"
    BY <1>1, <1>6 DEF OnClosed, Connection
  <2>2. socket' = "closed" /\ out' = out /\ ws' = ws
    BY <1>6 DEF OnClosed
  <2>3. Typed /\ Quiet
    BY <1>1, <1>2, <2>1, <2>2 DEF Typed, Quiet
  <2> QED BY <1>1, <1>2, <1>3, <2>1, <2>3, ParserStepKeeps
<1> QED BY <1>4, <1>5, <1>6

-------------------------------------------------------------------------------
(* The queue, and R's calls. *)

\* What the tasks of the queue carry.
LEMMA TaskFacts ==
  ASSUME TypeOK
  PROVE  /\ bgq \in Seq(Task) /\ Len(bgq) \in Nat
         /\ \A i \in 1..Len(bgq) : bgq[i] \in Task
         /\ \A t \in Task : /\ t.op \in {"send", "free", "closeWS"}
                            /\ t.op \in {"send", "free"} => t.n \in 1..MaxSends
<1>1. bgq \in Seq(Task) /\ Len(bgq) \in Nat
  BY LenProperties DEF TypeOK
<1>2. \A i \in 1..Len(bgq) : bgq[i] \in Task
  BY <1>1, ElementOfSeq
<1>3. ASSUME NEW t \in Task
      PROVE  /\ t.op \in {"send", "free", "closeWS"}
             /\ t.op \in {"send", "free"} => t.n \in 1..MaxSends
  <2>1. CASE t \in [op : {"send", "free"}, n : 1..MaxSends]
    BY <2>1
  <2>2. CASE t \in [op : {"closeWS"}]
    BY <2>2
  <2> QED BY <2>1, <2>2 DEF Task
<1> QED BY <1>1, <1>2, <1>3

\* The first task of the queue is run; buffers of later messages stay alive.
LEMMA FlushKeepsQueue ==
  ASSUME TypeOK, QueueInOrder, bgq # <<>>, bgq' = Tail(bgq), ws'.sent = ws.sent,
         ws'.handle = ws.handle,
         \A j \in 2..Len(bgq) : bgq[j].op = "send" => bgq[j].n \in ws'.live
  PROVE  /\ QueueInOrder' /\ bgq' \in Seq(Task) /\ Head(bgq) = bgq[1] /\ Len(bgq) \in Nat \ {0}
         /\ Head(bgq) \in Task
         /\ \A j \in 1..Len(bgq') : j + 1 \in 2..Len(bgq) /\ bgq'[j] = bgq[j + 1]
<1>1. /\ bgq' \in Seq(Task) /\ Head(bgq) = bgq[1] /\ Len(bgq) \in Nat \ {0} /\ Head(bgq) \in Task
      /\ Len(bgq') = Len(bgq) - 1 /\ \A j \in 1..Len(bgq') : bgq'[j] = bgq[j + 1]
  BY TailRange, TaskFacts
<1>2. \A j \in 1..Len(bgq') : /\ j + 1 \in 2..Len(bgq) /\ j + 1 \in 1..Len(bgq)
                              /\ bgq'[j] = bgq[j + 1]
  BY <1>1
<1>3. ASSUME NEW i \in 1..Len(bgq'), NEW j \in 1..Len(bgq'), i < j
      PROVE  /\ bgq'[i].op = "closeWS" => bgq'[j].op # "send"
             /\ bgq'[i].op = "send" /\ bgq'[j].op = "send" => bgq'[i].n < bgq'[j].n
             /\ bgq'[i].op = "free" /\ bgq'[j].op = "send" => bgq'[i].n # bgq'[j].n
  <2>1. /\ i + 1 \in 1..Len(bgq) /\ j + 1 \in 1..Len(bgq) /\ i + 1 < j + 1
        /\ bgq'[i] = bgq[i + 1] /\ bgq'[j] = bgq[j + 1]
    BY <1>2, <1>3
  <2> QED BY <2>1 DEF QueueInOrder
<1>4. ASSUME NEW i \in 1..Len(bgq')
      PROVE  /\ bgq'[i].op \in {"send", "free"} => bgq'[i].n <= ws'.sent
             /\ bgq'[i].op = "send" => bgq'[i].n \in ws'.live
             /\ bgq'[i].op = "closeWS" => ~ws'.handle
  <2>1. i + 1 \in 1..Len(bgq) /\ i + 1 \in 2..Len(bgq) /\ bgq'[i] = bgq[i + 1]
    BY <1>2
  <2> QED BY <2>1 DEF QueueInOrder
<1> QED BY <1>1, <1>2, <1>3, <1>4 DEF QueueInOrder

\* The parts of the type invariant that a task or a call of R leaves alone.
LEMMA CallTypes ==
  ASSUME IInv, UNCHANGED <<frames, net, parser, socket, got>>, conn' \in Connection,
         out' \in Seq(Message), bgq' \in Seq(Task), ws' \in WsObject
  PROVE  TypeOK' /\ HeaderPending'
<1>1. TypeOK /\ Typed /\ net' \in ByteSeq /\ parser' \in Parser
      /\ Len(parser'.header) < MAX_HEADER_BYTES /\ parser'.old = parser.old
      /\ (parser'.old <=> parser'.state \notin {"InHeader", "InPayload"})
  BY DEF IInv, TypeOK, Typed
<1>2. TypeOK'
  BY <1>1, TypesStay
<1>3. HeaderPending'
  BY SameHeaderPends
<1> QED BY <1>2, <1>3

\* The messages that were sent, when one more is.
LEMMA AppendSent ==
  ASSUME TypeOK, SentInOrder, NEW m \in Message, out' = Append(out, m), ~CloseSent,
         ws'.sent = ws.sent,
         m.op = "Text" => /\ m.n <= ws.sent
                          /\ \A j \in 1..Len(bgq') : bgq'[j].op = "send" => m.n < bgq'[j].n
                          /\ \A i \in 1..Len(out) : out[i].op = "Text" => out[i].n < m.n,
         \A i \in 1..Len(out) : out[i].op = "Text" =>
           \A j \in 1..Len(bgq') : bgq'[j].op = "send" => out[i].n < bgq'[j].n,
         m.op = "Close" => /\ conn'.state # "WS_OPEN" /\ ~ws'.handle
                           /\ \A j \in 1..Len(bgq') : bgq'[j].op # "send"
  PROVE  SentInOrder'
<1>1. out \in Seq(Message) /\ Len(out) \in Nat
  BY LenProperties DEF TypeOK, Message
<1>2. /\ Len(out') = Len(out) + 1 /\ out'[Len(out) + 1] = m
      /\ \A i \in 1..Len(out) : out'[i] = out[i]
  BY <1>1, AppendProperties
<1>3. \A i \in 1..Len(out') : i \in 1..Len(out) \/ i = Len(out) + 1
  BY <1>1, <1>2
<1>4. \A i \in 1..Len(out) : out[i].op # "Close"
  BY DEF CloseSent
<1>5. CloseSent' => m.op = "Close"
  BY <1>2, <1>3, <1>4 DEF CloseSent
<1>6. ASSUME NEW i \in 1..Len(out'), out'[i].op = "Text"
      PROVE  /\ out'[i].n <= ws'.sent
             /\ \A j \in 1..Len(bgq') : bgq'[j].op = "send" => out'[i].n < bgq'[j].n
  <2>1. CASE i \in 1..Len(out)
    BY <1>2, <1>6, <2>1 DEF SentInOrder
  <2>2. CASE i = Len(out) + 1
    BY <1>2, <1>6, <2>2
  <2> QED BY <1>3, <2>1, <2>2
<1>7. ASSUME NEW i \in 1..Len(out'), NEW j \in 1..Len(out'), i < j
      PROVE  /\ out'[i].op = "Text" /\ out'[j].op = "Text" => out'[i].n < out'[j].n
             /\ out'[i].op = "Close" => out'[j].op \in {"Ping", "Pong"}
  <2>1. i \in 1..Len(out)
    BY <1>1, <1>3, <1>7
  <2>2. CASE j \in 1..Len(out)
    BY <1>2, <1>7, <2>1, <2>2 DEF SentInOrder
  <2>3. CASE j = Len(out) + 1
    BY <1>2, <1>4, <2>1, <2>3
  <2> QED BY <1>3, <2>2, <2>3
<1>8. CloseSent' => /\ conn'.state # "WS_OPEN" /\ ~ws'.handle
                    /\ \A j \in 1..Len(bgq') : bgq'[j].op # "send"
  BY <1>5
<1> QED BY <1>6, <1>7, <1>8 DEF SentInOrder

\* The stream is as it was; of the queue, tasks may have gone.
LEMMA SameSent ==
  ASSUME SentInOrder, out' = out, ws'.sent >= ws.sent, ws.sent \in Nat, ws'.sent \in Nat,
         \A i \in 1..Len(out) : out[i].op = "Text" => out[i].n \in Nat,
         \A i \in 1..Len(out) : out[i].op = "Text" =>
           \A j \in 1..Len(bgq') : bgq'[j].op = "send" => out[i].n < bgq'[j].n,
         CloseSent => /\ conn'.state # "WS_OPEN" /\ ~ws'.handle
                      /\ \A j \in 1..Len(bgq') : bgq'[j].op # "send"
  PROVE  SentInOrder'
<1>1. CloseSent' <=> CloseSent
  BY DEF CloseSent
<1>2. ASSUME NEW i \in 1..Len(out'), out'[i].op = "Text"
      PROVE  /\ out'[i].n <= ws'.sent
             /\ \A j \in 1..Len(bgq') : bgq'[j].op = "send" => out'[i].n < bgq'[j].n
  <2>1. out[i].n \in Nat /\ out[i].n <= ws.sent
    BY <1>2 DEF SentInOrder
  <2>2. out[i].n <= ws'.sent
    BY <2>1
  <2> QED BY <1>2, <2>2
<1> QED BY <1>1, <1>2 DEF SentInOrder

\* What a task or a call of R finds.
LEMMA CallFacts ==
  ASSUME IInv
  PROVE  /\ TypeOK /\ QueueInOrder /\ SentInOrder /\ conn \in Connection
         /\ out \in Seq(Message) /\ Len(out) \in Nat /\ bgq \in Seq(Task) /\ ws \in WsObject
         /\ ws.sent \in 0..MaxSends /\ ws.live \subseteq 1..MaxSends /\ ws.handle \in BOOLEAN
         /\ MaxSends \in Nat
         /\ \A i \in 1..Len(out) : out[i].n \in Nat
<1>1. /\ TypeOK /\ QueueInOrder /\ SentInOrder /\ conn \in Connection
      /\ out \in Seq(Message) /\ bgq \in Seq(Task) /\ ws \in WsObject
  BY DEF IInv, TypeOK, Message, WsObject
<1>2. ws.sent \in 0..MaxSends /\ ws.live \subseteq 1..MaxSends /\ ws.handle \in BOOLEAN
  BY <1>1 DEF WsObject
<1>3. ASSUME NEW i \in 1..Len(out) PROVE out[i].n \in Nat
  <2>1. out[i] \in Message
    BY <1>1, ElementOfSeq
  <2>2. out[i].n \in 0..MaxSends
    BY <2>1 DEF Message
  <2> QED BY <2>2
<1> QED BY <1>1, <1>2, <1>3, LenProperties, ConstantsAssumption

LEMMA TaskSendKeeps ==
  ASSUME IInv, TaskSend
  PROVE  IInv'
<1> DEFINE n == Head(bgq).n
<1>1. /\ bgq # <<>> /\ Head(bgq).op = "send" /\ bgq' = Tail(bgq)
      /\ out' = SendWSMessage(conn, "Text", n)
      /\ UNCHANGED <<frames, net, parser, conn, socket, got, ws>>
  BY DEF TaskSend, Flush
<1>2. /\ TypeOK /\ QueueInOrder /\ SentInOrder /\ conn \in Connection
      /\ out \in Seq(Message) /\ ws \in WsObject /\ ws.sent \in Nat /\ MaxSends \in Nat
      /\ \A i \in 1..Len(out) : out[i].n \in Nat
  BY CallFacts
<1>3. \A j \in 2..Len(bgq) : bgq[j].op = "send" => bgq[j].n \in ws.live
  <2>1. Len(bgq) \in Nat
    BY <1>2, TaskFacts
  <2>2. \A j \in 2..Len(bgq) : j \in 1..Len(bgq)
    BY <2>1
  <2> QED BY <1>2, <2>2 DEF QueueInOrder
<1>4. /\ QueueInOrder' /\ bgq' \in Seq(Task) /\ Head(bgq) = bgq[1] /\ Len(bgq) \in Nat \ {0}
      /\ Head(bgq) \in Task
      /\ \A j \in 1..Len(bgq') : j + 1 \in 2..Len(bgq) /\ bgq'[j] = bgq[j + 1]
  BY <1>1, <1>2, <1>3, FlushKeepsQueue
<1>5. 1 \in 1..Len(bgq) /\ bgq[1].op = "send" /\ n = bgq[1].n /\ n \in 1..MaxSends
      /\ \A j \in 1..Len(bgq') : j + 1 \in 1..Len(bgq) /\ 1 < j + 1
  <2>1. n \in 1..MaxSends
    BY <1>1, <1>2, <1>4, TaskFacts
  <2> QED BY <1>1, <1>4, <2>1
<1> HIDE DEF n
<1>6. n \in 0..MaxSends /\ "Text" \in Opcode
  BY <1>2, <1>5 DEF Opcode
<1>7. /\ out' \in Seq(Message)
      /\ out' = out \/ \E m \in Message : m.op = "Text" /\ m.n = n /\ out' = Append(out, m)
  BY <1>1, <1>2, <1>6, SendType
<1>8. TypeOK' /\ HeaderPending'
  BY <1>1, <1>2, <1>4, <1>7, CallTypes
<1>9. ~CloseSent
  BY <1>2, <1>5 DEF SentInOrder
<1>10. /\ n <= ws.sent
       /\ \A j \in 1..Len(bgq') : bgq'[j].op = "send" => n < bgq'[j].n
       /\ \A i \in 1..Len(out) : out[i].op = "Text" => out[i].n < n
       /\ \A i \in 1..Len(out) : out[i].op = "Text" =>
            \A j \in 1..Len(bgq') : bgq'[j].op = "send" => out[i].n < bgq'[j].n
  BY <1>2, <1>4, <1>5 DEF QueueInOrder, SentInOrder
<1>11. SentInOrder'
  <2>1. CASE out' = out
    BY <1>1, <1>2, <1>9, <1>10, <2>1, SameSent
  <2>2. CASE out' # out
    <3>1. PICK m \in Message : m.op = "Text" /\ m.n = n /\ out' = Append(out, m)
      BY <1>7, <2>2
    <3> QED BY <1>1, <1>2, <1>9, <1>10, <3>1, AppendSent
  <2> QED BY <2>1, <2>2
<1> QED BY <1>4, <1>8, <1>11 DEF IInv

LEMMA TaskFreeKeeps ==
  ASSUME IInv, TaskFree
  PROVE  IInv'
<1> DEFINE n == Head(bgq).n
           live == ws.live \ {n}
<1>1. /\ bgq # <<>> /\ Head(bgq).op = "free" /\ bgq' = Tail(bgq)
      /\ ws' = [ws EXCEPT !.live = @ \ {n}]
      /\ UNCHANGED <<frames, net, parser, conn, socket, out, got>>
  BY DEF TaskFree, Flush
<1>2. /\ TypeOK /\ QueueInOrder /\ SentInOrder /\ conn \in Connection
      /\ out \in Seq(Message) /\ ws \in WsObject /\ ws.sent \in Nat /\ MaxSends \in Nat
      /\ ws.live \subseteq 1..MaxSends
      /\ \A i \in 1..Len(out) : out[i].n \in Nat
  BY CallFacts
<1>3. ws' = [ws EXCEPT !.live = live] /\ live \in SUBSET (1..MaxSends)
  BY <1>1, <1>2 DEF WsObject
<1>4. /\ Len(bgq) \in Nat \ {0} /\ Head(bgq) = bgq[1]
  BY <1>1, <1>2, TailRange, TaskFacts
<1>5. \A j \in 2..Len(bgq) : bgq[j].op = "send" => bgq[j].n \in live
  <2>1. \A j \in 2..Len(bgq) : j \in 1..Len(bgq) /\ 1 \in 1..Len(bgq) /\ 1 < j
    BY <1>4
  <2>2. bgq[1].op = "free" /\ bgq[1].n = n
    BY <1>1, <1>4
  <2> HIDE DEF n
  <2> QED BY <1>2, <2>1, <2>2 DEF QueueInOrder
<1> HIDE DEF live
<1>6. ws' \in WsObject /\ ws'.live = live /\ ws'.sent = ws.sent /\ ws'.handle = ws.handle
  BY <1>2, <1>3 DEF WsObject
<1>7. /\ QueueInOrder' /\ bgq' \in Seq(Task)
      /\ \A j \in 1..Len(bgq') : j + 1 \in 2..Len(bgq) /\ bgq'[j] = bgq[j + 1]
  BY <1>1, <1>2, <1>5, <1>6, FlushKeepsQueue
<1>8. TypeOK' /\ HeaderPending'
  BY <1>1, <1>2, <1>6, <1>7, CallTypes
<1>9. \A j \in 1..Len(bgq') : j + 1 \in 1..Len(bgq) /\ bgq'[j] = bgq[j + 1]
  BY <1>4, <1>7
<1>10. /\ \A i \in 1..Len(out) : out[i].op = "Text" =>
            \A j \in 1..Len(bgq') : bgq'[j].op = "send" => out[i].n < bgq'[j].n
       /\ CloseSent => /\ conn'.state # "WS_OPEN" /\ ~ws'.handle
                       /\ \A j \in 1..Len(bgq') : bgq'[j].op # "send"
  BY <1>1, <1>2, <1>6, <1>9 DEF SentInOrder
<1>11. SentInOrder'
  BY <1>1, <1>2, <1>6, <1>10, SameSent
<1> QED BY <1>7, <1>8, <1>11 DEF IInv

LEMMA TaskCloseWSKeeps ==
  ASSUME IInv, TaskCloseWS
  PROVE  IInv'
<1>1. /\ bgq # <<>> /\ Head(bgq).op = "closeWS" /\ bgq' = Tail(bgq)
      /\ UNCHANGED <<frames, net, parser, socket, got, ws>>
      /\ \/ UNCHANGED <<conn, out>>
         \/ /\ conn.state = "WS_OPEN"
            /\ conn' = [conn EXCEPT !.state = "WS_CLOSE_SENT"]
            /\ out' = SendWSMessage(conn', "Close", 0)
  BY DEF TaskCloseWS, Flush
<1>2. /\ TypeOK /\ QueueInOrder /\ SentInOrder /\ conn \in Connection
      /\ out \in Seq(Message) /\ ws \in WsObject /\ ws.sent \in Nat /\ MaxSends \in Nat
      /\ \A i \in 1..Len(out) : out[i].n \in Nat
  BY CallFacts
<1>3. \A j \in 2..Len(bgq) : bgq[j].op = "send" => bgq[j].n \in ws.live
  <2>1. Len(bgq) \in Nat
    BY <1>2, TaskFacts
  <2>2. \A j \in 2..Len(bgq) : j \in 1..Len(bgq)
    BY <2>1
  <2> QED BY <1>2, <2>2 DEF QueueInOrder
<1>4. /\ QueueInOrder' /\ bgq' \in Seq(Task) /\ Head(bgq) = bgq[1] /\ Len(bgq) \in Nat \ {0}
      /\ \A j \in 1..Len(bgq') : j + 1 \in 2..Len(bgq) /\ bgq'[j] = bgq[j + 1]
  BY <1>1, <1>2, <1>3, FlushKeepsQueue
<1>5. /\ 1 \in 1..Len(bgq) /\ bgq[1].op = "closeWS"
      /\ \A j \in 1..Len(bgq') : j + 1 \in 1..Len(bgq) /\ 1 < j + 1 /\ bgq'[j] = bgq[j + 1]
  BY <1>1, <1>4
<1>6. ~ws.handle /\ \A j \in 1..Len(bgq') : bgq'[j].op # "send"
  BY <1>2, <1>5 DEF QueueInOrder
<1>7. CASE UNCHANGED <<conn, out>>
  <2>1. TypeOK' /\ HeaderPending'
    BY <1>1, <1>2, <1>4, <1>7, CallTypes
  <2>2. CloseSent => conn'.state # "WS_OPEN"
    BY <1>2, <1>7 DEF SentInOrder
  <2>3. SentInOrder'
    BY <1>1, <1>2, <1>6, <1>7, <2>2, SameSent
  <2> QED BY <1>4, <2>1, <2>3 DEF IInv
<1>8. CASE /\ conn.state = "WS_OPEN"
           /\ conn' = [conn EXCEPT !.state = "WS_CLOSE_SENT"]
           /\ out' = SendWSMessage(conn', "Close", 0)
  <2>1. conn' \in Connection /\ conn'.state = "WS_CLOSE_SENT"
    BY <1>2, <1>8 DEF Connection
  <2>2. 0 \in 0..MaxSends /\ "Close" \in Opcode
    BY <1>2 DEF Opcode
  <2> DEFINE c == [conn EXCEPT !.state = "WS_CLOSE_SENT"]
  <2>3. c \in Connection /\ out' = SendWSMessage(c, "Close", 0)
    <3>1. c \in Connection /\ conn' = c
      BY <1>8, <2>1
    <3> QED BY <1>8, <3>1
  <2> HIDE DEF c
  <2>4. /\ out' \in Seq(Message)
        /\ out' = out \/ \E m \in Message : m.op = "Close" /\ out' = Append(out, m)
    BY <1>2, <2>2, <2>3, SendType
  <2>5. TypeOK' /\ HeaderPending'
    BY <1>1, <1>2, <1>4, <2>1, <2>4, CallTypes
  <2>6. ~CloseSent
    BY <1>2, <1>8 DEF SentInOrder
  <2>7. SentInOrder'
    <3>1. CASE out' = out
      BY <1>1, <1>2, <1>6, <2>6, <3>1, SameSent
    <3>2. CASE out' # out
      <4>1. PICK m \in Message : m.op = "Close" /\ out' = Append(out, m)
        BY <2>4, <3>2
      <4>2. m.op # "Text" /\ conn'.state # "WS_OPEN" /\ ws' = ws
        BY <1>1, <2>1, <4>1
      <4> QED BY <1>2, <1>6, <2>6, <4>1, <4>2, AppendSent
    <3> QED BY <3>1, <3>2
  <2> QED BY <1>4, <2>5, <2>7 DEF IInv
<1> QED BY <1>1, <1>7, <1>8

LEMMA SendKeeps ==
  ASSUME IInv, Send
  PROVE  IInv'
<1> DEFINE n == ws.sent + 1
           send == [op |-> "send", n |-> n]
           free == [op |-> "free", n |-> n]
           two == <<send, free>>
           live == ws.live \cup {n}
<1>1. /\ ws.handle /\ ws.sent < MaxSends
      /\ ws' = [ws EXCEPT !.sent = n, !.live = @ \cup {n}] /\ bgq' = bgq \o two
      /\ UNCHANGED <<frames, net, parser, conn, socket, out, got>>
  BY DEF Send
<1>2. /\ TypeOK /\ QueueInOrder /\ SentInOrder /\ conn \in Connection
      /\ out \in Seq(Message) /\ ws \in WsObject /\ ws.sent \in 0..MaxSends /\ MaxSends \in Nat
      /\ ws.live \subseteq 1..MaxSends
      /\ \A i \in 1..Len(out) : out[i].n \in Nat
  BY CallFacts
<1>3. n \in 1..MaxSends /\ live \in SUBSET (1..MaxSends) /\ n \in 0..MaxSends
  BY <1>1, <1>2
<1>4. ws' = [ws EXCEPT !.sent = n, !.live = live]
  BY <1>1, <1>2 DEF WsObject
<1>5. /\ send \in Task /\ free \in Task /\ send.op = "send" /\ send.n = n /\ free.op = "free"
      /\ free.n = n
  BY <1>3 DEF Task
<1>6. two \in Seq(Task) /\ Len(two) = 2 /\ two[1] = send /\ two[2] = free
  <2> HIDE DEF send, free
  <2> QED BY <1>5
<1>7. n = ws.sent + 1 /\ n \in live /\ ws.live \subseteq live
  OBVIOUS
<1> HIDE DEF n, send, free, two, live
<1>8. ws' \in WsObject /\ ws'.sent = n /\ ws'.live = live /\ ws'.handle = ws.handle
  BY <1>2, <1>3, <1>4 DEF WsObject
<1> DEFINE k == Len(bgq)
<1>9. /\ bgq \in Seq(Task) /\ k \in Nat /\ \A i \in 1..k : bgq[i] \in Task
      /\ \A t \in Task : t.op \in {"send", "free", "closeWS"}
                         /\ (t.op \in {"send", "free"} => t.n \in 1..MaxSends)
  BY <1>2, TaskFacts
<1>10. /\ bgq' \in Seq(Task) /\ Len(bgq') = k + 2
       /\ \A i \in 1..k : bgq'[i] = bgq[i]
       /\ bgq'[k + 1] = send /\ bgq'[k + 2] = free
  <2>1. /\ bgq' \in Seq(Task) /\ Len(bgq') = k + Len(two)
        /\ \A i \in 1..k + Len(two) : bgq'[i] = IF i <= k THEN bgq[i] ELSE two[i - k]
    <3>1. bgq \in Seq(Task) /\ two \in Seq(Task) /\ bgq' = bgq \o two
      BY <1>1, <1>6, <1>9
    <3>2. /\ bgq' \in Seq(Task) /\ Len(bgq') = Len(bgq) + Len(two)
          /\ \A i \in 1..Len(bgq) + Len(two) :
               bgq'[i] = IF i <= Len(bgq) THEN bgq[i] ELSE two[i - Len(bgq)]
      BY <3>1, ConcatProperties
    <3> QED BY <3>2 DEF k
  <2> HIDE DEF k
  <2>2. k + 1 \in 1..k + 2 /\ k + 2 \in 1..k + 2 /\ ~(k + 1 <= k) /\ ~(k + 2 <= k)
        /\ (k + 1) - k = 1 /\ (k + 2) - k = 2 /\ \A i \in 1..k : i \in 1..k + 2 /\ i <= k
    BY <1>9
  <2> QED BY <1>6, <1>9, <2>1, <2>2
<1> HIDE DEF k
<1>11. \A i \in 1..Len(bgq') : i \in 1..k \/ i = k + 1 \/ i = k + 2
  BY <1>9, <1>10
<1>12. \A i \in 1..k : /\ bgq[i].op # "closeWS"
                       /\ bgq[i].op \in {"send", "free"} /\ bgq[i].n < n
  <2>1. ASSUME NEW i \in 1..k PROVE bgq[i].op # "closeWS" /\ bgq[i].op \in {"send", "free"}
                                    /\ bgq[i].n <= ws.sent /\ bgq[i].n \in Nat
    <3>1. bgq[i].op # "closeWS"
      BY <1>1, <1>2 DEF QueueInOrder, k
    <3>2. bgq[i].op \in {"send", "free"} /\ bgq[i].n \in 1..MaxSends
      BY <1>9, <3>1
    <3>3. bgq[i].n <= ws.sent
      BY <1>2, <3>2 DEF QueueInOrder, k
    <3> QED BY <3>1, <3>2, <3>3
  <2> QED BY <1>2, <1>7, <2>1
<1>13. QueueInOrder'
  <2>1. ASSUME NEW i \in 1..Len(bgq'), NEW j \in 1..Len(bgq'), i < j
        PROVE  /\ bgq'[i].op = "closeWS" => bgq'[j].op # "send"
               /\ bgq'[i].op = "send" /\ bgq'[j].op = "send" => bgq'[i].n < bgq'[j].n
               /\ bgq'[i].op = "free" /\ bgq'[j].op = "send" => bgq'[i].n # bgq'[j].n
    <3>1. CASE i \in 1..k /\ j \in 1..k
      BY <1>2, <1>10, <2>1, <3>1 DEF QueueInOrder, k
    <3>2. CASE i \in 1..k /\ j = k + 1
      <4>1. bgq[i].n \in Nat /\ bgq[i].n < n /\ n \in Nat
        BY <1>3, <1>9, <1>12, <3>2
      <4>2. bgq[i].n # n
        BY <4>1
      <4> QED BY <1>5, <1>10, <1>12, <3>2, <4>2
    <3>3. CASE j = k + 2
      BY <1>5, <1>10, <3>3
    <3>4. j = k + 2 \/ (i \in 1..k /\ (j \in 1..k \/ j = k + 1))
      BY <1>9, <1>11, <2>1
    <3> QED BY <3>1, <3>2, <3>3, <3>4
  <2>2. ASSUME NEW i \in 1..Len(bgq')
        PROVE  /\ bgq'[i].op \in {"send", "free"} => bgq'[i].n <= ws'.sent
               /\ bgq'[i].op = "send" => bgq'[i].n \in ws'.live
               /\ bgq'[i].op = "closeWS" => ~ws'.handle
    <3>1. CASE i \in 1..k
      <4>1. bgq[i].n \in Nat /\ bgq[i].n < n /\ n \in Nat
        BY <1>3, <1>9, <1>12, <3>1
      <4>2. bgq[i].n <= n
        BY <4>1
      <4>3. bgq[i].op = "send" => bgq[i].n \in live
        BY <1>2, <1>7, <3>1 DEF QueueInOrder, k
      <4> QED BY <1>8, <1>10, <1>12, <3>1, <4>2, <4>3
    <3>2. CASE i = k + 1 \/ i = k + 2
      <4>1. n <= n
        BY <1>3
      <4>2. bgq'[i].op # "closeWS" /\ bgq'[i].n = n
        BY <1>5, <1>10, <3>2
      <4> QED BY <1>7, <1>8, <4>1, <4>2
    <3> QED BY <1>11, <3>1, <3>2
  <2> QED BY <2>1, <2>2 DEF QueueInOrder
<1>14. TypeOK' /\ HeaderPending'
  BY <1>1, <1>2, <1>8, <1>10, CallTypes
<1>15. ~CloseSent
  BY <1>1, <1>2 DEF SentInOrder
<1>16. ASSUME NEW i \in 1..Len(out), out[i].op = "Text",
              NEW j \in 1..Len(bgq'), bgq'[j].op = "send"
       PROVE  out[i].n < bgq'[j].n
  <2>1. CASE j \in 1..k
    BY <1>2, <1>10, <1>16, <2>1 DEF SentInOrder, k
  <2>2. CASE j = k + 1
    <3>1. out[i].n \in Nat /\ out[i].n <= ws.sent
      BY <1>2, <1>16 DEF SentInOrder
    <3>2. out[i].n < n
      BY <1>2, <1>7, <3>1
    <3> QED BY <1>5, <1>10, <2>2, <3>2
  <2>3. j # k + 2
    BY <1>5, <1>10, <1>16
  <2> QED BY <1>11, <2>1, <2>2, <2>3
<1>17. ws'.sent >= ws.sent /\ ws.sent \in Nat /\ ws'.sent \in Nat
  BY <1>2, <1>3, <1>7, <1>8
<1>18. SentInOrder'
  BY <1>1, <1>2, <1>15, <1>16, <1>17, SameSent
<1> QED BY <1>13, <1>14, <1>18 DEF IInv

LEMMA CloseKeeps ==
  ASSUME IInv, Close
  PROVE  IInv'
<1> DEFINE e == [op |-> "closeWS"]
           k == Len(bgq)
<1>1. /\ ws.handle /\ bgq' = Append(bgq, e) /\ ws' = [ws EXCEPT !.handle = FALSE]
      /\ UNCHANGED <<frames, net, parser, conn, socket, out, got>>
  BY DEF Close
<1>2. /\ TypeOK /\ QueueInOrder /\ SentInOrder /\ conn \in Connection
      /\ out \in Seq(Message) /\ ws \in WsObject /\ ws.sent \in Nat
      /\ \A i \in 1..Len(out) : out[i].n \in Nat
  BY CallFacts
<1>3. e \in Task /\ e.op = "closeWS"
  BY DEF Task
<1> HIDE DEF e
<1>4. ws' \in WsObject /\ ~ws'.handle /\ ws'.sent = ws.sent /\ ws'.live = ws.live
  BY <1>1, <1>2 DEF WsObject
<1>5. /\ bgq' \in Seq(Task) /\ Len(bgq') = k + 1 /\ k \in Nat /\ bgq'[k + 1] = e
      /\ \A i \in 1..k : bgq'[i] = bgq[i]
  BY <1>1, <1>2, <1>3, TaskFacts, AppendProperties
<1>6. \A i \in 1..Len(bgq') : i \in 1..k \/ i = k + 1
  BY <1>5
<1>7. \A i \in 1..Len(bgq') : bgq'[i].op = "send" => i \in 1..k /\ bgq'[i] = bgq[i]
  BY <1>3, <1>5, <1>6
<1>8. QueueInOrder'
  <2>1. ASSUME NEW i \in 1..Len(bgq'), NEW j \in 1..Len(bgq'), i < j
        PROVE  /\ bgq'[i].op = "closeWS" => bgq'[j].op # "send"
               /\ bgq'[i].op = "send" /\ bgq'[j].op = "send" => bgq'[i].n < bgq'[j].n
               /\ bgq'[i].op = "free" /\ bgq'[j].op = "send" => bgq'[i].n # bgq'[j].n
    <3>1. CASE bgq'[j].op # "send"
      BY <3>1
    <3>2. CASE bgq'[j].op = "send"
      <4>1. j \in 1..k /\ i \in 1..k
        BY <1>5, <1>6, <1>7, <2>1, <3>2
      <4> QED BY <1>2, <1>5, <2>1, <4>1 DEF QueueInOrder
    <3> QED BY <3>1, <3>2
  <2>2. ASSUME NEW i \in 1..Len(bgq')
        PROVE  /\ bgq'[i].op \in {"send", "free"} => bgq'[i].n <= ws'.sent
               /\ bgq'[i].op = "send" => bgq'[i].n \in ws'.live
               /\ bgq'[i].op = "closeWS" => ~ws'.handle
    <3>1. CASE i \in 1..k
      BY <1>2, <1>4, <1>5, <3>1 DEF QueueInOrder
    <3>2. CASE i = k + 1
      BY <1>3, <1>4, <1>5, <3>2
    <3> QED BY <1>6, <3>1, <3>2
  <2> QED BY <2>1, <2>2 DEF QueueInOrder
<1>9. TypeOK' /\ HeaderPending'
  BY <1>1, <1>2, <1>4, <1>5, CallTypes
<1>10. /\ \A i \in 1..Len(out) : out[i].op = "Text" =>
            \A j \in 1..Len(bgq') : bgq'[j].op = "send" => out[i].n < bgq'[j].n
       /\ ~CloseSent
  BY <1>1, <1>2, <1>7 DEF SentInOrder
<1>11. ws'.sent >= ws.sent
  BY <1>2, <1>4
<1>12. SentInOrder'
  BY <1>1, <1>2, <1>4, <1>10, <1>11, SameSent
<1> QED BY <1>8, <1>9, <1>12 DEF IInv

LEMMA OnWSCloseKeeps ==
  ASSUME IInv, OnWSClose
  PROVE  IInv'
<1>1. /\ ws' = [ws EXCEPT !.closed = "told", !.handle = FALSE]
      /\ UNCHANGED <<frames, net, parser, conn, socket, out, got, bgq>>
  BY DEF OnWSClose
<1>2. /\ TypeOK /\ QueueInOrder /\ SentInOrder /\ conn \in Connection
      /\ out \in Seq(Message) /\ bgq \in Seq(Task) /\ ws \in WsObject /\ ws.sent \in Nat
      /\ \A i \in 1..Len(out) : out[i].n \in Nat
  BY CallFacts
<1>3. ws' \in WsObject /\ ~ws'.handle /\ ws'.sent = ws.sent /\ ws'.live = ws.live
  BY <1>1, <1>2 DEF WsObject
<1>4. TypeOK' /\ HeaderPending'
  BY <1>1, <1>2, <1>3, CallTypes
<1>5. QueueInOrder'
  BY <1>1, <1>2, <1>3 DEF QueueInOrder
<1>6. ws'.sent >= ws.sent
  BY <1>2, <1>3
<1>7. SentInOrder'
  <2>1. /\ \A i \in 1..Len(out) : out[i].op = "Text" =>
             \A j \in 1..Len(bgq') : bgq'[j].op = "send" => out[i].n < bgq'[j].n
        /\ CloseSent => /\ conn'.state # "WS_OPEN" /\ ~ws'.handle
                        /\ \A j \in 1..Len(bgq') : bgq'[j].op # "send"
    BY <1>1, <1>2, <1>3 DEF SentInOrder
  <2> QED BY <1>1, <1>2, <1>3, <1>6, <2>1, SameSent
<1> QED BY <1>4, <1>5, <1>7 DEF IInv

-------------------------------------------------------------------------------
(* The theorems. *)

LEMMA InitEstablishes == Init => IInv
<1> SUFFICES ASSUME Init PROVE IInv
  OBVIOUS
<1>1. /\ frames = <<>> /\ net = <<>> /\ socket = "open" /\ out = <<>> /\ got = <<>> /\ bgq = <<>>
      /\ conn = [state |-> "WS_OPEN", header |-> NoHeader, payload |-> <<>>,
                 incompleteHeader |-> NoHeader, incompletePayload |-> <<>>]
      /\ ws = [handle |-> TRUE, sent |-> 0, live |-> {}, closed |-> "no", pings |-> 0]
  BY DEF Init
<1>2. PICK old \in BOOLEAN :
        parser = [old |-> old, state |-> IF old THEN "H76_START" ELSE "InHeader", header |-> <<>>,
                  bytesLeft |-> 0, reading |-> FALSE, recur |-> FALSE, data |-> <<>>]
  BY DEF Init
<1>3. Len(<<>>) = 0 /\ 1..0 = {} /\ \A S : <<>> \in Seq(S)
  BY EmptySeq
<1>4. <<>> \in ByteSeq /\ TRUE \in BOOLEAN /\ FALSE \in BOOLEAN
  BY EmptySeq DEF ByteSeq
<1>5. NoHeader \in Header
  BY <1>1, <1>3, <1>4 DEF NoHeader, Header, Opcode
<1>6. /\ parser \in Parser /\ parser.header = <<>>
      /\ (parser.old <=> parser.state \notin {"InHeader", "InPayload"})
  <2> DEFINE state == IF old THEN "H76_START" ELSE "InHeader"
  <2>1. state \in {"H76_START", "InHeader"} /\ (old <=> state \notin {"InHeader", "InPayload"})
    OBVIOUS
  <2> HIDE DEF state
  <2>2. parser = [old |-> old, state |-> state, header |-> <<>>, bytesLeft |-> 0,
                  reading |-> FALSE, recur |-> FALSE, data |-> <<>>]
    BY <1>2 DEF state
  <2> QED BY <1>4, <2>1, <2>2 DEF Parser
<1>7. conn \in Connection
  BY <1>1, <1>4, <1>5 DEF Connection
<1>8. /\ ws \in WsObject /\ ws.handle
  BY <1>1, <1>4, ConstantsAssumption DEF WsObject
<1>9. TypeOK
  BY <1>1, <1>3, <1>4, <1>6, <1>7, <1>8 DEF TypeOK, WsObject, MAX_HEADER_BYTES
<1>10. HeaderPending
  BY <1>3, <1>6 DEF HeaderPending, HeaderComplete
<1>11. QueueInOrder /\ SentInOrder
  BY <1>1, <1>3 DEF QueueInOrder, SentInOrder, CloseSent
<1> QED BY <1>9, <1>10, <1>11 DEF IInv

LEMMA NextKeeps == IInv /\ [Next]_vars => IInv'
<1> SUFFICES ASSUME IInv, [Next]_vars PROVE IInv'
  OBVIOUS
<1>1. CASE UNCHANGED vars
  <2>1. ByteSeq' = ByteSeq /\ Header' = Header
    BY <1>1 DEF vars, ByteSeq, Header
  <2>2. Parser' = Parser /\ Connection' = Connection
    BY <2>1 DEF Parser, Connection
  <2>3. TypeOK'
    BY <1>1, <2>1, <2>2 DEF IInv, TypeOK, vars, Task
  <2> QED BY <1>1, <2>3 DEF IInv, HeaderPending, HeaderComplete, Info, QueueInOrder, SentInOrder,
                            CloseSent, vars
<1>2. CASE \E f \in IF parser.old THEN OldFrames ELSE Frames : ClientFrame(f)
  BY <1>2, ClientFrameKeeps
<1>3. CASE Read \/ Parse
  BY <1>3, ReadKeeps, ParseHeaderKeeps, ParsePayloadKeeps, ParseOldKeeps, ReadReturnsKeeps DEF Parse
<1>4. CASE PingTimer \/ SocketBreaks \/ OnClosed
  BY <1>4, TimerAndSocketKeep
<1>5. CASE BgTask
  BY <1>5, TaskSendKeeps, TaskFreeKeeps, TaskCloseWSKeeps DEF BgTask
<1>6. CASE Send \/ Close \/ OnWSClose
  BY <1>6, SendKeeps, CloseKeeps, OnWSCloseKeeps
<1> QED BY <1>1, <1>2, <1>3, <1>4, <1>5, <1>6 DEF Next

LEMMA Invariant == Spec => []IInv
BY InitEstablishes, NextKeeps, PTL DEF Spec

\* Every variable keeps its type: however the bytes of the client are cut into
\* reads, the parser never keeps more bytes of a header than the buffer of
\* WSHyBiParser::read has place for, never goes to a state of the other
\* protocol and never counts the bytes of a payload below zero.
THEOREM TypeCorrect == Spec => []TypeOK
<1>1. IInv => TypeOK
  BY DEF IInv
<1> QED BY <1>1, Invariant, PTL

\* After its own Close frame the server sends no message and no second Close,
\* for any number of messages, frames and pings (closeWS, sendWSMessage).
THEOREM NothingAfterCloseHolds == Spec => []NothingAfterClose
<1>1. IInv => NothingAfterClose
  <2> SUFFICES ASSUME IInv PROVE NothingAfterClose
    OBVIOUS
  <2>1. out \in Seq(Message) /\ SentInOrder
    BY CallFacts
  <2>2. DOMAIN out = 1..Len(out)
    BY <2>1, LenProperties
  <2> QED BY <2>1, <2>2 DEF NothingAfterClose, SentInOrder
<1> QED BY <1>1, Invariant, PTL

\* A message is sent before its buffer is freed, and messages leave in the
\* order of R's calls, for any number of them (sendWSMessage of httpuv.cpp).
THEOREM SendsFromLiveBuffersHolds == Spec => []SendsFromLiveBuffers
<1>1. IInv => SendsFromLiveBuffers
  <2> SUFFICES ASSUME IInv PROVE SendsFromLiveBuffers
    OBVIOUS
  <2>1. out \in Seq(Message) /\ bgq \in Seq(Task) /\ QueueInOrder /\ SentInOrder
    BY CallFacts
  <2>2. DOMAIN out = 1..Len(out) /\ DOMAIN bgq = 1..Len(bgq)
    BY <2>1, LenProperties
  <2> QED BY <2>1, <2>2 DEF SendsFromLiveBuffers, QueueInOrder, SentInOrder
<1> QED BY <1>1, Invariant, PTL
===============================================================================
