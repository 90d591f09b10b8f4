------------------------------ MODULE ServerProofs ------------------------------
(***************************************************************************)
(* Proofs about Server for any sets of servers and addresses.              *)
(***************************************************************************)
EXTENDS Server, SequencesExt, SequenceTheorems, FiniteSetTheorems,
        FunctionTheorems, WellFoundedInduction, TLAPS

(* Facts about sequences that the proofs below use.                         *)

\* An element is in the range exactly if it stands at some position.
LEMMA InRange ==
  ASSUME NEW S, NEW s \in Seq(S), NEW e
  PROVE  e \in Range(s) <=> \E i \in 1..Len(s) : s[i] = e
BY RangeEquality

\* push_back adds the element, and no duplicate if it was not there.
LEMMA AppendRange ==
  ASSUME NEW S, NEW s \in Seq(S), NEW e \in S
  PROVE  /\ Append(s, e) \in Seq(S)
         /\ Range(Append(s, e)) = Range(s) \cup {e}
         /\ IsInjective(s) /\ e \notin Range(s) => IsInjective(Append(s, e))
<1> DEFINE t == Append(s, e)
<1>1. /\ t \in Seq(S) /\ Len(s) \in Nat /\ Len(t) = Len(s) + 1
      /\ \A i \in 1..Len(s) : t[i] = s[i]
      /\ t[Len(s) + 1] = e
  BY AppendProperties, LenProperties
<1>2. Range(t) = Range(s) \cup {e}
  <2>1. Range(t) = {t[i] : i \in 1..Len(t)} /\ Range(s) = {s[i] : i \in 1..Len(s)}
    BY <1>1, RangeEquality
  <2> HIDE DEF t
  <2> QED BY <1>1, <2>1
<1>3. ASSUME IsInjective(s), e \notin Range(s) PROVE IsInjective(t)
  <2>1. DOMAIN t = 1..Len(t) /\ DOMAIN s = 1..Len(s)
    BY <1>1, LenProperties
  <2>2. \A i \in 1..Len(s) : s[i] # e
    BY <1>3, InRange
  <2> HIDE DEF t
  <2> QED BY <1>1, <1>3, <2>1, <2>2 DEF IsInjective
<1> QED BY <1>1, <1>2, <1>3

\* Popping the front keeps the order and brings in nothing new.
LEMMA TailRange ==
  ASSUME NEW S, NEW s \in Seq(S), s # <<>>
  PROVE  /\ Head(s) \in S /\ Tail(s) \in Seq(S) /\ Head(s) = s[1]
         /\ Len(s) \in Nat \ {0} /\ Len(Tail(s)) = Len(s) - 1
         /\ \A i \in 1..Len(Tail(s)) : Tail(s)[i] = s[i + 1]
         /\ Range(s) = {Head(s)} \cup Range(Tail(s))
<1>1. /\ Head(s) \in S /\ Tail(s) \in Seq(S) /\ Head(s) = s[1]
      /\ Len(s) \in Nat \ {0} /\ Len(Tail(s)) = Len(s) - 1
      /\ \A i \in 1..Len(Tail(s)) : Tail(s)[i] = s[i + 1]
  BY HeadTailProperties, EmptySeq
<1>2. Range(s) = {Head(s)} \cup Range(Tail(s))
  <2> DEFINE t == Tail(s)
  <2>1. Range(s) = {s[i] : i \in 1..Len(s)} /\ Range(t) = {t[i] : i \in 1..Len(t)}
    BY <1>1, RangeEquality, ZenonT(40)
  <2> HIDE DEF t
  <2>2. ASSUME NEW x \in Range(s) PROVE x \in {Head(s)} \cup Range(t)
    <3>1. PICK i \in 1..Len(s) : s[i] = x
      BY <2>1
    <3>2. CASE i = 1
      BY <1>1, <3>1, <3>2
    <3>3. CASE i # 1
      <4>1. i - 1 \in 1..Len(t) /\ t[i - 1] = s[i]
        BY <1>1, <3>3 DEF t
      <4> QED BY <2>1, <3>1, <4>1
    <3> QED BY <3>2, <3>3
  <2>3. ASSUME NEW x \in {Head(s)} \cup Range(t) PROVE x \in Range(s)
    <3>1. CASE x = Head(s)
      BY <1>1, <2>1, <3>1
    <3>2. CASE x \in Range(t)
      <4>1. PICK i \in 1..Len(t) : t[i] = x
        BY <2>1, <3>2
      <4>2. i + 1 \in 1..Len(s) /\ s[i + 1] = x
        BY <1>1, <4>1 DEF t
      <4> QED BY <2>1, <4>2
    <3> QED BY <3>1, <3>2
  <2> QED BY <2>2, <2>3 DEF t
<1> QED BY <1>1, <1>2

\* std::find and erase, on a list without duplicates: the element goes, the
\* rest stays.
LEMMA RemoveFirstRange ==
  ASSUME NEW S, NEW s \in Seq(S), NEW e, IsInjective(s)
  PROVE  /\ RemoveFirst(s, e) \in Seq(S)
         /\ Range(RemoveFirst(s, e)) = Range(s) \ {e}
         /\ IsInjective(RemoveFirst(s, e))
         /\ Len(RemoveFirst(s, e)) = IF e \in Range(s) THEN Len(s) - 1 ELSE Len(s)
<1>1. CASE ~ \E i \in 1..Len(s) : s[i] = e
  BY <1>1, InRange DEF RemoveFirst
<1>2. CASE \E i \in 1..Len(s) : s[i] = e
  <2> DEFINE I == {i \in 1..Len(s) : s[i] = e}
             k == Min(I)
             t == SubSeq(s, 1, k - 1) \o SubSeq(s, k + 1, Len(s))
  <2>1. PICK j \in 1..Len(s) : s[j] = e
    BY <1>2
  <2>2. I = {j} /\ Len(s) \in Nat /\ DOMAIN s = 1..Len(s)
    BY <2>1, LenProperties DEF IsInjective
  <2>3. k = j
    BY <2>2 DEF Min
  <2>4. RemoveFirst(s, e) = t
    BY <1>2, <2>2 DEF RemoveFirst, RemoveAt, SelectInSeq
  <2>5. \A i \in 1..Len(s) : s[i] \in S
    BY ElementOfSeq
  <2> HIDE DEF k, I
  <2>6. /\ SubSeq(s, 1, k - 1) \in Seq(S) /\ Len(SubSeq(s, 1, k - 1)) = k - 1
        /\ \A i \in 1..k - 1 : SubSeq(s, 1, k - 1)[i] = s[i]
    <3>1. \A i \in 1..k - 1 : s[i] \in S
      BY <2>2, <2>3, <2>5
    <3> QED BY <2>3, <3>1, SubSeqProperties
  <2>7. /\ SubSeq(s, k + 1, Len(s)) \in Seq(S) /\ Len(SubSeq(s, k + 1, Len(s))) = Len(s) - k
        /\ \A i \in 1..Len(s) - k : SubSeq(s, k + 1, Len(s))[i] = s[k + i]
    <3>1. \A i \in k + 1..Len(s) : s[i] \in S
      BY <2>2, <2>3, <2>5
    <3>2. k + 1 \in Int /\ Len(s) \in Int
      BY <2>2, <2>3
    <3> DEFINE u == SubSeq(s, k + 1, Len(s))
    <3>3. /\ u \in Seq(S)
          /\ Len(u) = IF k + 1 <= Len(s) THEN Len(s) - (k + 1) + 1 ELSE 0
          /\ \A i \in 1..(Len(s) - (k + 1) + 1) : u[i] = s[k + 1 + i - 1]
      BY <3>1, <3>2, SubSeqProperties
    <3> HIDE DEF u
    <3>4. Len(u) = Len(s) - k /\ Len(s) - (k + 1) + 1 = Len(s) - k
      <4> DEFINE n == Len(s)
      <4>1. n \in Nat /\ k \in 1..n
        BY <2>2, <2>3
      <4>2. Len(u) = IF k + 1 <= n THEN n - (k + 1) + 1 ELSE 0
        BY <3>3
      <4> HIDE DEF n
      <4>3. (k + 1 <= n => n - (k + 1) + 1 = n - k) /\ (~(k + 1 <= n) => 0 = n - k) /\ n - (k + 1) + 1 = n - k
        BY <4>1
      <4>4. Len(u) = n - k
        BY <4>2, <4>3
      <4> QED BY <4>3, <4>4 DEF n
    <3>5. ASSUME NEW i \in 1..Len(s) - k PROVE u[i] = s[k + i]
      <4>1. k + 1 + i - 1 = k + i
        BY <2>3
      <4> QED BY <3>3, <3>4, <4>1
    <3> QED BY <3>3, <3>4, <3>5 DEF u
  <2>8. /\ t \in Seq(S) /\ Len(t) = Len(s) - 1
        /\ \A i \in 1..Len(s) - 1 : t[i] = IF i < k THEN s[i] ELSE s[i + 1]
    <3>1. /\ t \in Seq(S) /\ Len(t) = (k - 1) + (Len(s) - k)
          /\ \A i \in 1..(k - 1) + (Len(s) - k) :
               t[i] = IF i <= k - 1 THEN SubSeq(s, 1, k - 1)[i]
                                    ELSE SubSeq(s, k + 1, Len(s))[i - (k - 1)]
      <4> DEFINE a == SubSeq(s, 1, k - 1)
                 b == SubSeq(s, k + 1, Len(s))
      <4>1. a \in Seq(S) /\ b \in Seq(S) /\ Len(a) = k - 1 /\ Len(b) = Len(s) - k
        BY <2>6, <2>7
      <4> HIDE DEF a, b
      <4>2. /\ a \o b \in Seq(S) /\ Len(a \o b) = Len(a) + Len(b)
            /\ \A i \in 1..Len(a) + Len(b) :
                 (a \o b)[i] = IF i <= Len(a) THEN a[i] ELSE b[i - Len(a)]
        BY <4>1, ConcatProperties
      <4>3. t = a \o b
        BY DEF a, b
      <4> HIDE DEF t
      <4> QED BY <4>1, <4>2, <4>3, Zenon DEF a, b
    <3>2. (k - 1) + (Len(s) - k) = Len(s) - 1
      BY <2>2, <2>3
    <3> HIDE DEF t
    <3>3. ASSUME NEW i \in 1..Len(s) - 1 PROVE t[i] = IF i < k THEN s[i] ELSE s[i + 1]
      <4>1. CASE i < k
        <5>1. i \in 1..k - 1 /\ i <= k - 1
          BY <2>3, <4>1
        <5> QED BY <2>6, <3>1, <3>2, <4>1, <5>1
      <4>2. CASE ~(i < k)
        <5>1. i - (k - 1) \in 1..Len(s) - k /\ k + (i - (k - 1)) = i + 1 /\ ~(i <= k - 1)
          BY <2>2, <2>3, <4>2
        <5> QED BY <2>7, <3>1, <3>2, <4>2, <5>1
      <4> QED BY <4>1, <4>2
    <3> QED BY <3>1, <3>2, <3>3
  <2> HIDE DEF t
  <2>9. DOMAIN t = 1..Len(s) - 1 /\ DOMAIN s = 1..Len(s)
    BY <2>8, LenProperties
  <2>10. ASSUME NEW a \in DOMAIN t, NEW b \in DOMAIN t, t[a] = t[b] PROVE a = b
    <3> DEFINE f(i) == IF i < k THEN i ELSE i + 1
    <3>1. f(a) \in 1..Len(s) /\ f(b) \in 1..Len(s) /\ t[a] = s[f(a)] /\ t[b] = s[f(b)]
      BY <2>2, <2>3, <2>8, <2>9
    <3>2. f(a) = f(b)
      BY <2>9, <2>10, <3>1 DEF IsInjective
    <3> QED BY <2>2, <2>3, <2>9, <3>2
  <2>11. Range(t) = Range(s) \ {e}
    <3>1. Range(s) = {s[i] : i \in 1..Len(s)} /\ Range(t) = {t[i] : i \in 1..Len(s) - 1}
      BY <2>8, RangeEquality
    <3>2. ASSUME NEW x \in Range(t) PROVE x \in Range(s) \ {e}
      <4>1. PICK i \in 1..Len(s) - 1 : t[i] = x
        BY <3>1
      <4>2. PICK n \in 1..Len(s) : n # k /\ s[n] = x
        <5>1. CASE i < k
          BY <2>2, <2>8, <4>1, <5>1
        <5>2. CASE ~(i < k)
          <6>1. i + 1 \in 1..Len(s) /\ i + 1 # k /\ s[i + 1] = x
            BY <2>2, <2>3, <2>8, <4>1, <5>2
          <6> QED BY <6>1
        <5> QED BY <5>1, <5>2
      <4>3. x # e
        BY <2>1, <2>2, <2>3, <4>2 DEF I
      <4> QED BY <3>1, <4>2, <4>3
    <3>3. ASSUME NEW x \in Range(s) \ {e} PROVE x \in Range(t)
      <4>1. PICK n \in 1..Len(s) : s[n] = x
        BY <3>1
      <4>2. n # k
        BY <2>1, <2>3, <4>1, <3>3
      <4>3. CASE n < k
        <5>1. n \in 1..Len(s) - 1 /\ t[n] = x
          BY <2>2, <2>3, <2>8, <4>1, <4>3
        <5> QED BY <3>1, <5>1
      <4>4. CASE k < n
        <5>1. n - 1 \in 1..Len(s) - 1 /\ ~(n - 1 < k) /\ n - 1 + 1 = n
          BY <2>2, <2>3, <4>4
        <5>2. t[n - 1] = x
          BY <2>8, <4>1, <5>1
        <5> QED BY <3>1, <5>1, <5>2
      <4> QED BY <2>3, <4>2, <4>3, <4>4
    <3> QED BY <3>2, <3>3
  <2>12. e \in Range(s)
    BY <2>1, InRange
  <2> QED BY <2>4, <2>8, <2>10, <2>11, <2>12 DEF IsInjective
<1> QED BY <1>1, <1>2

-----------------------------------------------------------------------------
(* The inductive invariant. *)

\* The life of a server object: only the main thread's current call has one that
\* is being started, and one that was never made has nothing to stop.
ServerLife ==
  /\ \A s \in Srv : /\ srv[s].st # "made" => /\ srv[s].handle = NULL
                                             /\ ~srv[s].running /\ ~srv[s].asked
                    /\ srv[s].running => srv[s].kind = "tcp"
                    /\ srv[s].st = "starting" =>
                         main.s = s /\ main.pc \notin {"idle", "stopAll"}
  /\ main.pc \notin {"idle", "stopAll"} => main.s \in Srv /\ srv[main.s].st = "starting"
  /\ \A s \in Range(main.todo) : srv[s].st = "made"

\* The start of the background thread: the Barrier counts who has not arrived.
ThreadStart ==
  /\ io.running <=> io.pc \notin {"none", "starting"}
  /\ io.pc \notin {"none", "starting", "initializing"} => io.queue
  /\ main.pc = "create" => io.pc = "none"
  /\ main.pc = "push" => io.queue
  /\ io.pc \in {"starting", "initializing", "thread"} =>
       main.pc \in {"thread", "inThread"} /\ io.s = main.s
  /\ main.pc \in {"thread", "inThread"} =>
       /\ io.pc \in {"none", "starting", "initializing", "thread", "inThread", "loop"}
       /\ barrier[<<"thread", main.s>>] = (IF main.pc = "inThread" THEN 0 ELSE 1)
                                      + (IF io.pc \in {"inThread", "loop"} THEN 0 ELSE 1)

\* The creation of a socket: the task is in the queue once, or the background
\* thread is at work on it, or it has written the result and been to the Barrier.
CreateInFlight ==
  /\ io.pc = "server" =>
       main.pc \in {"server", "inServer"} /\ io.s = main.s /\ pServer # GARBAGE
  /\ main.pc \in {"server", "inServer"} =>
       barrier[<<"server", main.s>>] = (IF main.pc = "inServer" THEN 0 ELSE 1)
                                   + (IF pServer # GARBAGE /\ io.pc # "server" THEN 0 ELSE 1)
  /\ \A i \in DOMAIN bgq : bgq[i].op = "create" =>
       bgq[i].s = main.s /\ main.pc \in {"server", "inServer"} /\ pServer = GARBAGE
  /\ \A i, j \in DOMAIN bgq : bgq[i].op = "create" /\ bgq[j].op = "create" => i = j
  /\ main.pc = "result" => pServer # GARBAGE

\* Who has which socket: the call that is making it, a running server through
\* pServers, a pipe server that nothing stops, or a task that will free it.
SocketOwners ==
  /\ main.pc \in {"server", "inServer", "result"} /\ pServer \in Addr =>
       sockets[pServer] = [st |-> "listening", s |-> main.s]
  /\ \A s \in Srv : srv[s].running =>
       /\ srv[s].handle \in Range(pServers)
       /\ sockets[srv[s].handle].s = s
  /\ \A a \in Range(pServers) :
       /\ sockets[a].st = "listening" /\ sockets[a].s \in Srv
       /\ srv[sockets[a].s].st = "made" /\ srv[sockets[a].s].handle = a
       /\ srv[sockets[a].s].running \/ srv[sockets[a].s].kind = "pipe"
  /\ \A i \in DOMAIN bgq : bgq[i].op = "free" =>
       /\ bgq[i].a \notin Range(pServers)
       /\ sockets[bgq[i].a].st = "listening" /\ sockets[bgq[i].a].s \in Srv
       /\ srv[sockets[bgq[i].a].s].asked
  /\ \A i, j \in DOMAIN bgq : bgq[i].op = "free" /\ bgq[i] = bgq[j] => i = j

\* R's list and the one of C++ have nobody twice; R's has the running servers.
Lists ==
  /\ IsInjective(servers) /\ IsInjective(pServers)
  /\ Range(servers) = {s \in Srv : srv[s].running}

IInv == TypeOK /\ ServerLife /\ ThreadStart /\ CreateInFlight /\ SocketOwners /\ Lists

-------------------------------------------------------------------------------
(* What each action does to it. *)

\* Arriving at a Barrier that still counts this thread, and making a new one,
\* keep its count in range.
LEMMA CountInRange ==
  ASSUME TypeOK, NEW b \in {"thread", "server"}, NEW s \in Srv
  PROVE  /\ <<b, s>> \in {"thread", "server"} \X Srv
         /\ barrier[<<b, s>>] # 0 =>
              [barrier EXCEPT ![<<b, s>>] = @ - 1] \in [{"thread", "server"} \X Srv -> 0..2]
         /\ [barrier EXCEPT ![<<b, s>>] = NewBarrier] \in [{"thread", "server"} \X Srv -> 0..2]
<1>1. <<b, s>> \in {"thread", "server"} \X Srv
  OBVIOUS
<1>2. barrier[<<b, s>>] \in 0..2
  BY <1>1 DEF TypeOK
<1>3. barrier[<<b, s>>] # 0 => barrier[<<b, s>>] - 1 \in 0..2
  BY <1>2
<1> QED BY <1>1, <1>3 DEF TypeOK, NewBarrier

\* Steps of the two threads up to and past the Barriers, and the beginning and
\* the end of stopAllServers: no server, list, task or socket changes.
LEMMA ControlStep ==
  ASSUME IInv,
         \/ \E b \in {"thread", "server"} : MainArrives(b) \/ IoArrives(b) \/ IoLeaves(b)
         \/ MainLeaves("thread", "push") \/ MainLeaves("server", "result")
         \/ CreateThread \/ IoRuns \/ IoMakesQueue \/ StopAllServers \/ StopAllReturns
  PROVE  IInv'
<1> USE ServerAssumption DEF IInv, At, Goto, Inside
<1>1. CASE MainArrives("thread")
  <2>1. TypeOK'
    <3>1. main.s \in Srv /\ barrier[<<"thread", main.s>>] # 0
      BY <1>1 DEF MainArrives, ThreadStart, ServerLife, TypeOK
    <3> QED BY <1>1, <3>1, CountInRange DEF TypeOK, MainArrives
  <2>2. ServerLife'
    BY <1>1 DEF TypeOK, MainArrives, ServerLife
  <2>3. ThreadStart'
    BY <1>1 DEF TypeOK, MainArrives, ThreadStart, ServerLife
  <2>4. CreateInFlight'
    BY <1>1 DEF TypeOK, MainArrives, CreateInFlight, ServerLife
  <2>5. SocketOwners'
    BY <1>1 DEF TypeOK, MainArrives, SocketOwners
  <2>6. Lists'
    BY <1>1 DEF MainArrives, Lists
  <2> QED BY <2>1, <2>2, <2>3, <2>4, <2>5, <2>6
<1>2. CASE MainArrives("server")
  <2>1. TypeOK'
    <3>1. main.s \in Srv /\ barrier[<<"server", main.s>>] # 0
      BY <1>2 DEF MainArrives, CreateInFlight, ServerLife, TypeOK
    <3> QED BY <1>2, <3>1, CountInRange DEF TypeOK, MainArrives
  <2>2. ServerLife'
    BY <1>2 DEF TypeOK, MainArrives, ServerLife
  <2>3. ThreadStart'
    BY <1>2 DEF TypeOK, MainArrives, ThreadStart, ServerLife
  <2>4. CreateInFlight'
    BY <1>2 DEF TypeOK, MainArrives, CreateInFlight, ServerLife
  <2>5. SocketOwners'
    BY <1>2 DEF TypeOK, MainArrives, SocketOwners
  <2>6. Lists'
    BY <1>2 DEF MainArrives, Lists
  <2> QED BY <2>1, <2>2, <2>3, <2>4, <2>5, <2>6
<1>3. CASE MainLeaves("thread", "push")
  <2> USE <1>3 DEF MainLeaves
  <2>1. TypeOK'
    BY DEF TypeOK
  <2>2. ServerLife'
    BY DEF TypeOK, ServerLife
  <2>3. ThreadStart'
    BY DEF TypeOK, ThreadStart, ServerLife
  <2>4. CreateInFlight'
    BY DEF TypeOK, CreateInFlight, ServerLife
  <2>5. SocketOwners'
    BY DEF TypeOK, SocketOwners
  <2>6. Lists'
    BY DEF Lists
  <2> QED BY <2>1, <2>2, <2>3, <2>4, <2>5, <2>6
<1>4. CASE MainLeaves("server", "result")
  <2> USE <1>4 DEF MainLeaves
  <2>1. TypeOK'
    BY DEF TypeOK
  <2>2. ServerLife'
    BY DEF TypeOK, ServerLife
  <2>3. ThreadStart'
    BY DEF TypeOK, ThreadStart, ServerLife
  <2>4. CreateInFlight'
    BY DEF TypeOK, CreateInFlight, ServerLife
  <2>5. SocketOwners'
    BY DEF TypeOK, SocketOwners
  <2>6. Lists'
    BY DEF Lists
  <2> QED BY <2>1, <2>2, <2>3, <2>4, <2>5, <2>6
<1>5. CASE IoArrives("thread")
  <2> USE <1>5 DEF IoArrives
  <2>1. TypeOK'
    <3>1. main.s \in Srv /\ io.s = main.s /\ main.pc \in {"thread", "inThread"}
      BY DEF ThreadStart, ServerLife
    <3>2. barrier[<<"thread", io.s>>] # 0
      BY <3>1 DEF ThreadStart
    <3> QED BY <3>1, <3>2, CountInRange DEF TypeOK
  <2>2. ServerLife'
    BY DEF TypeOK, ServerLife
  <2>3. ThreadStart'
    <3>1. /\ main.s \in Srv /\ io.s = main.s /\ main.pc \in {"thread", "inThread"}
          /\ <<"thread", main.s>> \in DOMAIN barrier /\ io.queue
          /\ barrier[<<"thread", main.s>>] = IF main.pc = "inThread" THEN 1 ELSE 2
      BY CountInRange DEF ThreadStart, ServerLife, TypeOK
    <3>2. /\ barrier'[<<"thread", main.s>>] = barrier[<<"thread", main.s>>] - 1
          /\ io'.pc = "inThread" /\ io'.running = io.running /\ io'.queue = io.queue
          /\ main' = main
      BY <3>1 DEF TypeOK
    <3> QED BY <3>1, <3>2 DEF ThreadStart
  <2>4. CreateInFlight'
    BY DEF TypeOK, CreateInFlight, ThreadStart
  <2>5. SocketOwners'
    BY DEF TypeOK, SocketOwners
  <2>6. Lists'
    BY DEF Lists
  <2> QED BY <2>1, <2>2, <2>3, <2>4, <2>5, <2>6
<1>6. CASE IoArrives("server")
  <2> USE <1>6 DEF IoArrives
  <2>1. TypeOK'
    <3>1. /\ main.s \in Srv /\ io.s = main.s /\ main.pc \in {"server", "inServer"}
          /\ io.pc = "server"
      BY DEF CreateInFlight, ServerLife
    <3>2. barrier[<<"server", io.s>>] # 0
      BY <3>1 DEF CreateInFlight
    <3> QED BY <3>1, <3>2, CountInRange DEF TypeOK
  <2>2. ServerLife'
    BY DEF TypeOK, ServerLife
  <2>3. ThreadStart'
    BY DEF TypeOK, ThreadStart, ServerLife, CreateInFlight
  <2>4. CreateInFlight'
    <3>1. /\ main.s \in Srv /\ io.s = main.s /\ main.pc \in {"server", "inServer"}
          /\ <<"server", main.s>> \in DOMAIN barrier /\ pServer # GARBAGE
          /\ barrier[<<"server", main.s>>] = IF main.pc = "inServer" THEN 1 ELSE 2
      BY CountInRange DEF CreateInFlight, ServerLife, TypeOK
    <3>2. /\ barrier'[<<"server", main.s>>] = barrier[<<"server", main.s>>] - 1
          /\ io'.pc = "inServer" /\ main' = main /\ pServer' = pServer /\ bgq' = bgq
      BY <3>1 DEF TypeOK
    <3> QED BY <3>1, <3>2 DEF CreateInFlight
  <2>5. SocketOwners'
    BY DEF TypeOK, SocketOwners
  <2>6. Lists'
    BY DEF Lists
  <2> QED BY <2>1, <2>2, <2>3, <2>4, <2>5, <2>6
<1>7. CASE \E b \in {"thread", "server"} : IoLeaves(b)
  <2> USE <1>7 DEF IoLeaves
  <2>1. TypeOK'
    BY ZenonT(60) DEF TypeOK
  <2>2. ServerLife'
    BY DEF TypeOK, ServerLife
  <2>3. ThreadStart'
    BY DEF TypeOK, ThreadStart, ServerLife
  <2>4. CreateInFlight'
    BY DEF TypeOK, CreateInFlight
  <2>5. SocketOwners'
    BY DEF TypeOK, SocketOwners
  <2>6. Lists'
    BY DEF Lists
  <2> QED BY <2>1, <2>2, <2>3, <2>4, <2>5, <2>6
<1>8. CASE CreateThread
  <2> USE <1>8 DEF CreateThread
  <2>1. TypeOK'
    BY CountInRange, ZenonT(60) DEF TypeOK, ServerLife
  <2>2. ServerLife'
    BY DEF TypeOK, ServerLife
  <2>3. ThreadStart'
    <3>1. main.s \in Srv /\ <<"thread", main.s>> \in DOMAIN barrier /\ io.pc = "none"
      BY CountInRange DEF ThreadStart, ServerLife, TypeOK
    <3>2. barrier'[<<"thread", main.s>>] = 2 /\ main'.pc = "thread" /\ main'.s = main.s
      BY <3>1 DEF TypeOK, NewBarrier
    <3>3. CASE io' = [io EXCEPT !.pc = "starting", !.s = main.s]
      BY <3>1, <3>2, <3>3 DEF TypeOK, ThreadStart
    <3>4. CASE io' = io
      BY <3>1, <3>2, <3>4 DEF ThreadStart
    <3> QED BY <3>3, <3>4
  <2>4. CreateInFlight'
    BY DEF TypeOK, CreateInFlight
  <2>5. SocketOwners'
    BY DEF TypeOK, SocketOwners
  <2>6. Lists'
    BY DEF Lists
  <2> QED BY <2>1, <2>2, <2>3, <2>4, <2>5, <2>6
<1>9. CASE IoRuns \/ IoMakesQueue
  <2> USE <1>9 DEF IoRuns, IoMakesQueue
  <2>1. TypeOK'
    BY ZenonT(60) DEF TypeOK
  <2>2. ServerLife'
    BY DEF TypeOK, ServerLife
  <2>3. ThreadStart'
    <3>1. /\ main.pc \in {"thread", "inThread"} /\ io.s = main.s
          /\ io.pc \in {"starting", "initializing"}
          /\ io'.pc = IF io.pc = "starting" THEN "initializing" ELSE "thread"
          /\ io'.s = io.s
          /\ UNCHANGED <<main, barrier>>
      BY DEF TypeOK, ThreadStart
    <3>2. io'.running /\ (io'.pc = "thread" => io'.queue)
      <4>1. CASE IoRuns
        BY <4>1 DEF TypeOK
      <4>2. CASE IoMakesQueue
        BY <4>2 DEF TypeOK, ThreadStart
      <4> QED BY <4>1, <4>2
    <3> QED BY <3>1, <3>2 DEF ThreadStart
  <2>4. CreateInFlight'
    BY DEF TypeOK, CreateInFlight, ThreadStart
  <2>5. SocketOwners'
    BY DEF TypeOK, SocketOwners
  <2>6. Lists'
    BY DEF Lists
  <2> QED BY <2>1, <2>2, <2>3, <2>4, <2>5, <2>6
<1>10. CASE StopAllServers \/ StopAllReturns
  <2> USE <1>10 DEF StopAllServers, StopAllReturns
  <2>1. TypeOK'
    BY ZenonT(60) DEF TypeOK
  <2>2. ServerLife'
    <3>1. \A s \in Range(servers) : srv[s].st = "made"
      BY DEF ServerLife, Lists
    <3>2. Range(main'.todo) \subseteq Range(main.todo) \cup Range(servers)
      BY ZenonT(60) DEF TypeOK
    <3>3. main.pc \in {"idle", "stopAll"} /\ main'.pc \in {"idle", "stopAll"}
      BY DEF TypeOK
    <3> QED BY <3>1, <3>2, <3>3 DEF ServerLife
  <2>3. ThreadStart'
    BY DEF TypeOK, ThreadStart, ServerLife
  <2>4. CreateInFlight'
    BY DEF TypeOK, CreateInFlight
  <2>5. SocketOwners'
    <3>1. main'.pc \notin {"server", "inServer", "result"}
      BY DEF TypeOK
    <3> QED BY <3>1 DEF SocketOwners
  <2>6. Lists'
    BY DEF Lists
  <2> QED BY <2>1, <2>2, <2>3, <2>4, <2>5, <2>6
<1> QED BY <1>1, <1>2, <1>3, <1>4, <1>5, <1>6, <1>7, <1>8, <1>9, <1>10

\* Start: a new server object.
LEMMA StartStep ==
  ASSUME IInv, NEW s \in Srv, NEW kind \in Kinds, Start(s, kind)
  PROVE  IInv'
<1> USE ServerAssumption DEF IInv, At, Goto
<1>1. /\ main.pc = "idle" /\ srv[s].st = "none" /\ kind \in {"tcp", "pipe"}
      /\ srv' = [srv EXCEPT ![s].st = "starting", ![s].kind = kind]
      /\ main' = [main EXCEPT !.pc = IF io.running THEN "push" ELSE "create", !.s = s]
      /\ UNCHANGED <<servers, pServers, io, barrier, pServer, bgq, sockets>>
  BY DEF Start
<1>2. /\ srv[s] \in ServerObject /\ srv' \in [Srv -> ServerObject]
      /\ \A r \in Srv \ {s} : srv'[r] = srv[r]
      /\ srv'[s] = [srv[s] EXCEPT !.st = "starting", !.kind = kind]
  <2>1. srv[s] \in ServerObject
    BY DEF TypeOK
  <2>2. [srv[s] EXCEPT !.st = "starting", !.kind = kind] \in ServerObject
    BY <1>1, <2>1 DEF ServerObject
  <2>3. srv' = [srv EXCEPT ![s] = [srv[s] EXCEPT !.st = "starting", !.kind = kind]]
    BY <1>1 DEF TypeOK
  <2> QED BY <2>1, <2>2, <2>3 DEF TypeOK
<1>3. /\ srv'[s].st = "starting" /\ srv'[s].handle = srv[s].handle
      /\ srv'[s].running = srv[s].running /\ srv'[s].asked = srv[s].asked
  BY <1>2 DEF ServerObject
<1>4. /\ main'.s = s /\ main'.todo = main.todo /\ main'.pc \in {"push", "create"}
      /\ main'.pc = "push" => io.running
      /\ main'.pc = "create" => ~io.running
      /\ main' \in [pc : {"push", "create"}, s : Srv, todo : Seq(Srv)]
  <2>1. CASE io.running
    BY <1>1, <2>1 DEF TypeOK
  <2>2. CASE ~io.running
    BY <1>1, <2>2 DEF TypeOK
  <2> QED BY <2>1, <2>2
<1>5. TypeOK' /\ ServerLife'
  <2>1. TypeOK'
    BY <1>1, <1>2, <1>4 DEF TypeOK
  <2>2. ~srv[s].running /\ ~srv[s].asked /\ srv[s].handle = NULL
    BY <1>1 DEF ServerLife
  <2>3. \A r \in Srv : srv[r].st # "starting"
    BY <1>1 DEF ServerLife
  <2>4. \A r \in Range(main.todo) : r # s
    BY <1>1 DEF ServerLife
  <2>5. Range(main.todo) \subseteq Srv
    BY RangeOfSeq DEF TypeOK
  <2> QED BY <1>1, <1>2, <1>3, <1>4, <2>1, <2>2, <2>3, <2>4, <2>5 DEF ServerLife
<1>9. ThreadStart'
  BY <1>1, <1>4 DEF TypeOK, ThreadStart
<1>6. CreateInFlight'
  BY <1>1, <1>4 DEF TypeOK, CreateInFlight
<1>7. SocketOwners'
  <2>1. ~srv[s].running /\ ~srv[s].asked
    BY <1>1 DEF ServerLife
  <2>2. \A r \in Srv : /\ srv'[r].running = srv[r].running /\ srv'[r].handle = srv[r].handle
                       /\ srv'[r].asked = srv[r].asked
                       /\ srv[r].st = "made" => srv'[r] = srv[r]
    BY <1>1, <1>2, <1>3
  <2>3. main'.pc \notin {"server", "inServer", "result"}
    BY <1>4
  <2>4. \A a \in Range(pServers) :
          /\ sockets[a].st = "listening" /\ sockets[a].s \in Srv
          /\ srv'[sockets[a].s].st = "made" /\ srv'[sockets[a].s].handle = a
          /\ srv'[sockets[a].s].running \/ srv'[sockets[a].s].kind = "pipe"
    BY <2>2 DEF SocketOwners
  <2>5. \A r \in Srv : srv'[r].running =>
          srv'[r].handle \in Range(pServers) /\ sockets[srv'[r].handle].s = r
    BY <2>2 DEF SocketOwners
  <2>6. \A i \in DOMAIN bgq : bgq[i].op = "free" =>
          /\ bgq[i].a \notin Range(pServers)
          /\ sockets[bgq[i].a].st = "listening" /\ sockets[bgq[i].a].s \in Srv
          /\ srv'[sockets[bgq[i].a].s].asked
    BY <2>2 DEF SocketOwners
  <2>7. \A i, j \in DOMAIN bgq : bgq[i].op = "free" /\ bgq[i] = bgq[j] => i = j
    BY DEF SocketOwners
  <2>8. pServers' = pServers /\ bgq' = bgq /\ sockets' = sockets
    BY <1>1
  <2> QED BY <2>3, <2>4, <2>5, <2>6, <2>7, <2>8 DEF SocketOwners
<1>8. Lists'
  <2>1. \A r \in Srv : srv'[r].running = srv[r].running
    BY <1>2, <1>3
  <2> QED BY <1>1, <2>1 DEF Lists
<1> QED BY <1>5, <1>6, <1>7, <1>8, <1>9

\* PushCreate: the creation goes onto a queue that has no other one.
LEMMA PushCreateStep ==
  ASSUME IInv, PushCreate
  PROVE  IInv'
<1> USE ServerAssumption DEF IInv, At, Goto
<1> DEFINE task == [op |-> "create", s |-> main.s]
<1>1. /\ main.pc = "push" /\ main' = [main EXCEPT !.pc = "server"]
      /\ barrier' = [barrier EXCEPT ![<<"server", main.s>>] = NewBarrier]
      /\ pServer' = GARBAGE /\ bgq' = Append(bgq, task)
      /\ UNCHANGED <<srv, servers, pServers, io, sockets>>
  BY DEF PushCreate
<1>2. main.s \in Srv /\ task \in Task
  BY <1>1 DEF ServerLife, Task
<1>3. main'.pc = "server" /\ main'.s = main.s /\ main'.todo = main.todo
  BY <1>1 DEF TypeOK
<1> HIDE DEF task
<1>4. /\ bgq' \in Seq(Task) /\ Len(bgq) \in Nat /\ Len(bgq') = Len(bgq) + 1
      /\ \A i \in 1..Len(bgq) : bgq'[i] = bgq[i]
      /\ bgq'[Len(bgq) + 1] = task
      /\ DOMAIN bgq = 1..Len(bgq) /\ DOMAIN bgq' = 1..Len(bgq) + 1
  BY <1>1, <1>2, AppendProperties, LenProperties DEF TypeOK
<1>5. TypeOK'
  BY <1>1, <1>2, <1>4, CountInRange DEF TypeOK
<1>6. ServerLife'
  BY <1>1, <1>3 DEF ServerLife
<1>7. ThreadStart'
  BY <1>1, <1>3 DEF ThreadStart
<1>8. CreateInFlight'
  <2>1. \A i \in DOMAIN bgq : bgq[i].op # "create"
    BY <1>1 DEF CreateInFlight
  <2>2. barrier'[<<"server", main.s>>] = 2
    BY <1>1, <1>2, CountInRange DEF TypeOK, NewBarrier
  <2>3. task.op = "create" /\ task.s = main.s
    BY DEF task
  <2>4. io.pc # "server"
    BY <1>1 DEF CreateInFlight
  <2> QED BY <1>1, <1>3, <1>4, <2>1, <2>2, <2>3, <2>4 DEF CreateInFlight
<1>9. SocketOwners'
  <2>1. task.op # "free" /\ GARBAGE \notin Addr
    BY DEF task
  <2> QED BY <1>1, <1>4, <2>1 DEF SocketOwners
<1>10. Lists'
  BY <1>1 DEF Lists
<1> QED BY <1>5, <1>6, <1>7, <1>8, <1>9, <1>10

\* The background thread takes the front task off the queue: the others move up.
LEMMA PopTask ==
  ASSUME TypeOK, bgq # <<>>, bgq' = Tail(bgq)
  PROVE  /\ Head(bgq) \in Task /\ Head(bgq) = bgq[1] /\ bgq' \in Seq(Task)
         /\ DOMAIN bgq = 1..Len(bgq) /\ Len(bgq) \in Nat \ {0}
         /\ DOMAIN bgq' = 1..Len(bgq) - 1
         /\ \A i \in 1..Len(bgq) - 1 : bgq'[i] = bgq[i + 1]
BY TailRange, LenProperties DEF TypeOK

\* Create: a new socket, or none, and the result for the main thread.
LEMMA CreateStep ==
  ASSUME IInv, Create
  PROVE  IInv'
<1> USE ServerAssumption DEF IInv, At, Goto
<1>1. /\ io.pc = "loop" /\ bgq # <<>> /\ Head(bgq).op = "create" /\ bgq' = Tail(bgq)
      /\ io' = [io EXCEPT !.pc = "server", !.s = Head(bgq).s]
      /\ UNCHANGED <<srv, servers, pServers, main, barrier>>
  BY DEF Create, Flush
<1>2. PICK a \in Addr :
        /\ sockets[a].st = "free"
        /\ \/ /\ sockets' = [sockets EXCEPT ![a] = [st |-> "listening", s |-> Head(bgq).s]]
              /\ pServer' = a
           \/ /\ sockets' = [sockets EXCEPT ![a] = [st |-> "closing", s |-> NULL]]
              /\ pServer' = NULL
  BY DEF Create
<1>3. /\ Head(bgq) = bgq[1] /\ bgq' \in Seq(Task)
      /\ DOMAIN bgq = 1..Len(bgq) /\ Len(bgq) \in Nat \ {0}
      /\ DOMAIN bgq' = 1..Len(bgq) - 1
      /\ \A i \in 1..Len(bgq) - 1 : bgq'[i] = bgq[i + 1] /\ i + 1 \in DOMAIN bgq
  BY <1>1, PopTask
<1>4. /\ Head(bgq).s = main.s /\ main.pc \in {"server", "inServer"} /\ pServer = GARBAGE
      /\ main.s \in Srv /\ srv[main.s].st = "starting"
      /\ \A i \in DOMAIN bgq : bgq[i].op = "create" => i = 1
  BY <1>1, <1>3 DEF CreateInFlight, ServerLife
<1>5. pServer' # GARBAGE /\ pServer' \in Addr \cup {NULL}
  BY <1>2
<1>6. io'.pc = "server" /\ io'.s = main.s /\ io'.running = io.running /\ io'.queue = io.queue
  BY <1>1, <1>4 DEF TypeOK
<1>7. TypeOK'
  <2>1. sockets' \in [Addr -> [st : {"free", "listening", "closing"}, s : Srv \cup {NULL}]]
    BY <1>2, <1>4 DEF TypeOK
  <2>2. io' \in [pc : {"server"}, s : Srv, running : BOOLEAN, queue : BOOLEAN]
    BY <1>1, <1>4 DEF TypeOK
  <2> QED BY <1>1, <1>3, <1>5, <2>1, <2>2 DEF TypeOK
<1>8. ServerLife'
  BY <1>1 DEF ServerLife
<1>9. ThreadStart'
  BY <1>1, <1>4, <1>6 DEF ThreadStart
<1>10. CreateInFlight'
  <2>1. \A i \in DOMAIN bgq' : bgq'[i].op # "create"
    BY <1>3, <1>4, SMTT(40)
  <2> QED BY <1>1, <1>4, <1>5, <1>6, <2>1 DEF CreateInFlight
<1>11. SocketOwners'
  <2>1. \A x \in Addr \ {a} : sockets'[x] = sockets[x]
    BY <1>2 DEF TypeOK
  <2>2. pServer' \in Addr => sockets'[pServer'] = [st |-> "listening", s |-> main.s]
    BY <1>2, <1>4 DEF TypeOK
  <2>3. Range(pServers) \subseteq Addr \ {a}
    BY <1>2, RangeOfSeq DEF SocketOwners, TypeOK
  <2>4. \A i \in DOMAIN bgq : bgq[i].op = "free" => bgq[i].a \in Addr \ {a}
    <3> SUFFICES ASSUME NEW i \in DOMAIN bgq, bgq[i].op = "free" PROVE bgq[i].a \in Addr \ {a}
      OBVIOUS
    <3>1. bgq[i] \in Task
      BY <1>3, ElementOfSeq DEF TypeOK
    <3> QED BY <1>2, <3>1 DEF SocketOwners, Task
  <2>5. ASSUME NEW i \in DOMAIN bgq', NEW j \in DOMAIN bgq',
               bgq'[i].op = "free", bgq'[i] = bgq'[j]
        PROVE  i = j
    <3>1. i + 1 = j + 1
      BY <1>3, <2>5 DEF SocketOwners
    <3> QED BY <1>3, <3>1
  <2>6. \A i \in DOMAIN bgq' : bgq'[i].op = "free" =>
          /\ bgq'[i].a \notin Range(pServers)
          /\ sockets'[bgq'[i].a].st = "listening" /\ sockets'[bgq'[i].a].s \in Srv
          /\ srv[sockets'[bgq'[i].a].s].asked
    BY <1>3, <2>1, <2>4 DEF SocketOwners
  <2>7. \A s \in Srv : srv[s].running =>
          srv[s].handle \in Range(pServers) /\ sockets'[srv[s].handle].s = s
    BY <2>1, <2>3 DEF SocketOwners
  <2>8. \A x \in Range(pServers) :
          /\ sockets'[x].st = "listening" /\ sockets'[x].s \in Srv
          /\ srv[sockets'[x].s].st = "made" /\ srv[sockets'[x].s].handle = x
          /\ srv[sockets'[x].s].running \/ srv[sockets'[x].s].kind = "pipe"
    BY <2>1, <2>3 DEF SocketOwners
  <2> QED BY <1>1, <2>2, <2>5, <2>6, <2>7, <2>8 DEF SocketOwners
<1>12. Lists'
  BY <1>1 DEF Lists
<1> QED BY <1>7, <1>8, <1>9, <1>10, <1>11, <1>12

\* Started: the result becomes a running server, or a failure.
LEMMA StartedStep ==
  ASSUME IInv, Started
  PROVE  IInv'
<1> USE ServerAssumption DEF IInv, At, Goto
<1> DEFINE s == main.s
           tcp == srv[s].kind = "tcp"
           failed == [srv[s] EXCEPT !.st = "failed"]
           made == [srv[s] EXCEPT !.st = "made", !.handle = pServer, !.running = tcp]
<1>1. /\ main.pc = "result" /\ main' = [main EXCEPT !.pc = "idle"]
      /\ io' = io /\ barrier' = barrier /\ pServer' = pServer /\ bgq' = bgq /\ sockets' = sockets
      /\ \/ /\ pServer = NULL
            /\ srv' = [srv EXCEPT ![s].st = "failed"]
            /\ servers' = servers /\ pServers' = pServers
         \/ /\ pServer # NULL
            /\ pServers' = Append(pServers, pServer)
            /\ srv' = [srv EXCEPT ![s].st = "made", ![s].handle = pServer, ![s].running = tcp]
            /\ servers' = IF tcp THEN Append(servers, s) ELSE servers
  BY DEF Started
<1>2. /\ s \in Srv /\ srv[s] \in ServerObject /\ srv[s].st = "starting" /\ pServer # GARBAGE
      /\ srv[s].handle = NULL /\ ~srv[s].running /\ ~srv[s].asked
  BY <1>1 DEF ServerLife, TypeOK, CreateInFlight
<1>3. /\ main'.pc = "idle" /\ main'.s = s /\ main'.todo = main.todo
      /\ main' \in [pc : {"idle"}, s : Srv, todo : Seq(Srv)]
  BY <1>1, <1>2 DEF TypeOK
<1>4. \A i \in DOMAIN bgq : bgq[i].op # "create"
  BY <1>1 DEF CreateInFlight
<1>5. Range(main.todo) \subseteq Srv \ {s} /\ Range(servers) \subseteq Srv \ {s}
  BY <1>2, RangeOfSeq DEF ServerLife, TypeOK, Lists
<1>6. ThreadStart' /\ CreateInFlight'
  BY <1>1, <1>3, <1>4 DEF ThreadStart, CreateInFlight
<1>7. \A i \in DOMAIN bgq : bgq[i].op = "free" => sockets[bgq[i].a].s # s
  BY <1>2 DEF SocketOwners
<1>8. \A a \in Range(pServers) : sockets[a].s \in Srv \ {s}
  BY <1>2 DEF SocketOwners
<1>9. CASE pServer = NULL
  <2>1. srv' = [srv EXCEPT ![s] = failed] /\ servers' = servers /\ pServers' = pServers
    BY <1>1, <1>9 DEF TypeOK
  <2>2. /\ failed \in ServerObject /\ failed.st = "failed" /\ failed.handle = NULL
        /\ ~failed.running /\ ~failed.asked
    BY <1>2 DEF ServerObject
  <2>3. /\ srv' \in [Srv -> ServerObject] /\ srv'[s] = failed
        /\ \A r \in Srv \ {s} : srv'[r] = srv[r]
    BY <1>2, <2>1, <2>2 DEF TypeOK
  <2> HIDE DEF failed
  <2>4. TypeOK'
    BY <1>1, <1>3, <2>1, <2>3 DEF TypeOK
  <2>5. ServerLife'
    BY <1>2, <1>3, <1>5, <2>2, <2>3 DEF ServerLife
  <2>6. SocketOwners'
    <3>1. \A r \in Srv : srv'[r].running =>
            srv'[r].handle \in Range(pServers) /\ sockets[srv'[r].handle].s = r
      BY <2>2, <2>3 DEF SocketOwners
    <3>2. \A a \in Range(pServers) :
            /\ sockets[a].st = "listening" /\ sockets[a].s \in Srv
            /\ srv'[sockets[a].s].st = "made" /\ srv'[sockets[a].s].handle = a
            /\ srv'[sockets[a].s].running \/ srv'[sockets[a].s].kind = "pipe"
      BY <1>8, <2>3 DEF SocketOwners
    <3>3. \A i \in DOMAIN bgq : bgq[i].op = "free" =>
            /\ bgq[i].a \notin Range(pServers)
            /\ sockets[bgq[i].a].st = "listening" /\ sockets[bgq[i].a].s \in Srv
            /\ srv'[sockets[bgq[i].a].s].asked
      BY <1>7, <2>3 DEF SocketOwners
    <3>4. bgq' = bgq /\ sockets' = sockets /\ pServers' = pServers
      BY <1>1, <2>1
    <3> QED BY <1>3, <3>1, <3>2, <3>3, <3>4 DEF SocketOwners
  <2>7. Lists'
    <3>1. {r \in Srv : srv'[r].running} = {r \in Srv : srv[r].running}
      BY <1>2, <2>2, <2>3
    <3> QED BY <2>1, <3>1 DEF Lists
  <2> QED BY <1>6, <2>4, <2>5, <2>6, <2>7
<1>10. CASE pServer # NULL
  <2>1. /\ pServer \in Addr /\ pServers' = Append(pServers, pServer)
        /\ srv' = [srv EXCEPT ![s] = made]
        /\ servers' = IF tcp THEN Append(servers, s) ELSE servers
    BY <1>1, <1>2, <1>10 DEF TypeOK
  <2>2. sockets[pServer] = [st |-> "listening", s |-> s] /\ pServer \notin Range(pServers)
    BY <1>1, <1>8, <2>1 DEF SocketOwners
  <2>3. /\ made \in ServerObject /\ made.st = "made" /\ made.handle = pServer
        /\ made.kind = srv[s].kind /\ made.kind \in {"tcp", "pipe"} /\ ~made.asked
        /\ made.running <=> tcp
    BY <1>2, <2>1 DEF ServerObject
  <2>4. /\ srv' \in [Srv -> ServerObject] /\ srv'[s] = made
        /\ \A r \in Srv \ {s} : srv'[r] = srv[r]
    BY <1>2, <2>1, <2>3 DEF TypeOK
  <2>5. /\ pServers' \in Seq(Addr) /\ Range(pServers') = Range(pServers) \cup {pServer}
        /\ IsInjective(pServers')
    BY <2>1, <2>2, AppendRange DEF TypeOK, Lists
  <2>6. /\ servers' \in Seq(Srv) /\ IsInjective(servers')
        /\ Range(servers') = IF tcp THEN Range(servers) \cup {s} ELSE Range(servers)
    <3>1. s \notin Range(servers)
      BY <1>5
    <3>2. servers \in Seq(Srv) /\ IsInjective(servers)
      BY DEF TypeOK, Lists
    <3>3. CASE tcp
      <4>1. servers' = Append(servers, s)
        BY <2>1, <3>3
      <4> QED BY <1>2, <3>1, <3>2, <3>3, <4>1, AppendRange
    <3>4. CASE ~tcp
      <4>1. servers' = servers
        BY <2>1, <3>4
      <4> QED BY <3>2, <3>4, <4>1
    <3> QED BY <3>3, <3>4
  <2> HIDE DEF made
  <2>7. TypeOK'
    BY <1>1, <1>3, <2>4, <2>5, <2>6 DEF TypeOK
  <2>8. ServerLife'
    BY <1>2, <1>3, <1>5, <2>3, <2>4 DEF ServerLife
  <2>9. SocketOwners'
    <3>1. ASSUME NEW r \in Srv, srv'[r].running
          PROVE  srv'[r].handle \in Range(pServers') /\ sockets[srv'[r].handle].s = r
      <4>1. CASE r = s
        BY <2>2, <2>3, <2>4, <2>5, <4>1
      <4>2. CASE r # s
        BY <2>4, <2>5, <3>1, <4>2 DEF SocketOwners
      <4> QED BY <4>1, <4>2
    <3>2. ASSUME NEW a \in Range(pServers')
          PROVE  /\ sockets[a].st = "listening" /\ sockets[a].s \in Srv
                 /\ srv'[sockets[a].s].st = "made" /\ srv'[sockets[a].s].handle = a
                 /\ srv'[sockets[a].s].running \/ srv'[sockets[a].s].kind = "pipe"
      <4>1. CASE a = pServer
        BY <1>2, <2>2, <2>3, <2>4, <4>1
      <4>2. CASE a \in Range(pServers)
        BY <1>8, <2>4, <4>2 DEF SocketOwners
      <4> QED BY <2>5, <4>1, <4>2
    <3>3. \A i \in DOMAIN bgq : bgq[i].op = "free" =>
            /\ bgq[i].a \notin Range(pServers')
            /\ sockets[bgq[i].a].st = "listening" /\ sockets[bgq[i].a].s \in Srv
            /\ srv'[sockets[bgq[i].a].s].asked
      BY <1>7, <2>2, <2>4, <2>5 DEF SocketOwners
    <3>4. bgq' = bgq /\ sockets' = sockets
      BY <1>1
    <3> QED BY <1>3, <3>1, <3>2, <3>3, <3>4 DEF SocketOwners
  <2>10. Lists'
    <3>1. Range(servers') = {r \in Srv : srv'[r].running}
      <4>1. \A r \in Srv : srv'[r].running <=> (srv[r].running \/ (r = s /\ tcp))
        BY <1>2, <2>3, <2>4
      <4>2. Range(servers) = {r \in Srv : srv[r].running}
        BY DEF Lists
      <4> QED BY <1>2, <2>6, <4>1, <4>2
    <3> QED BY <2>5, <2>6, <3>1 DEF Lists
  <2> QED BY <1>6, <2>7, <2>8, <2>9, <2>10
<1> QED BY <1>9, <1>10

\* Server$stop, called for one server or from stopAllServers.
LEMMA StopStep ==
  ASSUME IInv, NEW s \in Srv, srv[s].st = "made", Stop(s),
         io' = io, barrier' = barrier, pServer' = pServer, sockets' = sockets,
         main.pc \in {"idle", "stopAll"},
         main' \in [pc : {main.pc}, s : {main.s}, todo : Seq(Srv)],
         Range(main'.todo) \subseteq Range(main.todo)
  PROVE  IInv'
<1> USE ServerAssumption DEF IInv
<1> DEFINE a == srv[s].handle
           free == [op |-> "free", a |-> a]
           quiet == [srv[s] EXCEPT !.asked = TRUE]
           stopped == [srv[s] EXCEPT !.running = FALSE, !.asked = TRUE]
<1>1. srv[s] \in ServerObject /\ main'.pc = main.pc /\ main'.s = main.s
  BY DEF TypeOK
<1>2. ThreadStart'
  BY <1>1 DEF ThreadStart
<1>3. main' \in [pc : {"idle", "create", "thread", "inThread", "push", "server", "inServer",
                       "result", "stopAll"}, s : Srv \cup {NULL}, todo : Seq(Srv)]
  BY DEF TypeOK
<1>4. CASE ~srv[s].running
  <2>1. /\ srv' = [srv EXCEPT ![s] = quiet]
        /\ pServers' = pServers /\ bgq' = bgq /\ servers' = servers
    BY <1>4 DEF Stop, TypeOK
  <2>2. /\ quiet \in ServerObject /\ quiet.st = "made" /\ quiet.handle = srv[s].handle
        /\ quiet.running = srv[s].running /\ quiet.asked /\ quiet.kind = srv[s].kind
    BY <1>1 DEF ServerObject
  <2>3. /\ srv' \in [Srv -> ServerObject] /\ srv'[s] = quiet
        /\ \A r \in Srv \ {s} : srv'[r] = srv[r]
    BY <2>1, <2>2 DEF TypeOK
  <2> HIDE DEF quiet
  <2>4. \A r \in Srv : /\ srv'[r].st = srv[r].st /\ srv'[r].handle = srv[r].handle
                       /\ srv'[r].running = srv[r].running /\ srv'[r].kind = srv[r].kind
                       /\ srv[r].asked => srv'[r].asked
    BY <2>2, <2>3
  <2>5. TypeOK'
    BY <1>3, <2>1, <2>3 DEF TypeOK
  <2>6. ServerLife'
    <3>1. Range(main.todo) \subseteq Srv
      BY RangeOfSeq DEF TypeOK
    <3>2. \A r \in Srv : srv[r].st # "made" => srv'[r] = srv[r]
      BY <2>3
    <3> QED BY <1>1, <2>4, <3>1, <3>2 DEF ServerLife
  <2>7. CreateInFlight'
    BY <1>1, <2>1 DEF CreateInFlight
  <2>8. SocketOwners'
    <3>1. \A r \in Srv : srv'[r].running =>
            srv'[r].handle \in Range(pServers) /\ sockets[srv'[r].handle].s = r
      BY <2>4 DEF SocketOwners
    <3>2. \A x \in Range(pServers) :
            /\ sockets[x].st = "listening" /\ sockets[x].s \in Srv
            /\ srv'[sockets[x].s].st = "made" /\ srv'[sockets[x].s].handle = x
            /\ srv'[sockets[x].s].running \/ srv'[sockets[x].s].kind = "pipe"
      BY <2>4 DEF SocketOwners
    <3>3. \A i \in DOMAIN bgq : bgq[i].op = "free" =>
            /\ bgq[i].a \notin Range(pServers)
            /\ sockets[bgq[i].a].st = "listening" /\ sockets[bgq[i].a].s \in Srv
            /\ srv'[sockets[bgq[i].a].s].asked
      BY <2>4 DEF SocketOwners
    <3>4. bgq' = bgq /\ pServers' = pServers
      BY <2>1
    <3> QED BY <1>1, <3>1, <3>2, <3>3, <3>4 DEF SocketOwners
  <2>9. Lists'
    <3>1. {r \in Srv : srv'[r].running} = {r \in Srv : srv[r].running}
      BY <2>4
    <3> QED BY <2>1, <3>1 DEF Lists
  <2> QED BY <1>2, <2>5, <2>6, <2>7, <2>8, <2>9
<1>5. CASE srv[s].running
  <2>1. /\ srv' = [srv EXCEPT ![s] = stopped] /\ a \in Range(pServers)
        /\ pServers' = RemoveFirst(pServers, a) /\ servers' = RemoveFirst(servers, s)
        /\ bgq' = Append(bgq, free)
    BY <1>5 DEF Stop, Stop_, deregisterServer, TypeOK
  <2>2. /\ stopped \in ServerObject /\ stopped.st = "made" /\ stopped.handle = a
        /\ ~stopped.running /\ stopped.asked /\ stopped.kind = srv[s].kind
    BY <1>1 DEF ServerObject
  <2>3. /\ srv' \in [Srv -> ServerObject] /\ srv'[s] = stopped
        /\ \A r \in Srv \ {s} : srv'[r] = srv[r]
    BY <2>1, <2>2 DEF TypeOK
  <2> HIDE DEF stopped
  <2>4. a \in Addr /\ sockets[a].s = s /\ sockets[a].st = "listening"
    BY <1>5, <2>1, RangeOfSeq DEF TypeOK, SocketOwners
  <2>5. /\ pServers' \in Seq(Addr) /\ IsInjective(pServers')
        /\ Range(pServers') = Range(pServers) \ {a}
    BY <2>1, RemoveFirstRange DEF TypeOK, Lists
  <2>6. /\ servers' \in Seq(Srv) /\ IsInjective(servers')
        /\ Range(servers') = Range(servers) \ {s}
    BY <2>1, RemoveFirstRange DEF TypeOK, Lists
  <2>7. /\ bgq' \in Seq(Task) /\ DOMAIN bgq = 1..Len(bgq) /\ Len(bgq) \in Nat
        /\ DOMAIN bgq' = 1..Len(bgq) + 1
        /\ \A i \in 1..Len(bgq) : bgq'[i] = bgq[i]
        /\ bgq'[Len(bgq) + 1] = free
    <3>1. free \in Task
      BY <2>4 DEF Task
    <3> QED BY <2>1, <3>1, AppendProperties, LenProperties DEF TypeOK
  <2>8. free.op = "free" /\ free.a = a
    OBVIOUS
  <2>9. \A i \in 1..Len(bgq) : bgq[i].op = "free" => bgq[i].a # a
    BY <2>1, <2>7 DEF SocketOwners
  <2> HIDE DEF free, a
  <2>10. TypeOK'
    BY <1>3, <2>3, <2>5, <2>6, <2>7 DEF TypeOK
  <2>11. ServerLife'
    <3>1. Range(main.todo) \subseteq Srv
      BY RangeOfSeq DEF TypeOK
    <3>2. \A r \in Srv : srv[r].st # "made" => srv'[r] = srv[r]
      BY <2>3
    <3>3. \A r \in Srv : srv'[r].st = srv[r].st /\ (srv'[r].running => srv[r].running)
                         /\ srv'[r].kind = srv[r].kind
      BY <2>2, <2>3
    <3> QED BY <1>1, <3>1, <3>2, <3>3 DEF ServerLife
  <2>12. CreateInFlight'
    <3>1. \A i \in DOMAIN bgq' : bgq'[i].op # "create"
      BY <2>7, <2>8 DEF CreateInFlight
    <3> QED BY <1>1, <3>1 DEF CreateInFlight
  <2>13. SocketOwners'
    <3>1. ASSUME NEW r \in Srv, srv'[r].running
          PROVE  srv'[r].handle \in Range(pServers') /\ sockets[srv'[r].handle].s = r
      <4>1. r # s /\ srv'[r] = srv[r]
        BY <2>2, <2>3, <3>1
      <4>2. srv[r].handle \in Range(pServers) /\ sockets[srv[r].handle].s = r
        BY <3>1, <4>1 DEF SocketOwners
      <4>3. srv[r].handle # a
        BY <2>4, <4>1, <4>2
      <4> QED BY <2>5, <4>1, <4>2, <4>3
    <3>2. ASSUME NEW x \in Range(pServers')
          PROVE  /\ sockets[x].st = "listening" /\ sockets[x].s \in Srv
                 /\ srv'[sockets[x].s].st = "made" /\ srv'[sockets[x].s].handle = x
                 /\ srv'[sockets[x].s].running \/ srv'[sockets[x].s].kind = "pipe"
      <4>1. x \in Range(pServers) /\ x # a
        BY <2>5
      <4>2. /\ sockets[x].st = "listening" /\ sockets[x].s \in Srv
            /\ srv[sockets[x].s].st = "made" /\ srv[sockets[x].s].handle = x
            /\ srv[sockets[x].s].running \/ srv[sockets[x].s].kind = "pipe"
        BY <4>1 DEF SocketOwners
      <4>3. sockets[x].s # s
        BY <4>1, <4>2 DEF a
      <4> QED BY <2>3, <4>2, <4>3
    <3>3. ASSUME NEW i \in DOMAIN bgq', bgq'[i].op = "free"
          PROVE  /\ bgq'[i].a \notin Range(pServers')
                 /\ sockets[bgq'[i].a].st = "listening" /\ sockets[bgq'[i].a].s \in Srv
                 /\ srv'[sockets[bgq'[i].a].s].asked
      <4>1. CASE i \in 1..Len(bgq)
        <5>1. /\ bgq'[i].a \notin Range(pServers)
              /\ sockets[bgq'[i].a].st = "listening" /\ sockets[bgq'[i].a].s \in Srv
              /\ srv[sockets[bgq'[i].a].s].asked
          BY <2>7, <3>3, <4>1 DEF SocketOwners
        <5> QED BY <2>2, <2>3, <2>5, <5>1
      <4>2. CASE i = Len(bgq) + 1
        BY <2>2, <2>3, <2>4, <2>5, <2>7, <2>8, <4>2
      <4> QED BY <2>7, <4>1, <4>2
    <3>4. ASSUME NEW i \in DOMAIN bgq', NEW j \in DOMAIN bgq',
                 bgq'[i].op = "free", bgq'[i] = bgq'[j]
          PROVE  i = j
      <4>1. CASE i \in 1..Len(bgq) /\ j \in 1..Len(bgq)
        BY <2>7, <3>4, <4>1 DEF SocketOwners
      <4>2. CASE i = Len(bgq) + 1 \/ j = Len(bgq) + 1
        BY <2>7, <2>8, <2>9, <3>4, <4>2
      <4> QED BY <2>7, <4>1, <4>2
    <3> QED BY <1>1, <3>1, <3>2, <3>3, <3>4 DEF SocketOwners
  <2>14. Lists'
    <3>1. Range(servers') = {r \in Srv : srv'[r].running}
      <4>1. \A r \in Srv : srv'[r].running <=> srv[r].running /\ r # s
        BY <2>2, <2>3
      <4>2. Range(servers) = {r \in Srv : srv[r].running}
        BY DEF Lists
      <4> QED BY <2>6, <4>1, <4>2
    <3> QED BY <2>5, <2>6, <3>1 DEF Lists
  <2> QED BY <1>2, <2>10, <2>11, <2>12, <2>13, <2>14
<1> QED BY <1>4, <1>5

\* freeServer, and the end of a socket: an address that nobody has goes back to
\* the allocator.
LEMMA FreeStep ==
  ASSUME IInv, FreeServer \/ \E a \in Addr : SocketDeleted(a)
  PROVE  IInv'
<1> USE ServerAssumption DEF IInv, At
<1>1. /\ srv' = srv /\ servers' = servers /\ pServers' = pServers /\ main' = main
      /\ io' = io /\ barrier' = barrier /\ pServer' = pServer
  BY DEF FreeServer, SocketDeleted
<1>2. Lists' /\ ServerLife' /\ ThreadStart'
  BY <1>1 DEF Lists, ServerLife, ThreadStart
<1>3. Range(pServers) \subseteq Addr
  BY RangeOfSeq DEF TypeOK
<1>4. ASSUME NEW i \in DOMAIN bgq, bgq[i].op = "free" PROVE bgq[i].a \in Addr
  <2>1. bgq[i] \in Task
    BY ElementOfSeq, LenProperties DEF TypeOK
  <2> QED BY <1>4, <2>1 DEF Task
<1>5. ASSUME NEW a \in Addr, NEW new,
             sockets' = [sockets EXCEPT ![a] = new],
             a \notin Range(pServers),
             main.pc \in {"server", "inServer", "result"} => pServer # a,
             \A i \in DOMAIN bgq' : bgq'[i].op = "free" => bgq'[i].a # a,
             bgq' = bgq \/ (bgq # <<>> /\ bgq' = Tail(bgq))
      PROVE  CreateInFlight' /\ SocketOwners'
  <2>1. \A x \in Addr \ {a} : sockets'[x] = sockets[x]
    BY <1>5 DEF TypeOK
  <2> DEFINE Shifted(d) == /\ DOMAIN bgq' = 1..Len(bgq) - d
                           /\ \A i \in DOMAIN bgq' : i + d \in DOMAIN bgq /\ bgq'[i] = bgq[i + d]
  <2>2. PICK d \in {0, 1} : Shifted(d)
    <3>1. DOMAIN bgq = 1..Len(bgq) /\ Len(bgq) \in Nat
      BY LenProperties DEF TypeOK
    <3>2. CASE bgq' = bgq
      <4>1. Shifted(0)
        BY <3>1, <3>2
      <4> QED BY <4>1
    <3>3. CASE bgq # <<>> /\ bgq' = Tail(bgq)
      <4>1. Shifted(1)
        BY <3>1, <3>3, PopTask
      <4> QED BY <4>1
    <3> QED BY <1>5, <3>2, <3>3
  <2>3. CreateInFlight'
    <3>1. \A i \in DOMAIN bgq' : bgq'[i].op = "create" =>
            bgq'[i].s = main.s /\ main.pc \in {"server", "inServer"} /\ pServer = GARBAGE
      BY <2>2 DEF CreateInFlight
    <3>2. ASSUME NEW i \in DOMAIN bgq', NEW j \in DOMAIN bgq',
                 bgq'[i].op = "create", bgq'[j].op = "create"
          PROVE  i = j
      <4>1. i + d = j + d
        BY <2>2, <3>2 DEF CreateInFlight
      <4> QED BY <2>2, <4>1
    <3> QED BY <1>1, <3>1, <3>2 DEF CreateInFlight
  <2>4. SocketOwners'
    <3>1. main.pc \in {"server", "inServer", "result"} /\ pServer \in Addr =>
            sockets'[pServer] = [st |-> "listening", s |-> main.s]
      BY <1>5, <2>1 DEF SocketOwners
    <3>2. \A r \in Srv : srv[r].running =>
            srv[r].handle \in Range(pServers) /\ sockets'[srv[r].handle].s = r
      BY <1>3, <1>5, <2>1 DEF SocketOwners
    <3>3. \A x \in Range(pServers) :
            /\ sockets'[x].st = "listening" /\ sockets'[x].s \in Srv
            /\ srv[sockets'[x].s].st = "made" /\ srv[sockets'[x].s].handle = x
            /\ srv[sockets'[x].s].running \/ srv[sockets'[x].s].kind = "pipe"
      BY <1>3, <1>5, <2>1 DEF SocketOwners
    <3>4. ASSUME NEW i \in DOMAIN bgq', bgq'[i].op = "free"
          PROVE  /\ bgq'[i].a \notin Range(pServers)
                 /\ sockets'[bgq'[i].a].st = "listening" /\ sockets'[bgq'[i].a].s \in Srv
                 /\ srv[sockets'[bgq'[i].a].s].asked
      <4>1. bgq'[i].a \in Addr \ {a}
        BY <1>4, <1>5, <2>2, <3>4
      <4>2. sockets'[bgq'[i].a] = sockets[bgq'[i].a]
        BY <2>1, <4>1
      <4> QED BY <2>2, <3>4, <4>2 DEF SocketOwners
    <3>5. ASSUME NEW i \in DOMAIN bgq', NEW j \in DOMAIN bgq',
                 bgq'[i].op = "free", bgq'[i] = bgq'[j]
          PROVE  i = j
      <4>1. i + d = j + d
        BY <2>2, <3>5 DEF SocketOwners
      <4> QED BY <2>2, <4>1
    <3> QED BY <1>1, <3>1, <3>2, <3>3, <3>4, <3>5 DEF SocketOwners
  <2> QED BY <2>3, <2>4
<1>6. CASE FreeServer
  <2> DEFINE a == Head(bgq).a
  <2>1. /\ bgq # <<>> /\ Head(bgq).op = "free" /\ bgq' = Tail(bgq)
        /\ sockets' = [sockets EXCEPT ![a].st = "closing"]
    BY <1>6 DEF FreeServer, Flush
  <2>2. /\ Head(bgq) = bgq[1] /\ bgq' \in Seq(Task)
        /\ DOMAIN bgq = 1..Len(bgq) /\ Len(bgq) \in Nat \ {0}
        /\ DOMAIN bgq' = 1..Len(bgq) - 1
        /\ \A i \in 1..Len(bgq) - 1 : bgq'[i] = bgq[i + 1]
        /\ 1 \in DOMAIN bgq
    BY <2>1, PopTask
  <2>3. /\ a \in Addr /\ a \notin Range(pServers) /\ sockets[a].st = "listening"
        /\ sockets[a].s \in Srv /\ srv[sockets[a].s].asked
    BY <1>4, <2>1, <2>2 DEF SocketOwners
  <2>4. \A i \in DOMAIN bgq' : bgq'[i].op = "free" => bgq'[i].a # a
    <3> SUFFICES ASSUME NEW i \in DOMAIN bgq', bgq'[i].op = "free", bgq'[i].a = a PROVE FALSE
      OBVIOUS
    <3>1. bgq[i + 1] \in Task /\ bgq[1] \in Task /\ i + 1 \in DOMAIN bgq
      BY <2>2, ElementOfSeq DEF TypeOK
    <3>2. bgq[i + 1] = bgq[1]
      BY <2>1, <2>2, <3>1 DEF Task
    <3>3. 1 = i + 1
      BY <2>1, <2>2, <3>1, <3>2 DEF SocketOwners
    <3> QED BY <2>2, <3>3
  <2>5. main.pc \in {"server", "inServer", "result"} => pServer # a
    <3> SUFFICES ASSUME main.pc \in {"server", "inServer", "result"}, pServer = a PROVE FALSE
      OBVIOUS
    <3>1. sockets[a].s = main.s
      BY <2>3 DEF SocketOwners
    <3>2. srv[main.s].st = "starting"
      BY DEF ServerLife
    <3> QED BY <2>3, <3>1, <3>2 DEF ServerLife
  <2>6. sockets' = [sockets EXCEPT ![a] = [sockets[a] EXCEPT !.st = "closing"]]
    BY <2>1, <2>3 DEF TypeOK
  <2>7. TypeOK'
    <3>1. [sockets[a] EXCEPT !.st = "closing"]
            \in [st : {"free", "listening", "closing"}, s : Srv \cup {NULL}]
      BY <2>3 DEF TypeOK
    <3> HIDE DEF a
    <3> QED BY <1>1, <2>2, <2>3, <2>6, <3>1 DEF TypeOK
  <2> HIDE DEF a
  <2>8. CreateInFlight' /\ SocketOwners'
    BY <1>5, <2>1, <2>3, <2>4, <2>5, <2>6
  <2> QED BY <1>2, <2>7, <2>8
<1>7. CASE \E a \in Addr : SocketDeleted(a)
  <2>1. PICK a \in Addr : SocketDeleted(a)
    BY <1>7
  <2>2. /\ sockets[a].st = "closing" /\ bgq' = bgq
        /\ sockets' = [sockets EXCEPT ![a] = [st |-> "free", s |-> NULL]]
    BY <2>1 DEF SocketDeleted
  <2>3. a \notin Range(pServers)
    BY <2>2 DEF SocketOwners
  <2>4. \A i \in DOMAIN bgq : bgq[i].op = "free" => bgq[i].a # a
    BY <2>2 DEF SocketOwners
  <2>5. main.pc \in {"server", "inServer", "result"} => pServer # a
    BY <2>2 DEF SocketOwners
  <2>6. TypeOK'
    BY <1>1, <2>2 DEF TypeOK
  <2>7. CreateInFlight' /\ SocketOwners'
    BY <1>5, <2>2, <2>3, <2>4, <2>5
  <2> QED BY <1>2, <2>6, <2>7
<1> QED BY <1>6, <1>7

-------------------------------------------------------------------------------
(* The theorems. *)

LEMMA InitInvariant == Init => IInv
<1> SUFFICES ASSUME Init PROVE IInv
  OBVIOUS
<1> USE ServerAssumption DEF Init
<1>1. /\ servers = <<>> /\ pServers = <<>> /\ bgq = <<>> /\ main.todo = <<>>
      /\ \A S : <<>> \in Seq(S)
      /\ Range(<<>>) = {} /\ IsInjective(<<>>) /\ DOMAIN <<>> = {}
  BY EmptySeq DEF Range, IsInjective
<1>2. TypeOK
  <2>1. srv \in [Srv -> ServerObject]
    BY Zenon DEF ServerObject
  <2>2. main \in [pc : {"idle", "create", "thread", "inThread", "push", "server", "inServer",
                       "result", "stopAll"},
                 s : Srv \cup {NULL}, todo : Seq(Srv)]
    BY <1>1
  <2>3. io \in [pc : {"none", "starting", "initializing", "thread", "inThread", "loop",
                     "server", "inServer"},
               s : Srv \cup {NULL}, running : BOOLEAN, queue : BOOLEAN]
    <3> DEFINE PC == {"none", "starting", "initializing", "thread", "inThread", "loop",
                      "server", "inServer"}
    <3>1. "none" \in PC /\ NULL \in Srv \cup {NULL} /\ FALSE \in BOOLEAN
      OBVIOUS
    <3> HIDE DEF PC
    <3>2. io \in [pc : PC, s : Srv \cup {NULL}, running : BOOLEAN, queue : BOOLEAN]
      BY <3>1, Zenon
    <3> QED BY <3>2 DEF PC
  <2>4. barrier \in [{"thread", "server"} \X Srv -> 0..2]
    OBVIOUS
  <2>5. sockets \in [Addr -> [st : {"free", "listening", "closing"}, s : Srv \cup {NULL}]]
    OBVIOUS
  <2>6. /\ pServer \in Addr \cup {NULL, GARBAGE}
        /\ servers \in Seq(Srv) /\ pServers \in Seq(Addr) /\ bgq \in Seq(Task)
    BY <1>1
  <2> QED BY <2>1, <2>2, <2>3, <2>4, <2>5, <2>6, Zenon DEF TypeOK
<1>3. ServerLife /\ Lists /\ SocketOwners
  BY <1>1 DEF ServerLife, Lists, SocketOwners
<1>4. ThreadStart /\ CreateInFlight
  BY <1>1 DEF ThreadStart, CreateInFlight
<1> QED BY <1>2, <1>3, <1>4 DEF IInv

LEMMA NextInvariant == IInv /\ [Next]_vars => IInv'
<1> SUFFICES ASSUME IInv, [Next]_vars PROVE IInv'
  OBVIOUS
<1>1. CASE UserStarts
  BY <1>1, StartStep DEF UserStarts
<1>2. ASSUME NEW s \in Srv, StopServer(s) PROVE IInv'
  <2>1. /\ main.pc = "idle" /\ srv[s].st = "made" /\ Stop(s)
        /\ main' = main /\ io' = io /\ barrier' = barrier
        /\ pServer' = pServer /\ sockets' = sockets
    BY <1>2 DEF StopServer, At
  <2>2. main \in [pc : {main.pc}, s : {main.s}, todo : Seq(Srv)]
    BY DEF IInv, TypeOK
  <2> QED BY <2>1, <2>2, StopStep
<1>3. CASE StopNext
  <2> DEFINE s == Head(main.todo)
  <2>1. /\ main.pc = "stopAll" /\ main.todo # <<>> /\ Stop(s)
        /\ main' = [main EXCEPT !.todo = Tail(main.todo)] /\ io' = io /\ barrier' = barrier
        /\ pServer' = pServer /\ sockets' = sockets
    BY <1>3 DEF StopNext, At
  <2>2. main.todo \in Seq(Srv)
    BY DEF IInv, TypeOK
  <2>3. /\ s \in Srv /\ Tail(main.todo) \in Seq(Srv)
        /\ Range(main.todo) = {s} \cup Range(Tail(main.todo))
    BY <2>1, <2>2, TailRange
  <2>4. srv[s].st = "made"
    BY <2>3 DEF IInv, ServerLife
  <2>5. main' \in [pc : {main.pc}, s : {main.s}, todo : Seq(Srv)] /\ main'.todo = Tail(main.todo)
    BY <2>1, <2>3 DEF IInv, TypeOK
  <2> HIDE DEF s
  <2> QED BY <2>1, <2>3, <2>4, <2>5, StopStep
<1>4. CASE StopAllServers \/ StopAllReturns \/ CreateThread \/ IoRuns \/ IoMakesQueue
  BY <1>4, ControlStep
<1>5. CASE \/ MainArrives("thread") \/ MainLeaves("thread", "push")
           \/ MainArrives("server") \/ MainLeaves("server", "result")
           \/ \E b \in {"thread", "server"} : IoArrives(b) \/ IoLeaves(b)
  BY <1>5, ControlStep
<1>6. CASE PushCreate
  BY <1>6, PushCreateStep
<1>7. CASE Create
  BY <1>7, CreateStep
<1>8. CASE Started
  BY <1>8, StartedStep
<1>9. CASE FreeServer \/ \E a \in Addr : SocketDeleted(a)
  BY <1>9, FreeStep
<1>10. CASE UNCHANGED vars
  BY <1>10 DEF vars, IInv, TypeOK, ServerLife, ThreadStart, CreateInFlight, SocketOwners, Lists
<1> QED BY <1>1, <1>2, <1>3, <1>4, <1>5, <1>6, <1>7, <1>8, <1>9, <1>10
        DEF Next, UserStops, MainContinues, IoContinues

LEMMA Invariant == Spec => []IInv
BY InitInvariant, NextInvariant, PTL DEF Spec

\* Every variable keeps its type: among others, no Barrier is ever counted below
\* zero, and the queue holds only creations and frees.
THEOREM TypeCorrect == Spec => []TypeOK
<1>1. IInv => TypeOK
  BY DEF IInv
<1> QED BY <1>1, Invariant, PTL

\* The two Barriers do their work: no push before the queue exists, no look at
\* the result before it is written.
THEOREM ReadyWhenUsedHolds == Spec => []ReadyWhenUsed
<1>1. IInv => ReadyWhenUsed
  BY DEF IInv, ReadyWhenUsed, At, ThreadStart, CreateInFlight
<1> QED BY <1>1, Invariant, PTL

\* Between two calls R's list of servers, C++'s list of handles and the sockets
\* that listen agree, for any number of servers and addresses.
THEOREM ListsAgreeHolds == Spec => []ListsAgree
<1>1. IInv => ListsAgree
  <2> SUFFICES ASSUME IInv, main.pc \in {"idle", "stopAll"}
               PROVE  /\ IsInjective(servers) /\ IsInjective(pServers)
                      /\ Range(servers) = {s \in Srv : srv[s].running}
                      /\ \A s \in Range(servers) : srv[s].handle \in Range(pServers)
                      /\ \A a \in Range(pServers) :
                           \E s \in Srv :
                             /\ srv[s].handle = a
                             /\ sockets[a] = [st |-> "listening", s |-> s]
                             /\ (s \in Range(servers) \/ srv[s].kind = "pipe")
    BY DEF ListsAgree
  <2>1. /\ IsInjective(servers) /\ IsInjective(pServers)
        /\ Range(servers) = {s \in Srv : srv[s].running}
    BY DEF IInv, Lists
  <2>2. \A s \in Range(servers) : srv[s].handle \in Range(pServers)
    BY <2>1 DEF IInv, SocketOwners
  <2>3. ASSUME NEW a \in Range(pServers)
        PROVE  \E s \in Srv : /\ srv[s].handle = a
                              /\ sockets[a] = [st |-> "listening", s |-> s]
                              /\ (s \in Range(servers) \/ srv[s].kind = "pipe")
    <3>1. a \in Addr
      BY RangeOfSeq DEF IInv, TypeOK
    <3>2. sockets[a] = [st |-> sockets[a].st, s |-> sockets[a].s]
      BY <3>1 DEF IInv, TypeOK
    <3>3. /\ sockets[a].s \in Srv /\ srv[sockets[a].s].handle = a
          /\ sockets[a].st = "listening"
          /\ (sockets[a].s \in Range(servers) \/ srv[sockets[a].s].kind = "pipe")
      BY <2>1 DEF IInv, SocketOwners
    <3> QED BY <3>2, <3>3
  <2> QED BY <2>1, <2>2, <2>3
<1> QED BY <1>1, Invariant, PTL

\* A socket is freed once, and only for a server that was asked to stop, however
\* the allocator gives addresses again.
THEOREM FreesOwnSocketHolds == Spec => []FreesOwnSocket
<1>1. IInv => FreesOwnSocket
  BY DEF IInv, SocketOwners, FreesOwnSocket
<1> QED BY <1>1, Invariant, PTL
===============================================================================
