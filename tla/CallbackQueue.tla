---------------------------- MODULE CallbackQueue ----------------------------
(***************************************************************************)
(* The queue by which work reaches httpuv's background thread              *)
(* (callbackqueue.cpp on top of tqueue.h), with the wake-up it rests on:   *)
(* libuv's uv_async_send and uv__async_io, one atomic memory operation or  *)
(* system call per step.                                                   *)
(*                                                                         *)
(* A push is two separate calls, q.push under the mutex and then           *)
(* uv_async_send outside of it; a flush drops the mutex before it runs the *)
(* callback it popped.  A critical section of q.mutex touches nothing but  *)
(* q and cannot block, so each one is a single step here.                  *)
(*                                                                         *)
(* A callback is abstracted to its origin: the n-th callback that thread   *)
(* `by' pushed.  Callbacks may push callbacks in turn, and so may the      *)
(* other events of the loop (a socket read that finds a static file).      *)
(* The loop runs for the rest of the process: async_stop_io_loop, the only *)
(* thing that would stop it, is never sent.                                *)
(***************************************************************************)
EXTENDS Integers, Sequences, SequenceTheorems, TLAPS

CONSTANTS Foreign,   \* threads other than the loop's that push (R's main thread)
          Loop,      \* the background thread, which runs the uv loop
          MaxPush    \* bound: callbacks pushed by one thread

ASSUME ThreadsAssumption == Loop \notin Foreign
ASSUME MaxPushAssumption == MaxPush \in Nat

Threads == Foreign \cup {Loop}

Callback == [by : Threads, n : Nat]

VARIABLES
  q,        \* the std::queue inside tqueue
  pending,  \* flush_handle.pending: 0 idle, 1 a sender is at work, 2 sent
  wake,     \* the loop's eventfd is readable
  pc,       \* pc[t]: where thread t is inside CallbackQueue::push
  at,       \* what the loop does: poll, async (in uv__async_io), flush, run
  pushed,   \* pushed[t]: callbacks that t has put on q
  started   \* started[t]: callbacks of t that have been popped and called

vars == <<q, pending, wake, pc, at, pushed, started>>

-------------------------------------------------------------------------------
Init ==
  /\ q = <<>>
  /\ pending = 0
  /\ wake = FALSE
  /\ pc = [t \in Threads |-> "idle"]
  /\ at = "poll"
  /\ pushed = [t \in Threads |-> 0]
  /\ started = [t \in Threads |-> 0]

Goto(t, label) == pc' = [pc EXCEPT ![t] = label]

\* A thread may call push() when it is in no other push(); the loop's thread
\* only from an event callback (at = "poll") or from a queued callback.
MayPush(t) == /\ pc[t] = "idle"
              /\ t = Loop => at \in {"poll", "run"}

\* A push without the call of uv_async_send.
PushNoWakeup(t) ==
  /\ MayPush(t)
  /\ pushed[t] < MaxPush
  /\ q' = Append(q, [by |-> t, n |-> pushed[t] + 1])
  /\ pushed' = [pushed EXCEPT ![t] = @ + 1]
  /\ UNCHANGED <<pending, wake, pc, at, started>>

\* CallbackQueue::push, first statement: q.push(cb) under the mutex.
Push(t) ==
  /\ MayPush(t)
  /\ pushed[t] < MaxPush
  /\ q' = Append(q, [by |-> t, n |-> pushed[t] + 1])
  /\ pushed' = [pushed EXCEPT ![t] = @ + 1]
  /\ Goto(t, "send")
  /\ UNCHANGED <<pending, wake, at, started>>

\* The pending word used as a counter of the sends.
AsyncSendCounts(t) ==
  /\ pc[t] = "send"
  /\ pending' = pending + 1
  /\ Goto(t, "idle")
  /\ UNCHANGED <<q, wake, at, pushed, started>>

\* CallbackQueue::push, second statement: uv_async_send.  If another send is
\* pending the call returns; otherwise it claims the handle.
AsyncSend(t) ==
  /\ pc[t] = "send"
  /\ IF pending # 0
       THEN pending' = pending /\ Goto(t, "idle")
       ELSE pending' = 1 /\ Goto(t, "wake")
  /\ UNCHANGED <<q, wake, at, pushed, started>>

\* A send without the write to the eventfd.
AsyncWakeForgets(t) ==
  /\ pc[t] = "wake"
  /\ Goto(t, "release")
  /\ UNCHANGED <<q, pending, wake, at, pushed, started>>

\* uv__async_send: the write to the eventfd.
AsyncWake(t) ==
  /\ pc[t] = "wake"
  /\ wake' = TRUE
  /\ Goto(t, "release")
  /\ UNCHANGED <<q, pending, at, pushed, started>>

\* The last compare-and-exchange of uv_async_send, after which push returns.
AsyncRelease(t) ==
  /\ pc[t] = "release"
  /\ pending' = 2
  /\ Goto(t, "idle")
  /\ UNCHANGED <<q, wake, at, pushed, started>>

-------------------------------------------------------------------------------
\* uv__async_io starts by draining the eventfd.
LoopWakes ==
  /\ at = "poll" /\ pc[Loop] = "idle"
  /\ wake
  /\ wake' = FALSE
  /\ at' = "async"
  /\ UNCHANGED <<q, pending, pc, pushed, started>>

\* uv__async_spin: wait while a sender is at work (pending = 1), then take the
\* request, if there is one, and call flush_callback_queue.
LoopSpin ==
  /\ at = "async"
  /\ pending # 1
  /\ pending' = 0
  /\ at' = IF pending = 2 THEN "flush" ELSE "poll"
  /\ UNCHANGED <<q, wake, pc, pushed, started>>

\* CallbackQueue::flush, the guarded scope: stop on an empty queue, otherwise
\* pop the front.  The callback is called with the mutex released.
FlushPop ==
  /\ at = "flush"
  /\ IF q = <<>>
       THEN at' = "poll" /\ UNCHANGED <<q, started>>
       ELSE /\ started' = [started EXCEPT ![Head(q).by] = @ + 1]
            /\ q' = Tail(q)
            /\ at' = "run"
  /\ UNCHANGED <<pending, wake, pc, pushed>>

\* A flush that runs one callback and leaves the rest to the next wake-up.
ReturnsToPoll ==
  /\ at = "run" /\ pc[Loop] = "idle"
  /\ at' = "poll"
  /\ UNCHANGED <<q, pending, wake, pc, pushed, started>>

\* cb() returns and flush goes round its loop.
CallbackReturns ==
  /\ at = "run" /\ pc[Loop] = "idle"
  /\ at' = "flush"
  /\ UNCHANGED <<q, pending, wake, pc, pushed, started>>

-------------------------------------------------------------------------------
Sending(t) == AsyncSend(t) \/ AsyncWake(t) \/ AsyncRelease(t)

LoopStep == LoopWakes \/ LoopSpin \/ FlushPop \/ CallbackReturns

Next == \/ \E t \in Threads : Push(t) \/ Sending(t)
        \/ LoopStep

\* A thread inside push() is scheduled again, and so is the loop's thread; no
\* thread has to call push().
Fairness == /\ \A t \in Threads : WF_vars(Sending(t))
            /\ WF_vars(LoopStep)

Spec == Init /\ [][Next]_vars /\ Fairness

-------------------------------------------------------------------------------
TypeOK ==
  /\ q \in Seq(Callback)
  /\ pending \in 0..2
  /\ wake \in BOOLEAN
  /\ pc \in [Threads -> {"idle", "send", "wake", "release"}]
  /\ at \in {"poll", "async", "flush", "run"}
  /\ pushed \in [Threads -> Nat]
  /\ started \in [Threads -> Nat]

\* While a callback is on the queue somebody is on the way to flush it: the
\* loop is flushing (or running a callback, after which it looks again), a
\* request is pending, or the thread that pushed has still to call
\* uv_async_send.  q.push and uv_async_send are two calls and sends coalesce
\* (callbackqueue.cpp:23), so this is the lost wake-up that must not happen.
NoStrandedCallback ==
  q # <<>> => \/ at \in {"flush", "run"}
              \/ pending # 0
              \/ \E t \in Threads : pc[t] = "send"

\* A pending request reaches the loop: the eventfd is readable, the loop is
\* already looking at the handle, or the sender has still to write to it.
PendingWakesLoop ==
  pending # 0 => \/ wake
                 \/ at = "async"
                 \/ \E t \in Threads : pc[t] = "wake"

\* The handle is marked as being worked with exactly while one thread is
\* between the two compare-and-exchanges of uv_async_send.
SenderOwnsHandle ==
  /\ \A t \in Threads : pc[t] \in {"wake", "release"} => pending = 1
  /\ \A t, u \in Threads :
       pc[t] \in {"wake", "release"} /\ pc[u] \in {"wake", "release"} => t = u

\* q holds exactly the callbacks that were pushed and not yet started, those
\* of one thread in the order of their numbers.
QueueOrdered ==
  \A i, j \in DOMAIN q : i < j /\ q[i].by = q[j].by => q[i].n < q[j].n

QueueInRange ==
  /\ \A t \in Threads : started[t] <= pushed[t]
  /\ \A i \in DOMAIN q : started[q[i].by] < q[i].n /\ q[i].n <= pushed[q[i].by]

QueueComplete ==
  \A t \in Threads : \A n \in (started[t] + 1)..pushed[t] :
    \E i \in DOMAIN q : q[i] = [by |-> t, n |-> n]

\* The invariant behind NoStrandedCallback and StartsInPushOrder, inductive
\* together with TypeOK: who owns the wake-up handle, that a pending request
\* reaches the loop, and that q is exactly what was pushed and not started, in
\* each thread's order (uv_async_send and tqueue together).
WakeupAndOrder ==
  /\ NoStrandedCallback
  /\ PendingWakesLoop
  /\ SenderOwnsHandle
  /\ QueueOrdered
  /\ QueueInRange
  /\ QueueComplete

\* The callbacks of a thread begin in the order in which it pushed them, none
\* is skipped and none begins twice.  sendWSMessage rests on it: it pushes the
\* write of a buffer and then the deletion of that buffer (httpuv.cpp:218).
StartsInOrder ==
  \A t \in Threads : started'[t] # started[t] =>
    /\ started'[t] = started[t] + 1
    /\ q[1] = [by |-> t, n |-> started[t] + 1]

StartsInPushOrder == [][StartsInOrder]_vars

\* The queue implements the promise in TaskExecutor, with its liveness.
Executor == INSTANCE TaskExecutor WITH
  submitted <- pushed, begun <- started, busy <- (at = "run")

ImplementsExecutor == Executor!Spec

-------------------------------------------------------------------------------
(* Proofs, for any number of pushing threads and callbacks: no wake-up is  *)
(* lost, each thread's callbacks start in order, and the queue implements  *)
(* TaskExecutor (its safety part).                                         *)

\* Every variable keeps its type: the queue holds callbacks, the handle's
\* pending word stays within the three values libuv gives it.
THEOREM TypeCorrect == Spec => []TypeOK
<1>1. Init => TypeOK
  <2> SUFFICES ASSUME Init PROVE TypeOK
    OBVIOUS
  <2>1. q \in Seq(Callback)
    BY EmptySeq DEF Init
  <2>2. pc \in [Threads -> {"idle", "send", "wake", "release"}]
    BY DEF Init
  <2>3. pushed \in [Threads -> Nat] /\ started \in [Threads -> Nat]
    BY DEF Init
  <2>4. pending \in 0..2 /\ at \in {"poll", "async", "flush", "run"}
    BY DEF Init
  <2>5. wake \in BOOLEAN
    BY Zenon DEF Init
  <2> QED BY <2>1, <2>2, <2>3, <2>4, <2>5 DEF TypeOK
<1>2. TypeOK /\ [Next]_vars => TypeOK'
  <2> SUFFICES ASSUME TypeOK, [Next]_vars PROVE TypeOK'
    OBVIOUS
  <2> USE DEF TypeOK, Goto
  <2>1. ASSUME NEW t \in Threads, Push(t) PROVE TypeOK'
    <3>1. [by |-> t, n |-> pushed[t] + 1] \in Callback
      BY DEF Callback
    <3>2. q' \in Seq(Callback)
      BY <2>1, <3>1, AppendProperties DEF Push
    <3> QED BY <2>1, <3>2 DEF Push
  <2>2. ASSUME NEW t \in Threads, AsyncSend(t) PROVE TypeOK'
    <3>1. CASE pending # 0
      BY <2>2, <3>1 DEF AsyncSend
    <3>2. CASE pending = 0
      BY <2>2, <3>2, SMTT(60) DEF AsyncSend
    <3> QED BY <3>1, <3>2
  <2>3. ASSUME NEW t \in Threads, AsyncWake(t) PROVE TypeOK'
    BY <2>3 DEF AsyncWake
  <2>4. ASSUME NEW t \in Threads, AsyncRelease(t) PROVE TypeOK'
    BY <2>4 DEF AsyncRelease
  <2>5. CASE LoopWakes
    BY <2>5 DEF LoopWakes
  <2>6. CASE LoopSpin
    BY <2>6 DEF LoopSpin
  <2>7. CASE FlushPop
    <3>1. CASE q = <<>>
      BY <2>7, <3>1 DEF FlushPop
    <3>2. CASE q # <<>>
      <4>1. Head(q) \in Callback /\ Tail(q) \in Seq(Callback)
        BY <3>2, HeadTailProperties
      <4>2. Head(q).by \in Threads
        BY <4>1 DEF Callback
      <4>3. started' \in [Threads -> Nat]
        <5>1. started' = [started EXCEPT ![Head(q).by] = started[Head(q).by] + 1]
          BY <2>7, <3>2 DEF FlushPop
        <5>2. started[Head(q).by] + 1 \in Nat
          BY <4>2
        <5> QED BY <4>2, <5>1, <5>2
      <4> QED BY <2>7, <3>2, <4>1, <4>3 DEF FlushPop
    <3> QED BY <3>1, <3>2
  <2>8. CASE CallbackReturns
    BY <2>8 DEF CallbackReturns
  <2>9. CASE UNCHANGED vars
    BY <2>9 DEF vars
  <2> QED BY <2>1, <2>2, <2>3, <2>4, <2>5, <2>6, <2>7, <2>8, <2>9
          DEF Next, Sending, LoopStep
<1> QED BY <1>1, <1>2, PTL DEF Spec

\* The inductive step for the wake-up part: the ownership of the handle and
\* the two facts that a push cannot go unnoticed.
LEMMA WakeupStep ==
  ASSUME TypeOK, NoStrandedCallback, PendingWakesLoop, SenderOwnsHandle, [Next]_vars
  PROVE  NoStrandedCallback' /\ PendingWakesLoop' /\ SenderOwnsHandle'
<1> USE DEF TypeOK, NoStrandedCallback, PendingWakesLoop, SenderOwnsHandle, Goto
<1>1. ASSUME NEW t \in Threads, Push(t)
      PROVE NoStrandedCallback' /\ PendingWakesLoop' /\ SenderOwnsHandle'
  BY <1>1 DEF Push, MayPush
<1>2. ASSUME NEW t \in Threads, AsyncSend(t)
      PROVE NoStrandedCallback' /\ PendingWakesLoop' /\ SenderOwnsHandle'
  BY <1>2, SMTT(40) DEF AsyncSend
<1>3. ASSUME NEW t \in Threads, AsyncWake(t)
      PROVE NoStrandedCallback' /\ PendingWakesLoop' /\ SenderOwnsHandle'
  BY <1>3 DEF AsyncWake
<1>4. ASSUME NEW t \in Threads, AsyncRelease(t)
      PROVE NoStrandedCallback' /\ PendingWakesLoop' /\ SenderOwnsHandle'
  BY <1>4 DEF AsyncRelease
<1>5. CASE LoopWakes
  BY <1>5 DEF LoopWakes
<1>6. CASE LoopSpin
  BY <1>6 DEF LoopSpin
<1>7. CASE FlushPop
  BY <1>7 DEF FlushPop
<1>8. CASE CallbackReturns
  BY <1>8 DEF CallbackReturns
<1>9. CASE UNCHANGED vars
  BY <1>9 DEF vars
<1> QED BY <1>1, <1>2, <1>3, <1>4, <1>5, <1>6, <1>7, <1>8, <1>9
        DEF Next, Sending, LoopStep

\* The front of the queue is the next callback of the thread that pushed it:
\* a smaller number of that thread would have to stand further back.
LEMMA FrontIsNext ==
  ASSUME TypeOK, QueueOrdered, QueueInRange, QueueComplete, q # <<>>
  PROVE  /\ Head(q).by \in Threads
         /\ Head(q).n = started[Head(q).by] + 1
         /\ started[Head(q).by] < pushed[Head(q).by]
<1> DEFINE t == Head(q).by
           n == Head(q).n
<1>1. Head(q) = q[1] /\ 1 \in DOMAIN q /\ t \in Threads /\ n \in Nat
  <2>1. q \in Seq(Callback) /\ Head(q) \in Callback
    BY HeadTailProperties DEF TypeOK
  <2>2. Len(q) \in Nat \ {0} /\ DOMAIN q = 1..Len(q)
    BY <2>1, EmptySeq, LenProperties
  <2>3. Head(q) = q[1]
    BY <2>1
  <2> QED BY <2>1, <2>2, <2>3 DEF Callback
<1>2. started[t] < n /\ n <= pushed[t] /\ started[t] \in Nat /\ pushed[t] \in Nat
  BY <1>1 DEF QueueInRange, TypeOK
<1>3. ASSUME n # started[t] + 1 PROVE FALSE
  <2>1. started[t] + 1 \in (started[t] + 1)..pushed[t]
    BY <1>2, <1>3, <1>1
  <2>2. PICK i \in DOMAIN q : q[i] = [by |-> t, n |-> started[t] + 1]
    BY <1>1, <2>1 DEF QueueComplete
  <2>3. 1 < i
    <3>1. i \in 1..Len(q)
      BY DEF TypeOK
    <3>2. i # 1
      BY <1>1, <1>3, <2>2
    <3> QED BY <3>1, <3>2
  <2>4. q[1].n < q[i].n
    BY <1>1, <2>2, <2>3 DEF QueueOrdered
  <2> QED BY <1>1, <1>2, <2>2, <2>4
<1> QED BY <1>1, <1>2, <1>3

\* The inductive step for the contents of the queue.
LEMMA OrderStep ==
  ASSUME TypeOK, QueueOrdered, QueueInRange, QueueComplete, [Next]_vars
  PROVE  QueueOrdered' /\ QueueInRange' /\ QueueComplete'
<1>1. ASSUME NEW t \in Threads, Push(t)
      PROVE QueueOrdered' /\ QueueInRange' /\ QueueComplete'
  <2> DEFINE cb == [by |-> t, n |-> pushed[t] + 1]
  <2>1. /\ q' = Append(q, cb) /\ cb \in Callback
        /\ pushed' = [pushed EXCEPT ![t] = @ + 1] /\ started' = started
        /\ pushed[t] \in Nat
    BY <1>1 DEF Push, TypeOK, Callback
  <2>2. /\ Len(q') = Len(q) + 1 /\ Len(q) \in Nat
        /\ DOMAIN q = 1..Len(q) /\ DOMAIN q' = 1..(Len(q) + 1)
        /\ \A i \in 1..Len(q) : q'[i] = q[i] /\ q[i] \in Callback
        /\ q'[Len(q) + 1] = cb
    BY <2>1 DEF TypeOK
  <2>3. \A i \in DOMAIN q : q[i].by \in Threads /\ q[i].n \in Nat
    BY <2>2 DEF Callback
  <2>4. QueueOrdered'
    <3> SUFFICES ASSUME NEW i \in DOMAIN q', NEW j \in DOMAIN q',
                        i < j, q'[i].by = q'[j].by
                 PROVE q'[i].n < q'[j].n
      BY DEF QueueOrdered
    <3>1. i \in DOMAIN q /\ q'[i] = q[i]
      BY <2>2
    <3>2. CASE j \in DOMAIN q
      BY <2>2, <3>1, <3>2 DEF QueueOrdered
    <3>3. CASE j = Len(q) + 1
      <4>1. q[i].by = t /\ q[i].n <= pushed[t]
        BY <2>2, <3>1, <3>3 DEF QueueInRange
      <4> QED BY <2>1, <2>2, <2>3, <3>1, <3>3, <4>1
    <3> QED BY <2>2, <3>2, <3>3
  <2>5. QueueInRange'
    <3>1. ASSUME NEW u \in Threads PROVE started'[u] <= pushed'[u]
      BY <2>1 DEF QueueInRange, TypeOK
    <3>2. ASSUME NEW i \in DOMAIN q'
          PROVE started'[q'[i].by] < q'[i].n /\ q'[i].n <= pushed'[q'[i].by]
      <4>1. CASE i \in DOMAIN q
        BY <2>1, <2>2, <2>3, <4>1 DEF QueueInRange, TypeOK
      <4>2. CASE i = Len(q) + 1
        BY <2>1, <2>2, <4>2 DEF QueueInRange, TypeOK
      <4> QED BY <2>2, <4>1, <4>2
    <3> QED BY <3>1, <3>2 DEF QueueInRange
  <2>6. QueueComplete'
    <3> SUFFICES ASSUME NEW u \in Threads, NEW m \in (started[u] + 1)..pushed'[u]
                 PROVE \E i \in DOMAIN q' : q'[i] = [by |-> u, n |-> m]
      BY <2>1 DEF QueueComplete
    <3>1. CASE u = t /\ m = pushed[t] + 1
      BY <2>2, <3>1
    <3>2. CASE ~(u = t /\ m = pushed[t] + 1)
      <4>1. m \in (started[u] + 1)..pushed[u]
        BY <2>1, <3>2 DEF TypeOK
      <4> QED BY <2>2, <4>1 DEF QueueComplete
    <3> QED BY <3>1, <3>2
  <2> QED BY <2>4, <2>5, <2>6
<1>2. CASE FlushPop /\ q # <<>>
  <2> DEFINE t == Head(q).by
  <2>1. /\ q' = Tail(q) /\ pushed' = pushed
        /\ started' = [started EXCEPT ![t] = @ + 1]
    BY <1>2 DEF FlushPop
  <2>2. /\ t \in Threads /\ Head(q).n = started[t] + 1
        /\ started[t] < pushed[t] /\ started[t] \in Nat /\ pushed[t] \in Nat
    BY <1>2, FrontIsNext DEF TypeOK
  <2>3. /\ Len(q) \in Nat \ {0} /\ DOMAIN q = 1..Len(q) /\ DOMAIN q' = 1..(Len(q) - 1)
        /\ \A i \in DOMAIN q' : q'[i] = q[i + 1] /\ i + 1 \in DOMAIN q
    <3>1. q \in Seq(Callback) /\ q # <<>>
      BY <1>2 DEF TypeOK
    <3>2. /\ Tail(q) \in Seq(Callback) /\ Len(Tail(q)) = Len(q) - 1
          /\ \A i \in 1..Len(Tail(q)) : Tail(q)[i] = q[i + 1]
      BY <3>1, HeadTailProperties
    <3>3. /\ Len(q) \in Nat \ {0} /\ DOMAIN q = 1..Len(q)
          /\ DOMAIN Tail(q) = 1..Len(Tail(q))
      BY <3>1, <3>2, EmptySeq, LenProperties
    <3> QED BY <2>1, <3>2, <3>3
  <2>4. \A i \in DOMAIN q : q[i] \in Callback /\ q[i].by \in Threads /\ q[i].n \in Nat
    <3>1. \A i \in 1..Len(q) : q[i] \in Callback
      BY ElementOfSeq DEF TypeOK
    <3> QED BY <2>3, <3>1 DEF Callback
  <2>5. QueueOrdered'
    BY <2>3 DEF QueueOrdered
  <2>6. q[1] = Head(q)
    BY <1>2 DEF TypeOK
  <2>7. QueueInRange'
    <3>1. ASSUME NEW u \in Threads PROVE started'[u] <= pushed'[u]
      BY <2>1, <2>2 DEF QueueInRange, TypeOK
    <3>2. ASSUME NEW i \in DOMAIN q'
          PROVE started'[q'[i].by] < q'[i].n /\ q'[i].n <= pushed'[q'[i].by]
      <4>1. /\ q'[i] = q[i + 1] /\ i + 1 \in DOMAIN q /\ 1 \in DOMAIN q
            /\ 1 < i + 1 /\ q[i + 1].by \in Threads /\ q[i + 1].n \in Nat
        BY <2>3, <2>4
      <4>2. started[q[i + 1].by] < q[i + 1].n /\ q[i + 1].n <= pushed[q[i + 1].by]
        BY <4>1 DEF QueueInRange
      <4>3. CASE q[i + 1].by = t
        <5>1. Head(q).n < q[i + 1].n
          BY <2>6, <4>1, <4>3 DEF QueueOrdered
        <5> QED BY <2>1, <2>2, <4>1, <4>2, <4>3, <5>1 DEF TypeOK
      <4>4. CASE q[i + 1].by # t
        BY <2>1, <2>2, <4>1, <4>2, <4>4 DEF TypeOK
      <4> QED BY <4>3, <4>4
    <3> QED BY <3>1, <3>2 DEF QueueInRange
  <2>8. QueueComplete'
    <3> SUFFICES ASSUME NEW u \in Threads, NEW m \in (started'[u] + 1)..pushed[u]
                 PROVE \E i \in DOMAIN q' : q'[i] = [by |-> u, n |-> m]
      BY <2>1 DEF QueueComplete
    <3>1. m \in (started[u] + 1)..pushed[u] /\ (u = t => m # Head(q).n)
      BY <2>1, <2>2 DEF TypeOK
    <3>2. PICK i \in DOMAIN q : q[i] = [by |-> u, n |-> m]
      BY <3>1 DEF QueueComplete
    <3>3. i # 1
      BY <2>6, <3>1, <3>2
    <3>4. i - 1 \in DOMAIN q' /\ q'[i - 1] = q[i]
      BY <2>3, <3>2, <3>3
    <3> QED BY <3>2, <3>4
  <2> QED BY <2>5, <2>7, <2>8
<1>3. ASSUME UNCHANGED <<q, pushed, started>>
      PROVE QueueOrdered' /\ QueueInRange' /\ QueueComplete'
  BY <1>3 DEF QueueOrdered, QueueInRange, QueueComplete
<1>4. \/ \E t \in Threads : Push(t)
      \/ FlushPop /\ q # <<>>
      \/ UNCHANGED <<q, pushed, started>>
  BY DEF Next, Sending, LoopStep, AsyncSend, AsyncWake, AsyncRelease,
         LoopWakes, LoopSpin, FlushPop, CallbackReturns, vars
<1> QED BY <1>1, <1>2, <1>3, <1>4

\* No wake-up is lost and the queue is what was pushed and not yet started,
\* whatever the threads and the number of callbacks.
THEOREM WakeupAndOrderInvariant == Spec => []WakeupAndOrder
<1>1. Init => WakeupAndOrder
  BY DEF Init, WakeupAndOrder, NoStrandedCallback, PendingWakesLoop,
         SenderOwnsHandle, QueueOrdered, QueueInRange, QueueComplete
<1>2. TypeOK /\ WakeupAndOrder /\ [Next]_vars => WakeupAndOrder'
  BY WakeupStep, OrderStep DEF WakeupAndOrder
<1> QED BY <1>1, <1>2, TypeCorrect, PTL DEF Spec

\* A callback never sits on the queue with nobody on the way to flush it.
THEOREM NoLostWakeup == Spec => []NoStrandedCallback
<1>1. WakeupAndOrder => NoStrandedCallback
  BY DEF WakeupAndOrder
<1> QED BY <1>1, WakeupAndOrderInvariant, PTL

\* flush starts each thread's callbacks in the order that thread pushed them.
THEOREM PushOrder == Spec => StartsInPushOrder
<1>1. TypeOK /\ WakeupAndOrder /\ [Next]_vars => [StartsInOrder]_vars
  <2> SUFFICES ASSUME TypeOK, WakeupAndOrder, Next,
                      NEW t \in Threads, started'[t] # started[t]
               PROVE /\ started'[t] = started[t] + 1
                     /\ q[1] = [by |-> t, n |-> started[t] + 1]
    BY DEF StartsInOrder
  <2>1. FlushPop /\ q # <<>> /\ started' = [started EXCEPT ![Head(q).by] = @ + 1]
    BY DEF Next, Push, Sending, LoopStep, AsyncSend, AsyncWake, AsyncRelease,
           LoopWakes, LoopSpin, FlushPop, CallbackReturns
  <2>2. t = Head(q).by /\ started'[t] = started[t] + 1
    BY <2>1 DEF TypeOK
  <2>3. Head(q).n = started[t] + 1
    BY <2>1, <2>2, FrontIsNext DEF WakeupAndOrder
  <2>4. Head(q) \in Callback /\ q[1] = Head(q)
    BY <2>1, HeadTailProperties DEF TypeOK
  <2> QED BY <2>2, <2>3, <2>4 DEF Callback
<1> QED BY <1>1, TypeCorrect, WakeupAndOrderInvariant, PTL DEF Spec, StartsInPushOrder

\* Every step of the queue is a step of TaskExecutor, or leaves it unchanged.
THEOREM RefinesExecutor == Spec => Executor!SafeSpec
<1>1. Init => Executor!Init
  BY DEF Init, Executor!Init
<1>2. TypeOK /\ WakeupAndOrder /\ [Next]_vars => [Executor!Next]_(Executor!vars)
  <2> SUFFICES ASSUME TypeOK, WakeupAndOrder, [Next]_vars
               PROVE Executor!Next \/ UNCHANGED Executor!vars
    OBVIOUS
  <2>1. ASSUME NEW t \in Threads, Push(t) PROVE Executor!Submit(t)
    BY <2>1 DEF Push, Executor!Submit
  <2>2. CASE FlushPop /\ q # <<>>
    <3>1. Head(q).by \in Threads /\ started[Head(q).by] < pushed[Head(q).by]
      BY <2>2, FrontIsNext DEF WakeupAndOrder
    <3>2. Executor!Begin(Head(q).by)
      BY <2>2, <3>1 DEF FlushPop, Executor!Begin
    <3> QED BY <3>1, <3>2 DEF Executor!Next
  <2>3. CASE CallbackReturns
    BY <2>3 DEF CallbackReturns, Executor!Next, Executor!End
  <2>4. CASE /\ UNCHANGED <<pushed, started>>
             /\ (at = "run") = (at' = "run")
    BY <2>4 DEF Executor!vars
  <2>5. \/ \E t \in Threads : Push(t)
        \/ FlushPop /\ q # <<>>
        \/ CallbackReturns
        \/ UNCHANGED <<pushed, started>> /\ (at = "run") = (at' = "run")
    BY DEF Next, Sending, LoopStep, AsyncSend, AsyncWake, AsyncRelease,
           LoopWakes, LoopSpin, FlushPop, vars
  <2> QED BY <2>1, <2>2, <2>3, <2>4, <2>5 DEF Executor!Next
<1> QED BY <1>1, <1>2, TypeCorrect, WakeupAndOrderInvariant, PTL
        DEF Spec, Executor!SafeSpec
===============================================================================
