----------------------------- MODULE TaskExecutor -----------------------------
(***************************************************************************)
(* What the rest of httpuv relies on when it hands work to the background  *)
(* thread: every thread's callbacks run one at a time, in the order that   *)
(* thread submitted them, each exactly once, and each of them eventually.  *)
(* Nothing is said about queues, locks or wake-ups: CallbackQueue is shown *)
(* to implement this module.                                               *)
(***************************************************************************)
EXTENDS Naturals

CONSTANTS Threads,   \* the threads that submit callbacks
          MaxPush    \* bound: callbacks submitted by one thread

VARIABLES submitted, \* submitted[t]: callbacks t has handed over so far
          begun,     \* begun[t]: how many of them have begun to run
          busy       \* a callback is running

vars == <<submitted, begun, busy>>

Init == /\ submitted = [t \in Threads |-> 0]
        /\ begun = [t \in Threads |-> 0]
        /\ busy = FALSE

Submit(t) == /\ submitted[t] < MaxPush
             /\ submitted' = [submitted EXCEPT ![t] = @ + 1]
             /\ UNCHANGED <<begun, busy>>

Begin(t) == /\ ~busy
            /\ begun[t] < submitted[t]
            /\ begun' = [begun EXCEPT ![t] = @ + 1]
            /\ busy' = TRUE
            /\ UNCHANGED submitted

End == /\ busy
       /\ busy' = FALSE
       /\ UNCHANGED <<submitted, begun>>

Next == \/ \E t \in Threads : Submit(t) \/ Begin(t)
        \/ End

SafeSpec == Init /\ [][Next]_vars

Spec == SafeSpec /\ WF_vars(End) /\ \A t \in Threads : SF_vars(Begin(t))
===============================================================================
