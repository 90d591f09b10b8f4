----------------------------- MODULE BodyStream -----------------------------
(***************************************************************************)
(* What the recipient of a response body is promised, whatever the body is *)
(* made of and however it is framed: the bytes of the body arrive in order, *)
(* none of them twice, and once they are all there the recipient can tell  *)
(* that nothing more will come.  When the transfer fails (the connection   *)
(* breaks, the file cannot be read or changes while it is sent) nothing is *)
(* promised any more.                                                      *)
(***************************************************************************)
EXTENDS Integers

VARIABLES
    size,   \* bytes the body had when the response was created
    got,    \* bytes the recipient has
    end     \* "open", "complete" (the recipient knows it has all) or "failed"

Init ==
    /\ size \in Nat
    /\ got = 0
    /\ end = "open"

(* Some more bytes arrive; the last of them may also mark the end. *)
Deliver ==
    /\ end = "open"
    /\ got' \in got .. size
    /\ \/ got' > got /\ end' = "open"
       \/ got' = size /\ end' = "complete"
    /\ UNCHANGED size

Fail ==
    /\ end # "failed"
    /\ end' = "failed"
    /\ UNCHANGED size

AfterFailure ==
    /\ end = "failed"
    /\ UNCHANGED <<size, end>>

Next == Deliver \/ Fail \/ AfterFailure

vars == <<size, got, end>>

(* A transfer that does not fail is brought to its end. *)
Spec == Init /\ [][Next]_vars /\ WF_vars(Deliver)
=============================================================================
