------------------------------ MODULE CallOnce ------------------------------
(***************************************************************************)
(* What a caller of the API queue may count on, whatever the queue does    *)
(* with priorities, retries, quota waits and a shutdown: a call gets one   *)
(* answer, "ok" means that IG carried the call out, "refused" that it      *)
(* never will, and in no case is a call carried out twice.                 *)
(***************************************************************************)
EXTENDS Naturals

CONSTANT Calls

VARIABLES
    promise,   \* [Calls -> what the caller knows]
    effects    \* [Calls -> how often IG carried the call out]

Answers == {"ok", "refused", "unknown"}

Init ==
    /\ promise = [c \in Calls |-> "none"]
    /\ effects = [c \in Calls |-> 0]

Submit(c) ==
    /\ promise[c] = "none"
    /\ promise' = [promise EXCEPT ![c] = "pending"]
    /\ UNCHANGED effects

\* A caller that stops waiting does not take its call back.
Cancel(c) ==
    /\ promise[c] = "pending"
    /\ promise' = [promise EXCEPT ![c] = "cancelled"]
    /\ UNCHANGED effects

CarryOut(c) ==
    /\ promise[c] \in {"pending", "cancelled", "unknown"}
    /\ effects[c] = 0
    /\ effects' = [effects EXCEPT ![c] = 1]
    /\ UNCHANGED promise

Answer(c, a) ==
    /\ promise[c] = "pending"
    /\ a = "ok" => effects[c] = 1
    /\ a = "refused" => effects[c] = 0
    /\ promise' = [promise EXCEPT ![c] = a]
    /\ UNCHANGED effects

Next ==
    \E c \in Calls :
        \/ Submit(c) \/ Cancel(c) \/ CarryOut(c)
        \/ \E a \in Answers : Answer(c, a)

Spec == Init /\ [][Next]_<<promise, effects>>

=============================================================================
