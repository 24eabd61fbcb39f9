-------------------------- MODULE AtomicWrite --------------------------
(* What a write through WithWriteRetry promises its caller: it takes effect *)
(* at most once, "ok" is said of an effect only and an error only of none.   *)
(* Only a process that dies leaves its caller in doubt.                      *)
EXTENDS Integers

CONSTANTS Calls, None

VARIABLES
    effects,   \* how often each call has taken effect
    answer     \* what its caller was told

Init ==
    /\ effects = [c \in Calls |-> 0]
    /\ answer = [c \in Calls |-> None]

TakeEffect(c) ==
    /\ answer[c] = None
    /\ effects[c] = 0
    /\ effects' = [effects EXCEPT ![c] = 1]
    /\ UNCHANGED answer

Succeed(c) ==
    /\ answer[c] = None
    /\ effects[c] = 1
    /\ answer' = [answer EXCEPT ![c] = "ok"]
    /\ UNCHANGED effects

Fail(c) ==
    /\ answer[c] = None
    /\ effects[c] = 0
    /\ \E why \in {"busy", "refused", "cancelled"} :
         answer' = [answer EXCEPT ![c] = why]
    /\ UNCHANGED effects

(* A process dies with its calls. *)
Die ==
    /\ \E lost \in SUBSET {c \in Calls : answer[c] = None} :
         answer' = [c \in Calls |-> IF c \in lost THEN "lost" ELSE answer[c]]
    /\ UNCHANGED effects

Next == Die \/ \E c \in Calls : TakeEffect(c) \/ Succeed(c) \/ Fail(c)

Spec == Init /\ [][Next]_<<effects, answer>>

=============================================================================
