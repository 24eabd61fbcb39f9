-------------------------- MODULE TokenBucket --------------------------
(* What a rate limit per address promises: a bucket that is full at first,  *)
(* gains one unit per tick, and from which an admitted request takes Refill *)
(* units. A request is refused only when they are not there. No bucket is   *)
(* ever thrown away. RateLimiter implements this.                           *)
EXTENDS Integers

CONSTANTS Addrs, Requests, From, Refill, Full

VARIABLES level, answer

vars == <<level, answer>>

Init ==
    /\ level = [a \in Addrs |-> Full]
    /\ answer = [r \in Requests |-> "idle"]

Turn(r, from, to) == answer[r] = from /\ answer' = [answer EXCEPT ![r] = to]

Arrive(r) == Turn(r, "idle", "waiting") /\ UNCHANGED level

Admit(r) ==
    /\ Turn(r, "waiting", "allowed")
    /\ level[From[r]] >= Refill
    /\ level' = [level EXCEPT ![From[r]] = level[From[r]] - Refill]

Refuse(r) ==
    /\ Turn(r, "waiting", "refused")
    /\ level[From[r]] < Refill
    /\ UNCHANGED level

Leave(r) ==
    /\ answer[r] \in {"allowed", "refused"}
    /\ answer' = [answer EXCEPT ![r] = "idle"]
    /\ UNCHANGED level

Tick ==
    /\ level' = [a \in Addrs |-> IF level[a] < Full THEN level[a] + 1 ELSE Full]
    /\ UNCHANGED answer

Next == Tick \/ \E r \in Requests : Arrive(r) \/ Admit(r) \/ Refuse(r) \/ Leave(r)

Spec == Init /\ [][Next]_vars

=============================================================================
