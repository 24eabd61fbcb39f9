------------------------ MODULE PaymentLifecycle ------------------------
(* What a payment request promises its payer and the operator: the path    *)
(* from PENDING to one final state, money credited at most once and before *)
(* the payment counts as settled, and a bounded number of failed transfers.*)
EXTENDS Naturals

CONSTANTS
    Payments,
    MaxTries,   \* failed transfers after which a payment stays FAILED
    MayAbandon  \* whether a credited payment may still fail or expire

VARIABLES
    stage,     \* where each payment stands
    credited,  \* payments whose money is on the ledger
    reversed,  \* payments whose money was given back
    tries      \* failed transfers of each payment

vars == <<stage, credited, reversed, tries>>

Init ==
    /\ stage = [p \in Payments |-> "NONE"]
    /\ credited = {}
    /\ reversed = {}
    /\ tries = [p \in Payments |-> 0]

Move(p, from, to) ==
    /\ stage[p] = from
    /\ stage' = [stage EXCEPT ![p] = to]

Unpaid(p) == p \in credited => MayAbandon

-----------------------------------------------------------------------------
Issue(p) ==
    /\ Move(p, "NONE", "PENDING")
    /\ UNCHANGED <<credited, reversed, tries>>

Confirm(p) ==
    /\ Move(p, "PENDING", "AWAITING_TRANSFER")
    /\ UNCHANGED <<credited, reversed, tries>>

(* Any number of unconfirmed payments lapse at once. *)
Lapse ==
    /\ \E gone \in SUBSET {p \in Payments : stage[p] = "PENDING"} :
         stage' = [p \in Payments |-> IF p \in gone THEN "EXPIRED" ELSE stage[p]]
    /\ UNCHANGED <<credited, reversed, tries>>

Credit(p) ==
    /\ stage[p] = "AWAITING_TRANSFER"
    /\ p \notin credited
    /\ credited' = credited \cup {p}
    /\ UNCHANGED <<stage, reversed, tries>>

Settle(p) ==
    /\ p \in credited
    /\ Move(p, "AWAITING_TRANSFER", "SETTLED")
    /\ UNCHANGED <<credited, reversed, tries>>

Expire(p) ==
    /\ Unpaid(p)
    /\ Move(p, "AWAITING_TRANSFER", "EXPIRED")
    /\ UNCHANGED <<credited, reversed, tries>>

Fail(p) ==
    /\ Unpaid(p)
    /\ tries[p] < MaxTries
    /\ Move(p, "AWAITING_TRANSFER", "FAILED")
    /\ tries' = [tries EXCEPT ![p] = @ + 1]
    /\ UNCHANGED <<credited, reversed>>

Retry(p) ==
    /\ tries[p] < MaxTries
    /\ Move(p, "FAILED", "AWAITING_TRANSFER")
    /\ UNCHANGED <<credited, reversed, tries>>

Refund(p) ==
    /\ p \notin reversed
    /\ Move(p, "SETTLED", "CANCELLED")
    /\ reversed' = reversed \cup {p}
    /\ UNCHANGED <<credited, tries>>

Next ==
    \/ Lapse
    \/ \E p \in Payments :
         \/ Issue(p)
         \/ Confirm(p)
         \/ Credit(p)
         \/ Settle(p)
         \/ Expire(p)
         \/ Fail(p)
         \/ Retry(p)
         \/ Refund(p)

Spec == Init /\ [][Next]_vars

=============================================================================
