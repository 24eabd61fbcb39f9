-------------------------- MODULE DoubleEntry --------------------------
(* What the ledger promises: a journal that only grows, one entry per kind *)
(* and reference, whose sum is the operating position; a payment comes in  *)
(* once with its amount, and only what came in can be reversed, once.      *)
EXTENDS Integers

CONSTANTS
    Payments,
    Settlements,
    Amount        \* cents of each payment

VARIABLES
    book,     \* journal entries [kind, ref, cents]
    position  \* their sum, settlements and reversals counting negative

Init ==
    /\ book = {}
    /\ position = 0

Entered(kind, ref) == \E j \in book : j.kind = kind /\ j.ref = ref

Enter(kind, ref, cents, delta) ==
    /\ ~Entered(kind, ref)
    /\ cents > 0
    /\ book' = book \cup {[kind |-> kind, ref |-> ref, cents |-> cents]}
    /\ position' = position + delta

PayIn(p)   == Enter("PAYMENT_IN", p, Amount[p], Amount[p])
Reverse(p) == Entered("PAYMENT_IN", p) /\ Enter("REVERSAL", p, Amount[p], -Amount[p])

(* Any amount may be settled: the entry that appears says which. *)
Settle(n) ==
    \E cents \in {j.cents : j \in book'} : Enter("SETTLEMENT", n, cents, -cents)

Next ==
    \/ \E p \in Payments : PayIn(p) \/ Reverse(p)
    \/ \E n \in Settlements : Settle(n)

Spec == Init /\ [][Next]_<<book, position>>

=============================================================================
