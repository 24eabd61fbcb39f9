------------------------- MODULE GatewayTotals -------------------------
(* Correctness properties of the running system that add up money. *)
EXTENDS GatewayProperties, FiniteSetsExt

Cents(rows) == MapThenSumSet(LAMBDA e : e.cents, rows)
AmountOf(ps) == MapThenSumSet(LAMBDA p : Amount[p], ps)

-----------------------------------------------------------------------------
(* wallets.balance_cents is kept beside the ledger, never computed from it: *)
(* through every rolled back, refused and repeated posting each balance is  *)
(* the debits of its wallet less the credits.                               *)
BalancesMatchLedger ==
    \A w \in Wallets :
      balance[w] = Cents({e \in entries : e.wallet = w /\ e.direction = "DR"})
                 - Cents({e \in entries : e.wallet = w /\ e.direction = "CR"})

Uncredited(st) == {p \in Payments : status[p] = st /\ ~Credited(p)}

(* Money on its way: confirmed, neither arrived nor expired, and an engine   *)
(* will still try to move it.                                                *)
InFlight == Uncredited("AWAITING_TRANSFER") \cup {p \in Uncredited("FAILED") : Retried(p)}

(* Money no engine will ever move: the transfer FAILED for the last time, or *)
(* a fault stranded it as FAILED. Nothing in the code releases its pending.  *)
GivenUp == {p \in Uncredited("FAILED") : ~Retried(p)}

(* Without faults the pending figure of the dashboard accounts for every     *)
(* confirmed payment to the cent: the money in flight, and the money of the  *)
(* payments given up, which stays in the figure for good.                    *)
PendingExact == pending = AmountOf(InFlight) + AmountOf(GivenUp)

(* With faults the figure may fall short (a payment credited and then expired*)
(* is released twice) but claims no money beyond these two: none of payments *)
(* that arrived, expired or were never confirmed.                            *)
PendingIsAccounted == pending <= AmountOf(InFlight) + AmountOf(GivenUp)

(* The balance is read in one statement and moved in a later one, so runs    *)
(* that overlap may each sweep out the same payments; but however engine,    *)
(* refunds, runs and faults interleave, the total swept out is at most what  *)
(* came in, times the requests that can overlap. It bounds totals: only with *)
(* one request slot does it say that no payment is swept out twice.          *)
SettlementsBackedByPayments ==
    LET moved(type) == Cents({e \in entries : e.wallet = "OPERATING" /\ e.type = type})
    IN  moved("SETTLEMENT") <= Cardinality(Requests) * moved("PAYMENT_IN")

=============================================================================
