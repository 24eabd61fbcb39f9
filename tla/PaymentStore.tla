------------------------- MODULE PaymentStore -------------------------
(* The tables payment_requests, settlements and webhook_outbox with the    *)
(* statements of internal/models/store.go that write them. The pool holds  *)
(* one connection and every statement or transaction is atomic, so each    *)
(* operation is one operator: true when the operation takes effect. The    *)
(* outbox is seen from its producers: how often an event was enqueued.     *)
EXTENDS Ledger

CONSTANTS
    None,       \* no payment, no settlement run, no due time
    Faults,     \* which faults of the environment may happen
    SweepLimit  \* how many overdue rows one sweep expires

ASSUME StoreAssumption ==
    /\ None \notin Payments \cup Settlements \cup Nat
    /\ Faults \subseteq {"crash", "dberror", "disconnect"}
    /\ SweepLimit \in Nat \ {0}

VARIABLES
    status,       \* payment_requests.status, "NONE" before the INSERT
    retryCount,   \* payment_requests.retry_count
    processedAt,  \* whether payment_requests.processed_at is set
    overdue,      \* whether the clock has passed payment_requests.due_date
    settlement,   \* rows of settlements
    emitted       \* number of webhook_outbox rows, by event and reference

paymentVars == <<status, retryCount, processedAt>>
storeVars   == <<ledgerVars, paymentVars, overdue, settlement, emitted>>

-----------------------------------------------------------------------------
Statuses == {"NONE", "PENDING", "AWAITING_TRANSFER", "SETTLED", "FAILED",
             "CANCELLED", "EXPIRED"}
SettlementStatuses == {"NONE", "RUNNING", "SUCCESS", "FAILED"}
PaymentEvents == {"created", "confirmed", "expired", "settled", "failed", "refunded"}
EventKeys == (PaymentEvents \X Payments) \cup ({"completed"} \X Settlements)

StoreInit ==
    /\ EnsureDefaultWallets
    /\ status = [p \in Payments |-> "NONE"]
    /\ retryCount = [p \in Payments |-> 0]
    /\ processedAt = [p \in Payments |-> FALSE]
    /\ overdue = [p \in Payments |-> FALSE]
    /\ settlement = [n \in Settlements |-> [status |-> "NONE", cents |-> 0]]
    /\ emitted = [k \in EventKeys |-> 0]

-----------------------------------------------------------------------------
(* payment_requests. *)

CreatePaymentRequest(p) ==
    /\ status[p] = "NONE"
    /\ status' = [status EXCEPT ![p] = "PENDING"]
    /\ UNCHANGED <<ledgerVars, retryCount, processedAt, settlement, overdue, emitted>>

(* Slip: the status is not checked again inside the transaction. *)
ConfirmUnchecked(p) ==
    /\ status' = [status EXCEPT ![p] = "AWAITING_TRANSFER"]
    /\ pending' = pending + Amount[p]
    /\ UNCHANGED <<entries, balance, retryCount, processedAt, settlement, overdue, emitted>>

ConfirmPaymentIntent(p) ==
    /\ status[p] = "PENDING"
    /\ status' = [status EXCEPT ![p] = "AWAITING_TRANSFER"]
    /\ pending' = pending + Amount[p]
    /\ UNCHANGED <<entries, balance, retryCount, processedAt, settlement, overdue, emitted>>

(* The rows MarkPaymentSettledIdempotent touches and GetAwaitingTransfers *)
(* returns.                                                               *)
Unprocessed(p) == status[p] = "AWAITING_TRANSFER" /\ ~processedAt[p]

MarkPaymentSettledIdempotent(p) ==
    /\ Unprocessed(p)
    /\ status' = [status EXCEPT ![p] = "SETTLED"]
    /\ processedAt' = [processedAt EXCEPT ![p] = TRUE]
    /\ UNCHANGED <<ledgerVars, retryCount, settlement, overdue, emitted>>

GetAwaitingTransfers == {p \in Payments : Unprocessed(p)}

(* Slip: the expired money stays pending. *)
ExpireWithoutRelease(p) ==
    /\ status[p] = "AWAITING_TRANSFER"
    /\ status' = [status EXCEPT ![p] = "EXPIRED"]
    /\ UNCHANGED <<ledgerVars, retryCount, processedAt, settlement, overdue, emitted>>

ExpireAwaitingTransfer(p) ==
    /\ status[p] = "AWAITING_TRANSFER"
    /\ status' = [status EXCEPT ![p] = "EXPIRED"]
    /\ pending' = Released(Amount[p])
    /\ UNCHANGED <<entries, balance, retryCount, processedAt, settlement, overdue, emitted>>

UpdatePaymentStatus(p, from, to) ==
    /\ status[p] = from
    /\ status' = [status EXCEPT ![p] = to]
    /\ UNCHANGED <<ledgerVars, retryCount, processedAt, settlement, overdue, emitted>>

(* No condition on the status the row has by now. *)
IncrementRetryAndSetStatus(p, to) ==
    /\ retryCount' = [retryCount EXCEPT ![p] = @ + 1]
    /\ status' = [status EXCEPT ![p] = to]
    /\ UNCHANGED <<ledgerVars, processedAt, settlement, overdue, emitted>>

OverduePending == {p \in Payments : status[p] = "PENDING" /\ overdue[p]}

(* LIMIT: the earliest of them, in an order this model leaves open. *)
OverdueBatches ==
    {ids \in SUBSET OverduePending :
       IF Cardinality(OverduePending) <= SweepLimit THEN ids = OverduePending
                                                    ELSE Cardinality(ids) = SweepLimit}

(* One transaction reads a batch of overdue rows and expires them. *)
ExpireOverduePendingPayments(ids) ==
    /\ ids \in OverdueBatches
    /\ status' = [p \in Payments |-> IF p \in ids THEN "EXPIRED" ELSE status[p]]
    /\ UNCHANGED <<ledgerVars, retryCount, processedAt, settlement, overdue, emitted>>

(* The ledger service commits the postings and the new status together. *)
RefundSettledPayment(p) ==
    /\ status[p] = "SETTLED"
    /\ RefundPostings(p)
    /\ status' = [status EXCEPT ![p] = "CANCELLED"]
    /\ UNCHANGED <<retryCount, processedAt, settlement, overdue, emitted>>

-----------------------------------------------------------------------------
(* settlements. *)

CreateSettlement(n) ==
    /\ settlement[n].status = "NONE"
    /\ settlement' = [settlement EXCEPT ![n].status = "RUNNING"]
    /\ UNCHANGED <<ledgerVars, paymentVars, overdue, emitted>>

CompleteSettlement(n, cents, to) ==
    /\ settlement' = [settlement EXCEPT ![n] = [status |-> to, cents |-> cents]]
    /\ UNCHANGED <<ledgerVars, paymentVars, overdue, emitted>>

-----------------------------------------------------------------------------
(* webhook_outbox, and the clock. *)

EnqueueWebhook(event, ref) ==
    /\ emitted' = [emitted EXCEPT ![<<event, ref>>] = @ + 1]
    /\ UNCHANGED <<ledgerVars, paymentVars, settlement, overdue>>

(* Due dates end a day and are never in the past when a request is made. *)
DueDatePasses(p) ==
    /\ status[p] # "NONE"
    /\ ~overdue[p]
    /\ overdue' = [overdue EXCEPT ![p] = TRUE]
    /\ UNCHANGED <<ledgerVars, paymentVars, settlement, emitted>>

=============================================================================
