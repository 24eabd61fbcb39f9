------------------------ MODULE TransferEngine ------------------------
(* The background workers of a server process that move payments: the      *)
(* transfer engine of internal/transfer/engine.go and the expiry sweep of  *)
(* cmd/server/main.go. Between two statements of a worker the handlers and *)
(* the workers of other processes write the database.                      *)
EXTENDS ServerMemory

-----------------------------------------------------------------------------
At(s, at) == engine[s].at = at
GoTo(s, at) == engine' = [engine EXCEPT ![s].at = at]

(* The payment at hand is done: clearDue, and the next one of the batch. *)
Finish(s) ==
    /\ dueAt' = [dueAt EXCEPT ![s][engine[s].payment] = None]
    /\ engine' = [engine EXCEPT
         ![s] = IF engine[s].todo = {} THEN IdleEngine
                ELSE [@ EXCEPT !.at = "pick", !.payment = None]]

-----------------------------------------------------------------------------
(* getOrCreateDue for every row read, with the `now` of this tick. *)
Delays(s, rows) ==
    {d \in [Payments -> (0 .. MaxDelayTicks) \cup {None}] :
       \A p \in Payments :
         CASE dueAt[s][p] = None /\ p \in rows    -> d[p] \in 1 .. MaxDelayTicks
           [] dueAt[s][p] = None /\ p \notin rows -> d[p] = None
           [] dueAt[s][p] = 0                     -> d[p] = 0
           [] OTHER                               -> d[p] = dueAt[s][p] - 1}

(* The ticker fires: the rows and their retry counts are read here, those  *)
(* not due yet are skipped, the others are worked on one after the other.  *)
processAwaiting(s) ==
    /\ At(s, "idle")
    /\ dueAt' \in {[dueAt EXCEPT ![s] = d] : d \in Delays(s, GetAwaitingTransfers)}
    /\ LET due == {p \in GetAwaitingTransfers : dueAt'[s][p] = 0}
       IN engine' = [engine EXCEPT
            ![s] = IF due = {} THEN IdleEngine
                   ELSE [at |-> "pick", payment |-> None, todo |-> due,
                         seen |-> [p \in Payments |->
                                     IF p \in due THEN retryCount[p] ELSE 0]]]
    /\ UNCHANGED <<storeVars, sweep, request>>

(* processOne reads the clock, then asks the rail, which answers at once. *)
processOne(s) ==
    /\ At(s, "pick")
    /\ \E p \in engine[s].todo :
         \E at \in (IF overdue[p] THEN {"expire"} ELSE {"post", "fail"}) :
           engine' = [engine EXCEPT
             ![s] = [at |-> at, payment |-> p, todo |-> engine[s].todo \ {p},
                     seen |-> engine[s].seen]]
    /\ UNCHANGED <<storeVars, dueAt, sweep, request>>

-----------------------------------------------------------------------------
ExpireTransfer(s) ==
    /\ At(s, "expire")
    /\ ExpireAwaitingTransfer(engine[s].payment)
    /\ GoTo(s, "announceExpired")
    /\ UNCHANGED <<dueAt, sweep, request>>

ExpireTransferTooLate(s) ==
    /\ At(s, "expire")
    /\ status[engine[s].payment] # "AWAITING_TRANSFER"
    /\ Finish(s)
    /\ UNCHANGED <<storeVars, sweep, request>>

(* The rail moved the money: post it. *)
PostTransfer(s) ==
    /\ At(s, "post")
    /\ ClearPendingEscrowToOperating(engine[s].payment)
    /\ GoTo(s, "mark")
    /\ UNCHANGED <<paymentVars, settlement, overdue, emitted, dueAt, sweep, request>>

(* Slip: any error of the posting passes for one of the unique index. *)
PostTransferAnyError(s) ==
    /\ At(s, "post")
    /\ GoTo(s, "mark")
    /\ UNCHANGED <<storeVars, dueAt, sweep, request>>

(* The unique index refuses the rows: the posting was made before. *)
PostTransferAgain(s) ==
    /\ At(s, "post")
    /\ Posted("PAYMENT_IN", engine[s].payment)
    /\ GoTo(s, "mark")
    /\ UNCHANGED <<storeVars, dueAt, sweep, request>>

(* Slip: a settled payment is not announced. *)
MarkSilently(s) ==
    /\ At(s, "mark")
    /\ MarkPaymentSettledIdempotent(engine[s].payment)
    /\ Finish(s)
    /\ UNCHANGED <<sweep, request>>

MarkTransfer(s) ==
    /\ At(s, "mark")
    /\ MarkPaymentSettledIdempotent(engine[s].payment)
    /\ GoTo(s, "announceSettled")
    /\ UNCHANGED <<dueAt, sweep, request>>

MarkTransferAgain(s) ==
    /\ At(s, "mark")
    /\ ~Unprocessed(engine[s].payment)
    /\ Finish(s)
    /\ UNCHANGED <<storeVars, sweep, request>>

FailTransfer(s) ==
    /\ At(s, "fail")
    /\ IncrementRetryAndSetStatus(engine[s].payment, "FAILED")
    /\ GoTo(s, "announceFailed")
    /\ UNCHANGED <<dueAt, sweep, request>>

(* Slip: one retry too many. *)
MayRetryOnceMore(s) == engine[s].seen[engine[s].payment] + 1 <= MaxRetries

(* Slip: one retry too few. *)
MayRetryOnceLess(s) == engine[s].seen[engine[s].payment] + 2 < MaxRetries

(* newRetry < 3, with the retry count the scan read. *)
MayRetry(s) == engine[s].seen[engine[s].payment] + 1 < MaxRetries

RequeueTransfer(s) ==
    /\ At(s, "requeue")
    /\ UpdatePaymentStatus(engine[s].payment, "FAILED", "AWAITING_TRANSFER")
    /\ Finish(s)
    /\ UNCHANGED <<sweep, request>>

RequeueTransferTooLate(s) ==
    /\ At(s, "requeue")
    /\ status[engine[s].payment] # "FAILED"
    /\ Finish(s)
    /\ UNCHANGED <<storeVars, sweep, request>>

-----------------------------------------------------------------------------
(* The webhook of the outcome; a failed transfer may then be requeued. *)
AfterAnnouncement(s) ==
    IF At(s, "announceFailed") /\ MayRetry(s)
      THEN GoTo(s, "requeue") /\ UNCHANGED dueAt
      ELSE Finish(s)

Outcome == [announceSettled |-> "settled", announceExpired |-> "expired",
            announceFailed |-> "failed"]

Announce(s) ==
    /\ engine[s].at \in DOMAIN Outcome
    /\ EnqueueWebhook(Outcome[engine[s].at], engine[s].payment)
    /\ AfterAnnouncement(s)
    /\ UNCHANGED <<sweep, request>>

(* The error of EnqueueWebhook is discarded. *)
AnnouncementLost(s) ==
    /\ "dberror" \in Faults
    /\ engine[s].at \in DOMAIN Outcome
    /\ AfterAnnouncement(s)
    /\ UNCHANGED <<storeVars, sweep, request>>

(* A statement of the database fails for good: processOne returns. *)
StatementFails(s) ==
    /\ "dberror" \in Faults
    /\ engine[s].at \in {"expire", "post", "mark", "fail", "requeue"}
    /\ Finish(s)
    /\ UNCHANGED <<storeVars, sweep, request>>

-----------------------------------------------------------------------------
(* The sweep of main.go: one transaction, then one webhook per id. *)
expireOverduePayments(s) ==
    /\ sweep[s] = {}
    /\ OverduePending # {}
    /\ \E ids \in OverdueBatches :
         /\ ExpireOverduePendingPayments(ids)
         /\ sweep' = [sweep EXCEPT ![s] = ids]
    /\ UNCHANGED <<engine, dueAt, request>>

AnnounceSwept(s) ==
    /\ \E p \in sweep[s] :
         /\ EnqueueWebhook("expired", p)
         /\ sweep' = [sweep EXCEPT ![s] = @ \ {p}]
    /\ UNCHANGED <<engine, dueAt, request>>

SweptLost(s) ==
    /\ "dberror" \in Faults
    /\ \E p \in sweep[s] : sweep' = [sweep EXCEPT ![s] = @ \ {p}]
    /\ UNCHANGED <<storeVars, engine, dueAt, request>>

-----------------------------------------------------------------------------
TransferStep(s) ==
    \/ processAwaiting(s)
    \/ processOne(s)
    \/ ExpireTransfer(s)
    \/ ExpireTransferTooLate(s)
    \/ PostTransfer(s)
    \/ PostTransferAgain(s)
    \/ MarkTransfer(s)
    \/ MarkTransferAgain(s)
    \/ FailTransfer(s)
    \/ RequeueTransfer(s)
    \/ RequeueTransferTooLate(s)
    \/ Announce(s)

SweepStep(s) == expireOverduePayments(s) \/ AnnounceSwept(s)

WorkerFault(s) == AnnouncementLost(s) \/ StatementFails(s) \/ SweptLost(s)

=============================================================================
