------------------------ MODULE RequestHandlers ------------------------
(* The HTTP handlers of internal/handlers that change payments, and the    *)
(* settlement run they start (TriggerSettlement of the transfer engine). A *)
(* handler runs on the goroutine of its request: what it read stays in     *)
(* local variables while other handlers and the workers write.             *)
EXTENDS ServerMemory

workerVars == <<engine, dueAt, sweep>>

-----------------------------------------------------------------------------
InHandler(r, at) == request[r].at = at
Holding(at, p) == [at |-> at, payment |-> p, run |-> None, cents |-> 0]
Settling(at, n, cents) == [at |-> at, payment |-> None, run |-> n, cents |-> cents]

Proceed(r, local) == request' = [request EXCEPT ![r] = local]
Respond(r) == Proceed(r, Idle)

-----------------------------------------------------------------------------
(* A fresh id; the amount and due date of the form have been validated. *)
AdminCreatePaymentRequest(r) ==
    /\ InHandler(r, "idle")
    /\ \E p \in Payments :
         /\ CreatePaymentRequest(p)
         /\ Proceed(r, Holding("announceCreated", p))
    /\ UNCHANGED workerVars

(* PayPage, PayMethodPage and ConfirmPayment read a PENDING row past its *)
(* due date: they will expire it.                                        *)
OpenOverdue(r) ==
    /\ InHandler(r, "idle")
    /\ \E p \in OverduePending : Proceed(r, Holding("expire", p))
    /\ UNCHANGED <<storeVars, workerVars>>

ExpirePending(r) ==
    /\ InHandler(r, "expire")
    /\ UpdatePaymentStatus(request[r].payment, "PENDING", "EXPIRED")
    /\ Respond(r)
    /\ UNCHANGED workerVars

ExpirePendingTooLate(r) ==
    /\ InHandler(r, "expire")
    /\ status[request[r].payment] # "PENDING"
    /\ Respond(r)
    /\ UNCHANGED <<storeVars, workerVars>>

(* ConfirmPayment: a valid form, a row read as PENDING and in time, and a  *)
(* random outcome in the payer's favour (the other outcome writes nothing).*)
ConfirmPayment(r) ==
    /\ InHandler(r, "idle")
    /\ \E p \in Payments :
         /\ status[p] = "PENDING"
         /\ ~overdue[p]
         /\ Proceed(r, Holding("confirm", p))
    /\ UNCHANGED <<storeVars, workerVars>>

ConfirmIntent(r) ==
    /\ InHandler(r, "confirm")
    /\ ConfirmPaymentIntent(request[r].payment)
    /\ Proceed(r, Holding("announceConfirmed", request[r].payment))
    /\ UNCHANGED workerVars

ConfirmIntentTooLate(r) ==
    /\ InHandler(r, "confirm")
    /\ status[request[r].payment] # "PENDING"
    /\ Respond(r)
    /\ UNCHANGED <<storeVars, workerVars>>

-----------------------------------------------------------------------------
AdminRefundPaymentRequest(r) ==
    /\ InHandler(r, "idle")
    /\ \E p \in Payments :
         /\ status[p] = "SETTLED"
         /\ Proceed(r, Holding("refund", p))
    /\ UNCHANGED <<storeVars, workerVars>>

Refund(r) ==
    /\ InHandler(r, "refund")
    /\ RefundSettledPayment(request[r].payment)
    /\ Proceed(r, Holding("announceRefunded", request[r].payment))
    /\ UNCHANGED workerVars

(* Slip: the error of the refund is ignored. *)
RefundRefusalIgnored(r) ==
    /\ InHandler(r, "refund")
    /\ status[request[r].payment] # "SETTLED"
    /\ Proceed(r, Holding("announceRefunded", request[r].payment))
    /\ UNCHANGED <<storeVars, workerVars>>

(* The unique index or the status condition rolls the refund back. *)
RefundRefused(r) ==
    /\ InHandler(r, "refund")
    /\ \/ status[request[r].payment] # "SETTLED"
       \/ Posted("REVERSAL", request[r].payment)
    /\ Respond(r)
    /\ UNCHANGED <<storeVars, workerVars>>

(* The dashboard expires overdue rows too, and drops their ids. *)
AdminDashboard ==
    /\ OverduePending # {}
    /\ \E ids \in OverdueBatches : ExpireOverduePendingPayments(ids)
    /\ UNCHANGED memoryVars

-----------------------------------------------------------------------------
(* TriggerSettlement, statement by statement. *)

TriggerSettlement(r) ==
    /\ InHandler(r, "idle")
    /\ \E n \in Settlements :
         /\ CreateSettlement(n)
         /\ Proceed(r, Settling("readBalance", n, 0))
    /\ UNCHANGED workerVars

(* operating := GetWalletByType(OPERATING), used by the next statements. *)
ReadOperating(r) ==
    /\ InHandler(r, "readBalance")
    /\ Proceed(r, IF balance["OPERATING"] <= 0
                    THEN Settling("completeEmpty", request[r].run, 0)
                    ELSE Settling("post", request[r].run, balance["OPERATING"]))
    /\ UNCHANGED <<storeVars, workerVars>>

PostSettlement(r) ==
    /\ InHandler(r, "post")
    /\ RunSettlement(request[r].run, request[r].cents)
    /\ Proceed(r, [request[r] EXCEPT !.at = "complete"])
    /\ UNCHANGED <<paymentVars, overdue, settlement, emitted, workerVars>>

CompleteRun(r) ==
    /\ InHandler(r, "complete")
    /\ CompleteSettlement(request[r].run, request[r].cents, "SUCCESS")
    /\ Proceed(r, [request[r] EXCEPT !.at = "announceCompleted"])
    /\ UNCHANGED workerVars

CompleteEmptyRun(r) ==
    /\ InHandler(r, "completeEmpty")
    /\ CompleteSettlement(request[r].run, 0, "SUCCESS")
    /\ Respond(r)
    /\ UNCHANGED workerVars

CompleteFailedRun(r) ==
    /\ InHandler(r, "completeFailed")
    /\ CompleteSettlement(request[r].run, 0, "FAILED")
    /\ Respond(r)
    /\ UNCHANGED workerVars

-----------------------------------------------------------------------------
Notice == [announceCreated |-> "created", announceConfirmed |-> "confirmed",
           announceRefunded |-> "refunded", announceCompleted |-> "completed"]

Subject(r) == IF InHandler(r, "announceCompleted") THEN request[r].run
                                                   ELSE request[r].payment

AnnounceRequest(r) ==
    /\ request[r].at \in DOMAIN Notice
    /\ EnqueueWebhook(Notice[request[r].at], Subject(r))
    /\ Respond(r)
    /\ UNCHANGED workerVars

(* Slip: the run is completed although nothing was posted. *)
SettlementFailureIgnored(r) ==
    /\ "dberror" \in Faults
    /\ request[r].at \in {"readBalance", "post"}
    /\ Proceed(r, [request[r] EXCEPT !.at = "complete"])
    /\ UNCHANGED <<storeVars, workerVars>>

(* The wallet cannot be read or the posting fails: the run is FAILED. *)
SettlementFails(r) ==
    /\ "dberror" \in Faults
    /\ request[r].at \in {"readBalance", "post"}
    /\ Proceed(r, Settling("completeFailed", request[r].run, 0))
    /\ UNCHANGED <<storeVars, workerVars>>

(* Any other failed statement ends the handler, or its error is dropped:   *)
(* also the read of the new run before the wallet, which leaves it RUNNING.*)
RequestFails(r) ==
    /\ "dberror" \in Faults
    /\ request[r].at \notin {"idle", "post"}
    /\ Respond(r)
    /\ UNCHANGED <<storeVars, workerVars>>

(* The client goes away: every later statement sees a cancelled context. *)
RequestDropped(r) ==
    /\ "disconnect" \in Faults
    /\ ~InHandler(r, "idle")
    /\ Respond(r)
    /\ UNCHANGED <<storeVars, workerVars>>

-----------------------------------------------------------------------------
RequestStep(r) ==
    \/ AdminCreatePaymentRequest(r)
    \/ OpenOverdue(r)
    \/ ExpirePending(r)
    \/ ExpirePendingTooLate(r)
    \/ ConfirmPayment(r)
    \/ ConfirmIntent(r)
    \/ ConfirmIntentTooLate(r)
    \/ AdminRefundPaymentRequest(r)
    \/ Refund(r)
    \/ RefundRefused(r)
    \/ TriggerSettlement(r)
    \/ ReadOperating(r)
    \/ PostSettlement(r)
    \/ CompleteRun(r)
    \/ CompleteEmptyRun(r)
    \/ CompleteFailedRun(r)
    \/ AnnounceRequest(r)

RequestFault(r) == SettlementFails(r) \/ RequestFails(r) \/ RequestDropped(r)

=============================================================================
