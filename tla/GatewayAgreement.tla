------------------------ MODULE GatewayAgreement ------------------------
(* Proofs that the tables agree with each other: settlement runs with the    *)
(* ledger on any number of servers; on one server the payments with the      *)
(* ledger, with the abstract life of a payment and with the webhooks sent.   *)
EXTENDS GatewayCredit

-----------------------------------------------------------------------------
(* Settlement runs. *)

(* What the rows of a ledger say a run has moved. *)
Moved(rows, n) == {e.cents : e \in {f \in rows : f.type = "SETTLEMENT" /\ f.ref = n}}

(* Where the handler of a run stands before it has posted, and until its row *)
(* is completed.                                                             *)
Unposted == {"readBalance", "post", "completeEmpty", "completeFailed"}
OpenRun == Unposted \cup {"complete"}

RowMatches(n, row) ==
    /\ row.status = "SUCCESS" /\ row.cents > 0 => Moved(entries, n) = {row.cents}
    /\ row.status = "SUCCESS" /\ row.cents = 0 => Moved(entries, n) = {}
    /\ row.status \in {"NONE", "FAILED"} => Moved(entries, n) = {}

HandlerMatches(local) ==
    /\ local.at \in OpenRun => settlement[local.run].status = "RUNNING"
    /\ local.at \in Unposted => Moved(entries, local.run) = {}
    /\ local.at = "complete" => local.cents > 0 /\ Moved(entries, local.run) = {local.cents}

(* A handler owns the run it has opened: its row is RUNNING, no other handler*)
(* completes it, and the ledger has exactly what the handler has posted.     *)
RunInv ==
    /\ \A n \in Settlements : RowMatches(n, settlement[n])
    /\ \A r \in Requests : HandlerMatches(request[r])
    /\ \A r, q \in Requests :
         /\ request[r].at \in OpenRun
         /\ request[q].at \in OpenRun
         /\ request[r].run = request[q].run
         => r = q

RunSafe == TypeOK /\ RunInv

LEMMA OpenRunHeld ==
  ASSUME TypeOK, NEW r \in Requests, request[r].at \in OpenRun
  PROVE  request[r].run \in Settlements /\ request[r].cents \in Int
BY HandlerHolds DEF TypeOK, OpenRun, Unposted, HoldingRun

(* A step that neither writes a run's row nor posts for one, and opens none. *)
LEMMA RunsKept ==
  ASSUME RunSafe, UNCHANGED settlement,
         \A n \in Settlements : Moved(entries', n) = Moved(entries, n),
         \A r \in Requests : request'[r] = request[r] \/ request'[r].at \notin OpenRun
  PROVE  RunInv'
<1> USE DEF RunSafe
<1>1. \A r \in Requests : request[r].at \in OpenRun => request[r].run \in Settlements
  BY OpenRunHeld
<1>2. (\A n \in Settlements : RowMatches(n, settlement[n]))'
  BY DEF RunInv, RowMatches
<1>3. (\A r \in Requests : HandlerMatches(request[r]))'
  BY <1>1 DEF RunInv, HandlerMatches, OpenRun
<1> QED BY <1>2, <1>3 DEF RunInv

(* A handler that goes on with the run it holds; its row and the ledger stay.*)
LEMMA RunGoesOn ==
  ASSUME RunSafe, UNCHANGED <<settlement, entries>>, NEW r \in Requests, NEW local,
         request[r].at \in Unposted, local.at \in Unposted, local.run = request[r].run,
         Proceed(r, local)
  PROVE  RunInv'
<1> USE DEF RunSafe
<1>1. request \in [Requests -> RequestLocals]
  BY DEF TypeOK, MemoryTypeOK
<1>2. \A q \in Requests : request'[q] = IF q = r THEN local ELSE request[q]
  BY <1>1 DEF Proceed
<1>3. (\A n \in Settlements : RowMatches(n, settlement[n]))'
  BY DEF RunInv, RowMatches
<1>4. (\A q \in Requests : HandlerMatches(request[q]))'
  BY <1>2 DEF RunInv, HandlerMatches, OpenRun, Unposted
<1> QED BY <1>2, <1>3, <1>4 DEF RunInv, OpenRun

LEMMA TriggerRun ==
  ASSUME RunSafe, NEW r \in Requests, TriggerSettlement(r)
  PROVE  RunInv'
<1> USE DEF RunSafe
<1>0. /\ request \in [Requests -> RequestLocals]
      /\ settlement \in [Settlements -> [status : SettlementStatuses, cents : Int]]
  BY DEF TypeOK, MemoryTypeOK, StoreTypeOK
<1>1. PICK n \in Settlements :
        CreateSettlement(n) /\ Proceed(r, Settling("readBalance", n, 0))
  BY DEF TriggerSettlement
<1>2. \A m \in Settlements : m # n => settlement'[m] = settlement[m]
  BY <1>0, <1>1 DEF CreateSettlement
<1>3. settlement[n].status = "NONE" /\ settlement'[n].status = "RUNNING"
  BY <1>0, <1>1 DEF CreateSettlement
<1>4. \A q \in Requests : q # r => request'[q] = request[q]
  BY <1>0, <1>1 DEF Proceed
<1>5. request'[r].at = "readBalance" /\ request'[r].run = n
  BY <1>0, <1>1 DEF Proceed, Settling
<1>6. \A q \in Requests : request[q].at \in OpenRun => request[q].run # n
  BY <1>3 DEF RunInv, HandlerMatches
<1>7. Moved(entries, n) = {} /\ UNCHANGED entries
  BY <1>1, <1>3 DEF RunInv, RowMatches, CreateSettlement, ledgerVars
<1>8. (\A m \in Settlements : RowMatches(m, settlement[m]))'
  BY <1>2, <1>3, <1>7 DEF RunInv, RowMatches
<1>9. (\A q \in Requests : HandlerMatches(request[q]))'
  <2> SUFFICES ASSUME NEW q \in Requests PROVE HandlerMatches(request[q])'
    OBVIOUS
  <2>1. CASE q = r
    BY <1>3, <1>5, <1>7, <2>1 DEF HandlerMatches
  <2>2. CASE q # r /\ request[q].at \in OpenRun
    <3>1. request[q].run \in Settlements
      BY <2>2, OpenRunHeld
    <3> QED BY <1>2, <1>4, <1>6, <1>7, <2>2, <3>1 DEF RunInv, HandlerMatches
  <2>3. CASE q # r /\ request[q].at \notin OpenRun
    BY <1>4, <2>3 DEF HandlerMatches, OpenRun
  <2> QED BY <2>1, <2>2, <2>3
<1> QED BY <1>4, <1>5, <1>6, <1>8, <1>9 DEF RunInv

(* A posting adds the amount of its run to what the ledger says of that run. *)
LEMMA MovedByPosting ==
  ASSUME NEW n, NEW cents, RunSettlement(n, cents)
  PROVE  /\ Moved(entries', n) = Moved(entries, n) \cup {cents}
         /\ \A m : m # n => Moved(entries', m) = Moved(entries, m)
         /\ cents > 0
<1> DEFINE dr == Entry("ESCROW", "DR", "SETTLEMENT", n, cents)
           cr == Entry("OPERATING", "CR", "SETTLEMENT", n, cents)
<1>1. entries' = entries \cup {dr, cr} /\ Insertable(dr)
  BY DEF RunSettlement, postInTx
<1>2. /\ dr.type = "SETTLEMENT" /\ dr.ref = n /\ dr.cents = cents
      /\ cr.type = "SETTLEMENT" /\ cr.ref = n /\ cr.cents = cents
  BY DEF Entry
<1> HIDE DEF dr, cr
<1>3. cents > 0
  BY <1>1, <1>2 DEF Insertable
<1>4. Moved(entries', n) = Moved(entries, n) \cup {cents}
  BY <1>1, <1>2 DEF Moved
<1>5. \A m : m # n => Moved(entries', m) = Moved(entries, m)
  BY <1>1, <1>2 DEF Moved
<1> QED BY <1>3, <1>4, <1>5

LEMMA PostRun ==
  ASSUME RunSafe, NEW r \in Requests, PostSettlement(r)
  PROVE  RunInv'
<1> DEFINE n == request[r].run
           local == [request[r] EXCEPT !.at = "complete"]
<1> USE DEF RunSafe
<1>0. request \in [Requests -> RequestLocals]
  BY DEF TypeOK, MemoryTypeOK
<1>1. /\ request[r].at = "post" /\ RunSettlement(n, request[r].cents)
      /\ UNCHANGED settlement /\ Proceed(r, local)
  BY DEF PostSettlement, InHandler
<1>2. n \in Settlements
  BY <1>1, OpenRunHeld DEF OpenRun, Unposted
<1>3. \A q \in Requests : q # r => request'[q] = request[q]
  BY <1>0, <1>1 DEF Proceed
<1>4. /\ request'[r].at = "complete" /\ request'[r].run = n
      /\ request'[r].cents = request[r].cents
  BY <1>0, <1>1 DEF Proceed, RequestLocals
<1>5. /\ Moved(entries', n) = Moved(entries, n) \cup {request[r].cents}
      /\ \A m : m # n => Moved(entries', m) = Moved(entries, m)
      /\ request[r].cents > 0
  BY <1>1, MovedByPosting
<1>6. settlement[n].status = "RUNNING" /\ Moved(entries, n) = {}
  BY <1>1 DEF RunInv, HandlerMatches, OpenRun, Unposted
<1>7. \A q \in Requests : q # r /\ request[q].at \in OpenRun => request[q].run # n
  BY <1>1 DEF RunInv, OpenRun, Unposted
<1>8. (\A m \in Settlements : RowMatches(m, settlement[m]))'
  BY <1>1, <1>5, <1>6 DEF RunInv, RowMatches
<1>9. (\A q \in Requests : HandlerMatches(request[q]))'
  BY <1>1, <1>3, <1>4, <1>5, <1>6, <1>7 DEF RunInv, HandlerMatches, OpenRun, Unposted
<1> QED BY <1>1, <1>3, <1>4, <1>7, <1>8, <1>9 DEF RunInv, OpenRun, Unposted


(* A handler completes the row of its run as it goes, and no longer holds it.*)
LEMMA RowCompleted ==
  ASSUME RunSafe, NEW r \in Requests, request[r].at \in OpenRun, NEW cents \in Int, NEW to,
         CompleteSettlement(request[r].run, cents, to), NEW local,
         Proceed(r, local), local.at \notin OpenRun,
         RowMatches(request[r].run, [status |-> to, cents |-> cents])
  PROVE  RunInv'
<1> DEFINE n == request[r].run
<1> USE DEF RunSafe
<1>0. /\ request \in [Requests -> RequestLocals] /\ n \in Settlements
      /\ settlement \in [Settlements -> [status : SettlementStatuses, cents : Int]]
  BY OpenRunHeld DEF TypeOK, MemoryTypeOK, StoreTypeOK
<1>1. /\ settlement'[n] = [status |-> to, cents |-> cents]
      /\ \A m \in Settlements : m # n => settlement'[m] = settlement[m]
      /\ UNCHANGED entries
  BY <1>0 DEF CompleteSettlement, ledgerVars
<1>2. \A q \in Requests : request'[q] = IF q = r THEN local ELSE request[q]
  BY <1>0 DEF Proceed
<1>3. \A q \in Requests : q # r /\ request[q].at \in OpenRun =>
        request[q].run # n /\ request[q].run \in Settlements
  BY OpenRunHeld DEF RunInv
<1>4. (\A m \in Settlements : RowMatches(m, settlement[m]))'
  BY <1>1 DEF RunInv, RowMatches
<1>5. (\A q \in Requests : HandlerMatches(request[q]))'
  BY <1>1, <1>2, <1>3 DEF RunInv, HandlerMatches, OpenRun
<1> QED BY <1>2, <1>4, <1>5 DEF RunInv

LEMMA CompleteKeepsRuns ==
  ASSUME RunSafe, NEW r \in Requests,
         CompleteRun(r) \/ CompleteEmptyRun(r) \/ CompleteFailedRun(r)
  PROVE  RunInv'
<1> DEFINE n == request[r].run
           local == [request[r] EXCEPT !.at = "announceCompleted"]
<1>0. TypeOK /\ request[r] \in RequestLocals
  BY DEF RunSafe, TypeOK, MemoryTypeOK
<1>1. Idle.at \notin OpenRun /\ local.at \notin OpenRun
  BY <1>0 DEF Idle, OpenRun, Unposted, RequestLocals
<1>2. request[r].at \in OpenRun /\ n \in Settlements /\ request[r].cents \in Int
  BY <1>0, OpenRunHeld
  DEF CompleteRun, CompleteEmptyRun, CompleteFailedRun, InHandler, OpenRun, Unposted
<1>3. HandlerMatches(request[r])
  BY DEF RunSafe, RunInv
<1>4. CASE CompleteRun(r)
  <2>1. RowMatches(n, [status |-> "SUCCESS", cents |-> request[r].cents])
    BY <1>2, <1>3, <1>4 DEF CompleteRun, InHandler, HandlerMatches, RowMatches
  <2>2. CompleteSettlement(n, request[r].cents, "SUCCESS") /\ Proceed(r, local)
    BY <1>4 DEF CompleteRun
  <2> HIDE DEF local
  <2> QED BY <1>1, <1>2, <2>1, <2>2, RowCompleted
<1>5. CASE CompleteEmptyRun(r)
  <2>1. RowMatches(n, [status |-> "SUCCESS", cents |-> 0])
    BY <1>3, <1>5 DEF CompleteEmptyRun, InHandler, HandlerMatches, RowMatches, Unposted
  <2>2. CompleteSettlement(n, 0, "SUCCESS") /\ Proceed(r, Idle)
    BY <1>5 DEF CompleteEmptyRun, Respond
  <2> QED BY <1>1, <1>2, <2>1, <2>2, RowCompleted
<1>6. CASE CompleteFailedRun(r)
  <2>1. RowMatches(n, [status |-> "FAILED", cents |-> 0])
    BY <1>3, <1>6 DEF CompleteFailedRun, InHandler, HandlerMatches, RowMatches, Unposted
  <2>2. CompleteSettlement(n, 0, "FAILED") /\ Proceed(r, Idle)
    BY <1>6 DEF CompleteFailedRun, Respond
  <2> QED BY <1>1, <1>2, <2>1, <2>2, RowCompleted
<1> QED BY <1>4, <1>5, <1>6

(* The postings of payments move nothing for a run. *)
LEMMA MovedKept ==
  ASSUME NEW p \in Payments,
         UNCHANGED entries \/ ClearPendingEscrowToOperating(p) \/ RefundSettledPayment(p)
  PROVE  \A n \in Settlements : Moved(entries', n) = Moved(entries, n)
<1>1. ASSUME NEW dr, NEW cr, entries' = entries \cup {dr, cr},
             dr.type # "SETTLEMENT", cr.type # "SETTLEMENT"
      PROVE  \A n \in Settlements : Moved(entries', n) = Moved(entries, n)
  BY <1>1 DEF Moved
<1>2. CASE ClearPendingEscrowToOperating(p)
  BY <1>1, <1>2 DEF ClearPendingEscrowToOperating, postInTx, Entry
<1>3. CASE RefundSettledPayment(p)
  BY <1>1, <1>3 DEF RefundSettledPayment, RefundPostings, postInTx, Entry
<1> QED BY <1>2, <1>3 DEF Moved

LEMMA WorkersKeepRuns ==
  ASSUME RunSafe, NEW s \in Servers,
         TransferStep(s) \/ SweepStep(s) \/ WorkerFault(s) \/ Crash(s)
  PROVE  RunInv'
<1>0. TypeOK
  BY DEF RunSafe
<1>1. UNCHANGED settlement
  BY DEF TransferStep, processAwaiting, processOne, ExpireTransfer,
     ExpireTransferTooLate, PostTransfer, PostTransferAgain, MarkTransfer,
     MarkTransferAgain, FailTransfer, RequeueTransfer, RequeueTransferTooLate, Announce,
     ExpireAwaitingTransfer, MarkPaymentSettledIdempotent, IncrementRetryAndSetStatus,
     UpdatePaymentStatus, EnqueueWebhook, SweepStep, expireOverduePayments,
     ExpireOverduePendingPayments, AnnounceSwept, WorkerFault, AnnouncementLost,
     StatementFails, SweptLost, Crash, storeVars
<1>2. \A r \in Requests : request'[r] = request[r] \/ request'[r].at \notin OpenRun
  <2>1. CASE UNCHANGED request
    BY <2>1
  <2>2. CASE Crash(s)
    BY <2>2 DEF Crash, Idle, OpenRun, Unposted
  <2> QED
    BY <2>1, <2>2 DEF TransferStep, processAwaiting, processOne, ExpireTransfer,
       ExpireTransferTooLate, PostTransfer, PostTransferAgain, MarkTransfer,
       MarkTransferAgain, FailTransfer, RequeueTransfer, RequeueTransferTooLate, Announce,
       SweepStep, expireOverduePayments, AnnounceSwept, WorkerFault, AnnouncementLost,
       StatementFails, SweptLost
<1>3. \A n \in Settlements : Moved(entries', n) = Moved(entries, n)
  <2>1. CASE PostTransfer(s)
    <3>1. engine[s].payment \in Payments
      BY <1>0, <2>1, EngineHolds DEF TypeOK, PostTransfer, At, EngineWorking
    <3> QED BY <2>1, <3>1, MovedKept DEF PostTransfer
  <2>2. CASE ~PostTransfer(s)
    <3>1. UNCHANGED entries
      BY <2>2 DEF TransferStep, processAwaiting, processOne, ExpireTransfer,
         ExpireTransferTooLate, PostTransferAgain, MarkTransfer, MarkTransferAgain,
         FailTransfer, RequeueTransfer, RequeueTransferTooLate, Announce,
         ExpireAwaitingTransfer, MarkPaymentSettledIdempotent,
         IncrementRetryAndSetStatus, UpdatePaymentStatus, EnqueueWebhook, SweepStep,
         expireOverduePayments, ExpireOverduePendingPayments, AnnounceSwept, WorkerFault,
         AnnouncementLost, StatementFails, SweptLost, Crash, storeVars, ledgerVars
    <3> QED BY <3>1 DEF Moved
  <2> QED BY <2>1, <2>2
<1> QED BY <1>1, <1>2, <1>3, RunsKept


LEMMA HandlersKeepRuns ==
  ASSUME RunSafe, NEW r \in Requests, RequestStep(r) \/ RequestFault(r)
  PROVE  RunInv'
<1>0. TypeOK /\ request \in [Requests -> RequestLocals]
  BY DEF RunSafe, TypeOK, MemoryTypeOK
<1>i. Idle.at \notin OpenRun
  BY DEF Idle, OpenRun, Unposted
<1>q. ASSUME NEW local, Proceed(r, local), local.at \notin OpenRun,
             UNCHANGED settlement,
             \A n \in Settlements : Moved(entries', n) = Moved(entries, n)
      PROVE  RunInv'
  <2>1. \A q \in Requests : request'[q] = IF q = r THEN local ELSE request[q]
    BY <1>0, <1>q DEF Proceed
  <2> QED BY <1>q, <2>1, RunsKept
<1>h. ASSUME NEW at, NEW p, at \notin OpenRun PROVE Holding(at, p).at \notin OpenRun
  BY <1>h DEF Holding
<1>1. CASE TriggerSettlement(r) \/ PostSettlement(r)
  BY <1>1, TriggerRun, PostRun
<1>2. CASE CompleteRun(r) \/ CompleteEmptyRun(r) \/ CompleteFailedRun(r)
  BY <1>2, CompleteKeepsRuns
<1>3. CASE ReadOperating(r)
  <2>1. UNCHANGED <<settlement, entries>> /\ request[r].at \in Unposted
    BY <1>3 DEF ReadOperating, InHandler, Unposted, storeVars, ledgerVars
  <2>2. PICK local \in {Settling("completeEmpty", request[r].run, 0),
                        Settling("post", request[r].run, balance["OPERATING"])} :
          Proceed(r, local)
    BY <1>3 DEF ReadOperating
  <2>3. local.at \in Unposted /\ local.run = request[r].run
    BY <2>2 DEF Settling, Unposted
  <2> QED BY <2>1, <2>2, <2>3, RunGoesOn
<1>4. CASE SettlementFails(r)
  <2> DEFINE local == Settling("completeFailed", request[r].run, 0)
  <2>1. UNCHANGED <<settlement, entries>> /\ request[r].at \in Unposted
    BY <1>4 DEF SettlementFails, Unposted, storeVars, ledgerVars
  <2>2. Proceed(r, local) /\ local.at \in Unposted /\ local.run = request[r].run
    BY <1>4 DEF SettlementFails, Settling, Unposted
  <2> HIDE DEF local
  <2> QED BY <2>1, <2>2, RunGoesOn
<1>5. CASE RequestFails(r) \/ RequestDropped(r) \/ AnnounceRequest(r)
           \/ ExpirePending(r) \/ ExpirePendingTooLate(r) \/ ConfirmIntentTooLate(r)
           \/ RefundRefused(r)
  <2>1. UNCHANGED <<settlement, entries>> /\ Proceed(r, Idle)
    BY <1>5 DEF RequestFails, RequestDropped, AnnounceRequest, EnqueueWebhook,
       ExpirePending, ExpirePendingTooLate, ConfirmIntentTooLate, RefundRefused,
       UpdatePaymentStatus, Respond, storeVars, ledgerVars
  <2> QED BY <1>i, <1>q, <2>1 DEF Moved
<1>6. CASE AdminCreatePaymentRequest(r) \/ OpenOverdue(r) \/ ConfirmPayment(r)
           \/ ConfirmIntent(r) \/ AdminRefundPaymentRequest(r)
  <2>1. UNCHANGED <<settlement, entries>>
    BY <1>6 DEF AdminCreatePaymentRequest, OpenOverdue, ConfirmPayment, ConfirmIntent,
       AdminRefundPaymentRequest, CreatePaymentRequest, ConfirmPaymentIntent, storeVars,
       ledgerVars
  <2>2. \E at \in HoldingPayment : \E p : Proceed(r, Holding(at, p))
    BY <1>6 DEF AdminCreatePaymentRequest, OpenOverdue, ConfirmPayment, ConfirmIntent,
       AdminRefundPaymentRequest, HoldingPayment
  <2>3. \A at \in HoldingPayment : at \notin OpenRun
    BY DEF HoldingPayment, OpenRun, Unposted
  <2> QED BY <1>h, <1>q, <2>1, <2>2, <2>3 DEF Moved
<1>7. CASE Refund(r)
  <2>1. request[r].payment \in Payments
    BY <1>0, <1>7, HandlerHolds DEF TypeOK, Refund, InHandler, HoldingPayment
  <2>2. UNCHANGED settlement /\ RefundSettledPayment(request[r].payment)
    BY <1>7 DEF Refund, RefundSettledPayment
  <2>3. Proceed(r, Holding("announceRefunded", request[r].payment))
    BY <1>7 DEF Refund
  <2>4. "announceRefunded" \notin OpenRun
    BY DEF OpenRun, Unposted
  <2>5. \A n \in Settlements : Moved(entries', n) = Moved(entries, n)
    BY <2>1, <2>2, MovedKept
  <2> QED BY <1>h, <1>q, <2>2, <2>3, <2>4, <2>5
<1> QED
  BY <1>1, <1>2, <1>3, <1>4, <1>5, <1>6, <1>7 DEF RequestStep, RequestFault

LEMMA InitRuns == Init => RunSafe
<1> SUFFICES ASSUME Init PROVE RunSafe
  OBVIOUS
<1>1. entries = {} /\ settlement = [n \in Settlements |-> [status |-> "NONE", cents |-> 0]]
  BY DEF Init, StoreInit, EnsureDefaultWallets
<1>2. \A r \in Requests : request[r].at = "idle"
  BY DEF Init, MemoryInit, Idle
<1>3. \A n : Moved(entries, n) = {}
  BY <1>1 DEF Moved
<1> QED
  BY <1>1, <1>2, <1>3, InitTypes DEF RunSafe, RunInv, RowMatches, HandlerMatches, OpenRun, Unposted

LEMMA NextRuns == RunSafe /\ [Next]_vars => RunSafe'
<1> SUFFICES ASSUME RunSafe, [Next]_vars PROVE RunSafe'
  OBVIOUS
<1>1. TypeOK'
  BY NextTypes DEF RunSafe
<1>2. ASSUME UNCHANGED <<settlement, entries, request>> PROVE RunInv'
  BY <1>2, RunsKept DEF Moved
<1>3. ASSUME AdminDashboard \/ Clock \/ UNCHANGED vars PROVE RunInv'
  BY <1>2, <1>3 DEF AdminDashboard, ExpireOverduePendingPayments, Clock, DueDatePasses,
     vars, memoryVars, ledgerVars
<1>4. RunInv'
  BY <1>3, WorkersKeepRuns, HandlersKeepRuns DEF Next
<1> QED BY <1>1, <1>4 DEF RunSafe

(* On any number of servers, whatever statement of a run fails and whoever   *)
(* is cut off: a completed run reports exactly what the ledger has moved for *)
(* it, and a FAILED run moved nothing. A handler owns its run, and between   *)
(* its posting and the completion of the row it remembers what it posted.    *)
THEOREM SettlementsMatch == Spec => []SettlementMatchesLedger
<1>1. Init => RunSafe BY InitRuns
<1>2. RunSafe /\ [Next]_vars => RunSafe' BY NextRuns
<1>3. RunSafe => SettlementMatchesLedger
  BY DEF RunSafe, RunInv, RowMatches, Moved, SettlementMatchesLedger
<1> QED BY <1>1, <1>2, <1>3, PTL DEF Spec


-----------------------------------------------------------------------------
(* Payments on one server process. *)

(* With a second server a stale engine may fail a payment that another one   *)
(* has settled, as the run replicas_regress shows: what follows is about one.*)
OneServer == \A s, t \in Servers : s = t

PaymentInv ==
    \A p \in Payments :
      /\ processedAt[p] => status[p] \in {"SETTLED", "CANCELLED"}
      /\ status[p] \in {"NONE", "PENDING"} => retryCount[p] = 0
      /\ status[p] = "AWAITING_TRANSFER" => retryCount[p] < MaxRetries
      /\ Reversed(p) => status[p] = "CANCELLED"

(* What the engine has read of the rows of its batch is still so: nobody else*)
(* moves a payment that awaits its transfer or has failed.                   *)
BatchOK(local) ==
    /\ \A q \in local.todo :
         status[q] = "AWAITING_TRANSFER" /\ local.seen[q] = retryCount[q]
    /\ local.at \in EngineWorking => local.payment \notin local.todo
    /\ local.at \in {"expire", "post", "mark", "fail"} =>
         /\ status[local.payment] = "AWAITING_TRANSFER"
         /\ local.seen[local.payment] = retryCount[local.payment]
    /\ local.at \in {"announceFailed", "requeue"} =>
         /\ status[local.payment] = "FAILED"
         /\ retryCount[local.payment] = local.seen[local.payment] + 1
    /\ local.at = "requeue" => retryCount[local.payment] < MaxRetries

BatchInv == \A s \in Servers : BatchOK(engine[s])

(* Without faults the engine marks what it has posted before it does anything*)
(* else: no payment is left credited and unsettled.                          *)
CreditedIsMarked ==
    \A p \in Payments :
      Credited(p) /\ status[p] \notin {"SETTLED", "CANCELLED"} =>
        /\ status[p] = "AWAITING_TRANSFER"
        /\ \E s \in Servers : engine[s].at = "mark" /\ engine[s].payment = p

LifeInv ==
    /\ CreditInv
    /\ PaymentInv
    /\ BatchInv
    /\ Faults = {} => CreditedIsMarked

LifeStep == [Lifecycle!Next]_(Lifecycle!vars)

(* The sets of the abstract specification change as the ledger does. *)
LEMMA SameMoney ==
  ASSUME \A p \in Payments : /\ Credited(p)' <=> Credited(p)
                             /\ Reversed(p)' <=> Reversed(p)
  PROVE  UNCHANGED <<{p \in Payments : Credited(p)}, {p \in Payments : Reversed(p)}>>
OBVIOUS

LEMMA NoPosting ==
  ASSUME UNCHANGED entries
  PROVE  \A p : /\ Credited(p)' <=> Credited(p)
                /\ Reversed(p)' <=> Reversed(p)
BY DEF Credited, Reversed, Posted

(* An abstract step never leaves SETTLED but for CANCELLED, counts the       *)
(* retries and knows what is reversed: it keeps what is said of a payment.   *)
LEMMA LifeKeepsPayments ==
  ASSUME LifeInv, LifeStep, TypeOK',
         \A p \in Payments : processedAt'[p] => processedAt[p] \/ status'[p] = "SETTLED"
  PROVE  PaymentInv'
<1>0. /\ TypeOK /\ PaymentInv
      /\ status \in [Payments -> Statuses]
      /\ retryCount \in [Payments -> Nat]
      /\ MaxRetries \in Nat \ {0}
  BY MemoryAssumption DEF LifeInv, CreditInv, TypeOK, StoreTypeOK
<1>1. ASSUME UNCHANGED <<status, retryCount>>,
             \A p \in Payments : Reversed(p)' <=> Reversed(p)
      PROVE  PaymentInv'
  BY <1>0, <1>1 DEF PaymentInv
<1>2. CASE UNCHANGED Lifecycle!vars
  BY <1>1, <1>2 DEF Lifecycle!vars
<1>r. ASSUME UNCHANGED {p \in Payments : Reversed(p)}
      PROVE  \A p \in Payments : Reversed(p)' <=> Reversed(p)
  <2> SUFFICES ASSUME NEW p \in Payments PROVE Reversed(p)' <=> Reversed(p)
    OBVIOUS
  <2>1. Reversed(p) <=> p \in {q \in Payments : Reversed(q)}
    OBVIOUS
  <2>2. Reversed(p)' <=> p \in {q \in Payments : Reversed(q)}'
    OBVIOUS
  <2> QED BY <1>r, <2>1, <2>2
<1>3. CASE Lifecycle!Lapse
  BY <1>0, <1>3, <1>r DEF Lifecycle!Lapse, PaymentInv
<1>4. ASSUME NEW p \in Payments,
             Lifecycle!Issue(p) \/ Lifecycle!Confirm(p) \/ Lifecycle!Settle(p)
               \/ Lifecycle!Expire(p) \/ Lifecycle!Retry(p)
      PROVE  PaymentInv'
  BY <1>0, <1>4, <1>r DEF Lifecycle!Issue, Lifecycle!Confirm, Lifecycle!Settle,
     Lifecycle!Expire, Lifecycle!Retry, Lifecycle!Move, PaymentInv
<1>5. ASSUME NEW p \in Payments, Lifecycle!Credit(p)
      PROVE  PaymentInv'
  BY <1>0, <1>5, <1>r, <1>1 DEF Lifecycle!Credit
<1>6. ASSUME NEW p \in Payments, Lifecycle!Fail(p)
      PROVE  PaymentInv'
  BY <1>0, <1>6, <1>r DEF Lifecycle!Fail, Lifecycle!Move, PaymentInv
<1>7. ASSUME NEW p \in Payments, Lifecycle!Refund(p)
      PROVE  PaymentInv'
  <2>1. \A q \in Payments : Reversed(q)' => Reversed(q) \/ q = p
    <3> SUFFICES ASSUME NEW q \in Payments, Reversed(q)' PROVE Reversed(q) \/ q = p
      OBVIOUS
    <3>1. q \in {x \in Payments : Reversed(x)}'
      OBVIOUS
    <3>2. q \in {x \in Payments : Reversed(x)} \cup {p}
      BY <1>7, <3>1 DEF Lifecycle!Refund
    <3> QED BY <3>2
  <2> QED BY <1>0, <1>7, <2>1 DEF Lifecycle!Refund, Lifecycle!Move, PaymentInv
<1> QED
  BY <1>2, <1>3, <1>4, <1>5, <1>6, <1>7 DEF LifeStep, Lifecycle!Next

(* The goal of every step. *)
LifeKept == LifeStep /\ BatchInv' /\ (Faults = {} => CreditedIsMarked')

(* A step of anybody but the engine leaves its batch as it was read. *)
LEMMA OutsiderKeeps ==
  ASSUME LifeInv, UNCHANGED <<engine, retryCount>>,
         \A p \in Payments :
           /\ status[p] \in {"AWAITING_TRANSFER", "FAILED"} => status'[p] = status[p]
           /\ status[p] \in {"SETTLED", "CANCELLED"} => status'[p] \in {"SETTLED", "CANCELLED"}
           /\ Credited(p)' <=> Credited(p)
  PROVE  BatchInv' /\ (Faults = {} => CreditedIsMarked')
<1>0. TypeOK
  BY DEF LifeInv, CreditInv
<1>1. \A s \in Servers : engine[s].todo \subseteq Payments
  BY <1>0 DEF TypeOK, MemoryTypeOK, EngineLocals
<1>2. \A s \in Servers : engine[s].at \in EngineWorking => engine[s].payment \in Payments
  BY <1>0, EngineHolds DEF TypeOK
<1>3. BatchInv'
  <2> SUFFICES ASSUME NEW s \in Servers PROVE BatchOK(engine[s])'
    BY DEF BatchInv
  <2>1. BatchOK(engine[s])
    BY DEF LifeInv, BatchInv
  <2> QED BY <1>1, <1>2, <2>1 DEF BatchOK, EngineWorking
<1>4. ASSUME Faults = {} PROVE CreditedIsMarked'
  <2>1. CreditedIsMarked
    BY <1>4 DEF LifeInv
  <2> SUFFICES ASSUME NEW p \in Payments, Credited(p)',
                      status'[p] \notin {"SETTLED", "CANCELLED"}
               PROVE  /\ status'[p] = "AWAITING_TRANSFER"
                      /\ \E s \in Servers : engine'[s].at = "mark" /\ engine'[s].payment = p
    BY DEF CreditedIsMarked
  <2>2. Credited(p) /\ status[p] \notin {"SETTLED", "CANCELLED"}
    OBVIOUS
  <2> QED BY <2>1, <2>2 DEF CreditedIsMarked
<1> QED BY <1>3, <1>4

(* What one server's engine holds is all that engines hold. *)
LEMMA OneEngine ==
  ASSUME OneServer, NEW s \in Servers
  PROVE  /\ BatchOK(engine[s])' => BatchInv'
         /\ CreditedIsMarked => \A p \in Payments :
              Credited(p) /\ status[p] \notin {"SETTLED", "CANCELLED"} =>
                /\ status[p] = "AWAITING_TRANSFER"
                /\ engine[s].at = "mark" /\ engine[s].payment = p
BY DEF OneServer, BatchInv, CreditedIsMarked

(* The engine goes on to the next payment of its batch. *)
LEMMA FinishBatch ==
  ASSUME LifeInv, NEW s \in Servers, Finish(s), engine[s].at \in EngineWorking,
         \A q \in Payments \ {engine[s].payment} :
           status'[q] = status[q] /\ retryCount'[q] = retryCount[q]
  PROVE  BatchOK(engine[s])'
<1>0. /\ engine \in [Servers -> EngineLocals]
      /\ engine[s].todo \subseteq Payments
      /\ BatchOK(engine[s])
  BY DEF LifeInv, CreditInv, TypeOK, MemoryTypeOK, EngineLocals, BatchInv
<1>1. engine'[s].at \in {"idle", "pick"} /\ engine'[s].todo = engine[s].todo
  BY <1>0 DEF Finish, IdleEngine, EngineLocals
<1>2. engine'[s].todo # {} => engine'[s].seen = engine[s].seen
  BY <1>0 DEF Finish, IdleEngine, EngineLocals
<1>3. engine'[s].at \notin EngineWorking
  BY <1>1 DEF EngineWorking
<1>4. \A q \in engine'[s].todo :
        status'[q] = "AWAITING_TRANSFER" /\ engine'[s].seen[q] = retryCount'[q]
  BY <1>0, <1>1, <1>2 DEF BatchOK
<1> QED BY <1>1, <1>3, <1>4 DEF BatchOK

(* The engine goes on with the payment at hand. *)
LEMMA GoToBatch ==
  ASSUME LifeInv, NEW s \in Servers, NEW at, GoTo(s, at), engine[s].at \in EngineWorking,
         \A q \in Payments \ {engine[s].payment} :
           status'[q] = status[q] /\ retryCount'[q] = retryCount[q],
         at \in {"expire", "post", "mark", "fail"} =>
           /\ status'[engine[s].payment] = "AWAITING_TRANSFER"
           /\ engine[s].seen[engine[s].payment] = retryCount'[engine[s].payment],
         at \in {"announceFailed", "requeue"} =>
           /\ status'[engine[s].payment] = "FAILED"
           /\ retryCount'[engine[s].payment] = engine[s].seen[engine[s].payment] + 1,
         at = "requeue" => retryCount'[engine[s].payment] < MaxRetries
  PROVE  BatchOK(engine[s])'
<1>0. /\ engine \in [Servers -> EngineLocals]
      /\ engine[s].todo \subseteq Payments
      /\ BatchOK(engine[s])
  BY DEF LifeInv, CreditInv, TypeOK, MemoryTypeOK, EngineLocals, BatchInv
<1>1. /\ engine'[s].at = at
      /\ engine'[s].payment = engine[s].payment
      /\ engine'[s].todo = engine[s].todo
      /\ engine'[s].seen = engine[s].seen
  BY <1>0 DEF GoTo, EngineLocals
<1>2. engine[s].payment \notin engine[s].todo
  BY <1>0 DEF BatchOK
<1>3. \A q \in engine'[s].todo :
        status'[q] = "AWAITING_TRANSFER" /\ engine'[s].seen[q] = retryCount'[q]
  BY <1>0, <1>1, <1>2 DEF BatchOK
<1> QED BY <1>1, <1>2, <1>3 DEF BatchOK


LEMMA QuietLife ==
  ASSUME UNCHANGED <<status, retryCount, entries>>
  PROVE  LifeStep
BY NoPosting, SameMoney DEF LifeStep, Lifecycle!vars

(* With the engine elsewhere than at its mark, every credited payment is     *)
(* settled, and stays so.                                                    *)
LEMMA NothingUnmarked ==
  ASSUME LifeInv, OneServer, NEW s \in Servers, engine[s].at # "mark", Faults = {}
  PROVE  /\ \A p \in Payments : Credited(p) => status[p] \in {"SETTLED", "CANCELLED"}
         /\ (\A p \in Payments :
               /\ Credited(p)' <=> Credited(p)
               /\ status[p] \in {"SETTLED", "CANCELLED"} => status'[p] = status[p])
            => CreditedIsMarked'
<1>1. \A p \in Payments : Credited(p) => status[p] \in {"SETTLED", "CANCELLED"}
  BY OneEngine DEF LifeInv
<1> QED BY <1>1 DEF CreditedIsMarked

LEMMA ScanLife ==
  ASSUME LifeInv, OneServer, NEW s \in Servers, processAwaiting(s)
  PROVE  LifeKept
<1>0. engine \in [Servers -> EngineLocals]
  BY DEF LifeInv, CreditInv, TypeOK, MemoryTypeOK
<1>1. UNCHANGED <<status, retryCount, entries>> /\ engine[s].at = "idle"
  BY DEF processAwaiting, At, storeVars, ledgerVars, paymentVars
<1>2. /\ engine'[s].at \in {"idle", "pick"}
      /\ \A q \in engine'[s].todo : status[q] = "AWAITING_TRANSFER"
                                    /\ engine'[s].seen[q] = retryCount[q]
  <2> DEFINE due == {p \in GetAwaitingTransfers : dueAt'[s][p] = 0}
             next == IF due = {} THEN IdleEngine
                     ELSE [at |-> "pick", payment |-> None, todo |-> due,
                           seen |-> [p \in Payments |->
                                       IF p \in due THEN retryCount[p] ELSE 0]]
  <2>1. engine'[s] = next
    BY <1>0 DEF processAwaiting
  <2>2. \A q \in due : q \in Payments /\ status[q] = "AWAITING_TRANSFER"
    BY DEF GetAwaitingTransfers, Unprocessed
  <2> HIDE DEF due
  <2>3. CASE due = {}
    BY <2>1, <2>3 DEF IdleEngine
  <2>4. CASE due # {}
    BY <2>1, <2>2, <2>4
  <2> QED BY <2>3, <2>4
<1>3. BatchOK(engine[s])'
  BY <1>1, <1>2 DEF BatchOK, EngineWorking
<1>4. ASSUME Faults = {} PROVE CreditedIsMarked'
  BY <1>1, <1>4, NoPosting, NothingUnmarked
<1> QED BY <1>1, <1>3, <1>4, QuietLife, OneEngine DEF LifeKept

LEMMA PickLife ==
  ASSUME LifeInv, OneServer, NEW s \in Servers, processOne(s)
  PROVE  LifeKept
<1>0. /\ engine \in [Servers -> EngineLocals]
      /\ BatchOK(engine[s])
  BY DEF LifeInv, CreditInv, TypeOK, MemoryTypeOK, BatchInv
<1>1. UNCHANGED <<status, retryCount, entries>> /\ engine[s].at = "pick"
  BY DEF processOne, At, storeVars, ledgerVars, paymentVars
<1>2. PICK p \in engine[s].todo, at \in {"expire", "post", "fail"} :
        engine' = [engine EXCEPT
          ![s] = [at |-> at, payment |-> p, todo |-> engine[s].todo \ {p},
                  seen |-> engine[s].seen]]
  BY DEF processOne
<1>3. engine'[s] = [at |-> at, payment |-> p, todo |-> engine[s].todo \ {p},
                    seen |-> engine[s].seen]
  BY <1>0, <1>2
<1>4. BatchOK(engine[s])'
  BY <1>0, <1>1, <1>3 DEF BatchOK
<1>5. ASSUME Faults = {} PROVE CreditedIsMarked'
  BY <1>1, <1>5, NoPosting, NothingUnmarked
<1> QED BY <1>1, <1>4, <1>5, QuietLife, OneEngine DEF LifeKept

LEMMA PostLife ==
  ASSUME LifeInv, OneServer, NEW s \in Servers,
         PostTransfer(s) \/ PostTransferAgain(s)
  PROVE  LifeKept
<1> DEFINE p == engine[s].payment
<1>0. /\ TypeOK /\ StoreInv
      /\ BatchOK(engine[s])
      /\ engine[s].at = "post" /\ engine[s].at \in EngineWorking
      /\ UNCHANGED <<status, retryCount>>
      /\ GoTo(s, "mark")
  BY DEF LifeInv, CreditInv, BatchInv, PostTransfer, PostTransferAgain, At, EngineWorking,
     storeVars, paymentVars
<1>1. p \in Payments /\ status[p] = "AWAITING_TRANSFER"
  BY <1>0, EngineHolds DEF TypeOK, BatchOK
<1>2. BatchOK(engine[s])'
  BY <1>0, <1>1, GoToBatch DEF BatchOK
<1>3. engine'[s].at = "mark" /\ engine'[s].payment = p
  BY <1>0 DEF GoTo, TypeOK, MemoryTypeOK, EngineLocals
<1>4. CASE PostTransferAgain(s)
  <2>1. UNCHANGED entries
    BY <1>4 DEF PostTransferAgain, storeVars, ledgerVars
  <2>2. ASSUME Faults = {} PROVE CreditedIsMarked'
    BY <1>0, <2>1, <2>2, NoPosting, NothingUnmarked
  <2> QED BY <1>0, <1>2, <2>1, <2>2, QuietLife, OneEngine DEF LifeKept
<1>5. CASE PostTransfer(s)
  <2> DEFINE dr == Entry("OPERATING", "DR", "PAYMENT_IN", p, Amount[p])
             cr == Entry("ESCROW", "CR", "SIMULATION", p, Amount[p])
  <2>1. entries' = entries \cup {dr, cr} /\ Insertable(dr)
    BY <1>5 DEF PostTransfer, ClearPendingEscrowToOperating, postInTx
  <2>2. /\ dr.type = "PAYMENT_IN" /\ dr.ref = p /\ cr.type = "SIMULATION"
        /\ dr.wallet = "OPERATING" /\ dr.direction = "DR"
    BY DEF Entry
  <2> HIDE DEF dr, cr
  <2>3. ~Credited(p)
    BY <1>0, <2>1, <2>2 DEF Credited, Posted, Insertable, SameIndexKey, StoreInv, RowShape
  <2>4. \A q \in Payments : /\ Credited(q)' <=> Credited(q) \/ q = p
                            /\ Reversed(q)' <=> Reversed(q)
    BY <2>1, <2>2 DEF Credited, Reversed, Posted
  <2>5. Lifecycle!Credit(p)
    BY <1>0, <1>1, <2>3, <2>4 DEF Lifecycle!Credit
  <2>6. ASSUME Faults = {} PROVE CreditedIsMarked'
    <3>1. \A q \in Payments : Credited(q) => status[q] \in {"SETTLED", "CANCELLED"}
      BY <1>0, <2>6, NothingUnmarked
    <3> QED BY <1>0, <1>1, <1>3, <2>4, <3>1 DEF CreditedIsMarked
  <2> QED BY <1>1, <1>2, <2>5, <2>6, OneEngine DEF LifeKept, LifeStep, Lifecycle!Next
<1> QED BY <1>4, <1>5


LEMMA ExpireLife ==
  ASSUME LifeInv, OneServer, NEW s \in Servers,
         ExpireTransfer(s) \/ ExpireTransferTooLate(s)
  PROVE  LifeKept
<1> DEFINE p == engine[s].payment
<1>0. /\ TypeOK /\ BatchOK(engine[s])
      /\ engine[s].at = "expire" /\ engine[s].at \in EngineWorking
  BY DEF LifeInv, CreditInv, BatchInv, ExpireTransfer, ExpireTransferTooLate, At,
     EngineWorking
<1>1. p \in Payments /\ status[p] = "AWAITING_TRANSFER"
  BY <1>0, EngineHolds DEF TypeOK, BatchOK
<1>2. ExpireTransfer(s)
  BY <1>1 DEF ExpireTransferTooLate
<1>3. /\ status' = [status EXCEPT ![p] = "EXPIRED"]
      /\ UNCHANGED <<entries, retryCount>>
      /\ GoTo(s, "announceExpired")
  BY <1>2 DEF ExpireTransfer, ExpireAwaitingTransfer
<1>4. \A q \in Payments \ {p} : status'[q] = status[q]
  BY <1>0, <1>3 DEF TypeOK, StoreTypeOK
<1>5. BatchOK(engine[s])'
  BY <1>0, <1>3, <1>4, GoToBatch
<1>6. ASSUME Faults = {}
      PROVE  ~Credited(p) /\ CreditedIsMarked'
  BY <1>0, <1>1, <1>3, <1>4, <1>6, NoPosting, NothingUnmarked
<1>7. Lifecycle!Expire(p)
  BY <1>1, <1>3, <1>6, NoPosting, SameMoney
  DEF Lifecycle!Expire, Lifecycle!Move, Lifecycle!Unpaid
<1> QED BY <1>1, <1>5, <1>6, <1>7, OneEngine DEF LifeKept, LifeStep, Lifecycle!Next

LEMMA MarkLife ==
  ASSUME LifeInv, OneServer, NEW s \in Servers, MarkTransfer(s) \/ MarkTransferAgain(s)
  PROVE  LifeKept
<1> DEFINE p == engine[s].payment
<1>0. /\ TypeOK /\ BatchOK(engine[s]) /\ EngineInv /\ PaymentInv
      /\ engine[s].at = "mark" /\ engine[s].at \in EngineWorking
  BY DEF LifeInv, CreditInv, BatchInv, MarkTransfer, MarkTransferAgain, At, EngineWorking
<1>1. p \in Payments /\ status[p] = "AWAITING_TRANSFER" /\ Credited(p)
  BY <1>0, EngineHolds DEF TypeOK, BatchOK, EngineInv
<1>2. MarkTransfer(s)
  BY <1>0, <1>1 DEF MarkTransferAgain, Unprocessed, PaymentInv
<1>3. /\ status' = [status EXCEPT ![p] = "SETTLED"]
      /\ UNCHANGED <<entries, retryCount>>
      /\ GoTo(s, "announceSettled")
  BY <1>2 DEF MarkTransfer, MarkPaymentSettledIdempotent, ledgerVars
<1>4. \A q \in Payments : status'[q] = IF q = p THEN "SETTLED" ELSE status[q]
  BY <1>0, <1>3 DEF TypeOK, StoreTypeOK
<1>5. BatchOK(engine[s])'
  BY <1>0, <1>3, <1>4, GoToBatch
<1>6. ASSUME Faults = {} PROVE CreditedIsMarked'
  <2>1. \A q \in Payments : Credited(q) /\ q # p => status[q] \in {"SETTLED", "CANCELLED"}
    BY <1>6, OneEngine DEF LifeInv
  <2> QED BY <1>3, <1>4, <2>1, NoPosting DEF CreditedIsMarked
<1>7. Lifecycle!Settle(p)
  BY <1>1, <1>3, NoPosting, SameMoney DEF Lifecycle!Settle, Lifecycle!Move
<1> QED BY <1>1, <1>5, <1>6, <1>7, OneEngine DEF LifeKept, LifeStep, Lifecycle!Next

LEMMA FailLife ==
  ASSUME LifeInv, OneServer, NEW s \in Servers, FailTransfer(s)
  PROVE  LifeKept
<1> DEFINE p == engine[s].payment
<1>0. /\ TypeOK /\ BatchOK(engine[s]) /\ PaymentInv
      /\ engine[s].at = "fail" /\ engine[s].at \in EngineWorking
  BY DEF LifeInv, CreditInv, BatchInv, FailTransfer, At, EngineWorking
<1>1. /\ p \in Payments /\ status[p] = "AWAITING_TRANSFER"
      /\ engine[s].seen[p] = retryCount[p] /\ retryCount[p] < MaxRetries
  BY <1>0, EngineHolds DEF TypeOK, BatchOK, PaymentInv
<1>3. /\ status' = [status EXCEPT ![p] = "FAILED"]
      /\ retryCount' = [retryCount EXCEPT ![p] = @ + 1]
      /\ UNCHANGED entries
      /\ GoTo(s, "announceFailed")
  BY DEF FailTransfer, IncrementRetryAndSetStatus, ledgerVars
<1>4. /\ \A q \in Payments \ {p} : status'[q] = status[q] /\ retryCount'[q] = retryCount[q]
      /\ status'[p] = "FAILED" /\ retryCount'[p] = engine[s].seen[p] + 1
  BY <1>0, <1>1, <1>3 DEF TypeOK, StoreTypeOK
<1>5. BatchOK(engine[s])'
  BY <1>0, <1>3, <1>4, GoToBatch
<1>6. ASSUME Faults = {}
      PROVE  ~Credited(p) /\ CreditedIsMarked'
  BY <1>0, <1>1, <1>3, <1>4, <1>6, NoPosting, NothingUnmarked
<1>7. Lifecycle!Fail(p)
  BY <1>1, <1>3, <1>6, NoPosting, SameMoney
  DEF Lifecycle!Fail, Lifecycle!Move, Lifecycle!Unpaid
<1> QED BY <1>1, <1>5, <1>6, <1>7, OneEngine DEF LifeKept, LifeStep, Lifecycle!Next

LEMMA RequeueLife ==
  ASSUME LifeInv, OneServer, NEW s \in Servers,
         RequeueTransfer(s) \/ RequeueTransferTooLate(s)
  PROVE  LifeKept
<1> DEFINE p == engine[s].payment
<1>0. /\ TypeOK /\ BatchOK(engine[s])
      /\ engine[s].at = "requeue" /\ engine[s].at \in EngineWorking
  BY DEF LifeInv, CreditInv, BatchInv, RequeueTransfer, RequeueTransferTooLate, At,
     EngineWorking
<1>1. p \in Payments /\ status[p] = "FAILED" /\ retryCount[p] < MaxRetries
  BY <1>0, EngineHolds DEF TypeOK, BatchOK
<1>2. RequeueTransfer(s)
  BY <1>1 DEF RequeueTransferTooLate
<1>3. /\ status' = [status EXCEPT ![p] = "AWAITING_TRANSFER"]
      /\ UNCHANGED <<entries, retryCount>>
      /\ Finish(s)
  BY <1>2 DEF RequeueTransfer, UpdatePaymentStatus, ledgerVars
<1>4. \A q \in Payments \ {p} : status'[q] = status[q]
  BY <1>0, <1>3 DEF TypeOK, StoreTypeOK
<1>5. BatchOK(engine[s])'
  BY <1>0, <1>3, <1>4, FinishBatch
<1>6. ASSUME Faults = {} PROVE CreditedIsMarked'
  BY <1>0, <1>1, <1>3, <1>4, <1>6, NoPosting, NothingUnmarked
<1>7. Lifecycle!Retry(p)
  BY <1>1, <1>3, NoPosting, SameMoney DEF Lifecycle!Retry, Lifecycle!Move
<1> QED BY <1>1, <1>5, <1>6, <1>7, OneEngine DEF LifeKept, LifeStep, Lifecycle!Next

(* The webhook of an outcome, sent or lost. *)
LEMMA AnnounceLife ==
  ASSUME LifeInv, OneServer, NEW s \in Servers, Announce(s) \/ AnnouncementLost(s)
  PROVE  LifeKept
<1> DEFINE p == engine[s].payment
<1>0. /\ TypeOK /\ BatchOK(engine[s])
      /\ engine[s].at \in {"announceSettled", "announceExpired", "announceFailed"}
      /\ engine[s].at \in EngineWorking
      /\ UNCHANGED <<status, entries, retryCount>>
      /\ AfterAnnouncement(s)
  BY DEF LifeInv, CreditInv, BatchInv, Announce, AnnouncementLost, Outcome, EngineWorking,
     EnqueueWebhook, storeVars, ledgerVars, paymentVars
<1>1. CASE At(s, "announceFailed") /\ MayRetry(s)
  <2>1. GoTo(s, "requeue")
    BY <1>0, <1>1 DEF AfterAnnouncement
  <2>2. /\ status[p] = "FAILED" /\ retryCount[p] = engine[s].seen[p] + 1
        /\ retryCount[p] < MaxRetries
    BY <1>0, <1>1 DEF At, MayRetry, BatchOK
  <2> QED
    BY <1>0, <2>1, <2>2, GoToBatch, QuietLife, NoPosting, NothingUnmarked, OneEngine
    DEF LifeKept
<1>2. CASE ~(At(s, "announceFailed") /\ MayRetry(s))
  <2>1. Finish(s)
    BY <1>0, <1>2 DEF AfterAnnouncement
  <2>2. BatchOK(engine[s])'
    BY <1>0, <2>1, FinishBatch
  <2>3. Faults = {} => CreditedIsMarked'
    BY <1>0, NoPosting, NothingUnmarked
  <2> QED BY <1>0, <2>2, <2>3, QuietLife, OneEngine DEF LifeKept
<1> QED BY <1>1, <1>2


LEMMA WorkerFaultLife ==
  ASSUME LifeInv, OneServer, NEW s \in Servers,
         StatementFails(s) \/ SweptLost(s) \/ Crash(s)
  PROVE  LifeKept
<1>0. /\ engine \in [Servers -> EngineLocals]
      /\ BatchOK(engine[s])
      /\ UNCHANGED <<status, entries, retryCount>>
  BY DEF LifeInv, CreditInv, TypeOK, MemoryTypeOK, BatchInv, StatementFails, SweptLost,
     Crash, storeVars, ledgerVars, paymentVars
<1>1. CASE StatementFails(s)
  <2>1. engine[s].at \in EngineWorking /\ Finish(s) /\ Faults # {}
    BY <1>1 DEF StatementFails, EngineWorking
  <2>2. BatchOK(engine[s])'
    BY <1>0, <2>1, FinishBatch
  <2> QED BY <1>0, <2>1, <2>2, QuietLife, OneEngine DEF LifeKept
<1>2. CASE SweptLost(s)
  BY <1>0, <1>2, QuietLife, NoPosting, OutsiderKeeps DEF SweptLost, LifeKept
<1>3. CASE Crash(s)
  <2>1. engine'[s] = IdleEngine /\ Faults # {}
    BY <1>0, <1>3 DEF Crash
  <2>2. BatchOK(engine[s])'
    BY <2>1 DEF BatchOK, IdleEngine, EngineWorking
  <2> QED BY <1>0, <2>1, <2>2, QuietLife, OneEngine DEF LifeKept
<1> QED BY <1>1, <1>2, <1>3

(* The sweep and the dashboard let overdue payments lapse. *)
LEMMA OverdueLife ==
  ASSUME LifeInv, NEW ids, ExpireOverduePendingPayments(ids), UNCHANGED engine
  PROVE  LifeKept
<1>1. UNCHANGED <<entries, retryCount>>
  BY DEF ExpireOverduePendingPayments, ledgerVars
<1>2. Lifecycle!Lapse
  <2>1. ids \in SUBSET {p \in Payments : status[p] = "PENDING"}
    BY BatchIsOverdue DEF OverduePending
  <2>2. status' = [p \in Payments |-> IF p \in ids THEN "EXPIRED" ELSE status[p]]
    BY DEF ExpireOverduePendingPayments
  <2> QED BY <1>1, <2>1, <2>2, NoPosting, SameMoney DEF Lifecycle!Lapse
<1>3. \A p \in Payments : status'[p] = status[p] \/ status[p] = "PENDING"
  BY BatchIsOverdue DEF ExpireOverduePendingPayments, OverduePending
<1>4. BatchInv' /\ (Faults = {} => CreditedIsMarked')
  BY <1>1, <1>3, NoPosting, OutsiderKeeps
<1> QED BY <1>2, <1>4 DEF LifeKept, LifeStep, Lifecycle!Next

LEMMA HandlerLife ==
  ASSUME LifeInv, NEW r \in Requests, RequestStep(r) \/ RequestFault(r)
  PROVE  LifeKept
<1> DEFINE p == request[r].payment
<1>0. TypeOK /\ PaymentInv /\ status \in [Payments -> Statuses]
  BY DEF LifeInv, CreditInv, TypeOK, StoreTypeOK
<1>e. UNCHANGED engine
  BY DEF RequestStep, RequestFault, workerVars, AdminCreatePaymentRequest, OpenOverdue,
     ExpirePending, ExpirePendingTooLate, ConfirmPayment, ConfirmIntent,
     ConfirmIntentTooLate, AdminRefundPaymentRequest, Refund, RefundRefused,
     TriggerSettlement, ReadOperating, PostSettlement, CompleteRun, CompleteEmptyRun,
     CompleteFailedRun, AnnounceRequest, SettlementFails, RequestFails, RequestDropped
<1>h. request[r].at \in HoldingPayment => p \in Payments
  BY <1>0, HandlerHolds DEF TypeOK
<1>q. ASSUME UNCHANGED <<status, entries, retryCount>> PROVE LifeKept
  BY <1>e, <1>q, QuietLife, NoPosting, OutsiderKeeps DEF LifeKept
<1>1. CASE AdminCreatePaymentRequest(r)
  <2>1. PICK q \in Payments : CreatePaymentRequest(q)
    BY <1>1 DEF AdminCreatePaymentRequest
  <2>2. UNCHANGED <<entries, retryCount>>
    BY <2>1 DEF CreatePaymentRequest, ledgerVars
  <2>3. Lifecycle!Issue(q)
    BY <2>1, <2>2, NoPosting, SameMoney
    DEF CreatePaymentRequest, Lifecycle!Issue, Lifecycle!Move
  <2>4. BatchInv' /\ (Faults = {} => CreditedIsMarked')
    BY <1>0, <1>e, <2>1, <2>2, NoPosting, OutsiderKeeps DEF CreatePaymentRequest
  <2> QED BY <2>3, <2>4 DEF LifeKept, LifeStep, Lifecycle!Next
<1>2. CASE ExpirePending(r)
  <2>1. p \in Payments /\ UpdatePaymentStatus(p, "PENDING", "EXPIRED")
    BY <1>2, <1>h DEF ExpirePending, InHandler, HoldingPayment
  <2>2. UNCHANGED <<entries, retryCount>>
    BY <2>1 DEF UpdatePaymentStatus, ledgerVars
  <2>3. Lifecycle!Lapse
    <3>1. {p} \in SUBSET {q \in Payments : status[q] = "PENDING"}
      BY <2>1 DEF UpdatePaymentStatus
    <3>2. status' = [q \in Payments |-> IF q \in {p} THEN "EXPIRED" ELSE status[q]]
      BY <1>0, <2>1 DEF UpdatePaymentStatus
    <3> QED BY <2>2, <3>1, <3>2, NoPosting, SameMoney DEF Lifecycle!Lapse
  <2>4. BatchInv' /\ (Faults = {} => CreditedIsMarked')
    BY <1>0, <1>e, <2>1, <2>2, NoPosting, OutsiderKeeps DEF UpdatePaymentStatus
  <2> QED BY <2>3, <2>4 DEF LifeKept, LifeStep, Lifecycle!Next
<1>3. CASE ConfirmIntent(r)
  <2>1. p \in Payments /\ ConfirmPaymentIntent(p)
    BY <1>3, <1>h DEF ConfirmIntent, InHandler, HoldingPayment
  <2>2. UNCHANGED <<entries, retryCount>>
    BY <2>1 DEF ConfirmPaymentIntent
  <2>3. Lifecycle!Confirm(p)
    BY <2>1, <2>2, NoPosting, SameMoney
    DEF ConfirmPaymentIntent, Lifecycle!Confirm, Lifecycle!Move
  <2>4. BatchInv' /\ (Faults = {} => CreditedIsMarked')
    BY <1>0, <1>e, <2>1, <2>2, NoPosting, OutsiderKeeps DEF ConfirmPaymentIntent
  <2> QED BY <2>1, <2>3, <2>4 DEF LifeKept, LifeStep, Lifecycle!Next
<1>4. CASE Refund(r)
  <2>1. p \in Payments /\ RefundSettledPayment(p)
    BY <1>4, <1>h DEF Refund, InHandler, HoldingPayment
  <2> DEFINE dr == Entry("ESCROW", "DR", "REVERSAL", p, Amount[p])
             cr == Entry("OPERATING", "CR", "REVERSAL", p, Amount[p])
  <2>2. /\ entries' = entries \cup {dr, cr}
        /\ status[p] = "SETTLED" /\ status' = [status EXCEPT ![p] = "CANCELLED"]
        /\ UNCHANGED retryCount
    BY <2>1 DEF RefundSettledPayment, RefundPostings, postInTx
  <2>3. dr.type = "REVERSAL" /\ cr.type = "REVERSAL" /\ dr.ref = p /\ cr.ref = p
    BY DEF Entry
  <2> HIDE DEF dr, cr
  <2>4. \A q \in Payments : /\ Credited(q)' <=> Credited(q)
                            /\ Reversed(q)' <=> Reversed(q) \/ q = p
    BY <2>2, <2>3 DEF Credited, Reversed, Posted
  <2>5. Lifecycle!Refund(p)
    <3>1. ~Reversed(p)
      BY <1>0, <2>1, <2>2 DEF PaymentInv
    <3>2. UNCHANGED {q \in Payments : Credited(q)}
      BY <2>4
    <3>3. {q \in Payments : Reversed(q)}' = {q \in Payments : Reversed(q)} \cup {p}
      BY <2>1, <2>4
    <3> QED BY <2>1, <2>2, <3>1, <3>2, <3>3 DEF Lifecycle!Refund, Lifecycle!Move
  <2>6. BatchInv' /\ (Faults = {} => CreditedIsMarked')
    BY <1>0, <1>e, <2>2, <2>4, OutsiderKeeps
  <2> QED BY <2>1, <2>5, <2>6 DEF LifeKept, LifeStep, Lifecycle!Next
<1>5. CASE PostSettlement(r)
  <2> DEFINE dr == Entry("ESCROW", "DR", "SETTLEMENT", request[r].run, request[r].cents)
             cr == Entry("OPERATING", "CR", "SETTLEMENT", request[r].run, request[r].cents)
  <2>1. entries' = entries \cup {dr, cr} /\ UNCHANGED <<status, retryCount>>
    BY <1>5 DEF PostSettlement, RunSettlement, postInTx, paymentVars
  <2>2. dr.type = "SETTLEMENT" /\ cr.type = "SETTLEMENT"
    BY DEF Entry
  <2> HIDE DEF dr, cr
  <2>3. \A q \in Payments : /\ Credited(q)' <=> Credited(q)
                            /\ Reversed(q)' <=> Reversed(q)
    BY <2>1, <2>2 DEF Credited, Reversed, Posted
  <2>4. LifeStep
    BY <2>1, <2>3, SameMoney DEF LifeStep, Lifecycle!vars
  <2>5. BatchInv' /\ (Faults = {} => CreditedIsMarked')
    BY <1>e, <2>1, <2>3, OutsiderKeeps
  <2> QED BY <2>4, <2>5 DEF LifeKept
<1>6. CASE \/ OpenOverdue(r) \/ ExpirePendingTooLate(r) \/ ConfirmPayment(r)
           \/ ConfirmIntentTooLate(r) \/ AdminRefundPaymentRequest(r) \/ RefundRefused(r)
           \/ ReadOperating(r) \/ RequestFault(r) \/ TriggerSettlement(r)
           \/ CompleteRun(r) \/ CompleteEmptyRun(r) \/ CompleteFailedRun(r)
           \/ AnnounceRequest(r)
  BY <1>6, <1>q DEF OpenOverdue, ExpirePendingTooLate, ConfirmPayment, ConfirmIntentTooLate,
     AdminRefundPaymentRequest, RefundRefused, ReadOperating, RequestFault, SettlementFails,
     RequestFails, RequestDropped, TriggerSettlement, CompleteRun, CompleteEmptyRun,
     CompleteFailedRun, CreateSettlement, CompleteSettlement, AnnounceRequest,
     EnqueueWebhook, storeVars, ledgerVars, paymentVars
<1> QED BY <1>1, <1>2, <1>3, <1>4, <1>5, <1>6 DEF RequestStep


(* processed_at is set with the status SETTLED, and by nothing else. *)
LEMMA ProcessedWithSettled ==
  ASSUME TypeOK, [Next]_vars
  PROVE  \A p \in Payments : processedAt'[p] => processedAt[p] \/ status'[p] = "SETTLED"
<1>1. ASSUME NEW s \in Servers, MarkTransfer(s)
      PROVE  \A p \in Payments : processedAt'[p] => processedAt[p] \/ status'[p] = "SETTLED"
  BY <1>1 DEF MarkTransfer, MarkPaymentSettledIdempotent, TypeOK, StoreTypeOK
<1>2. ASSUME NEW s \in Servers, TransferStep(s), ~MarkTransfer(s)
      PROVE  UNCHANGED processedAt
  BY <1>2 DEF TransferStep, processAwaiting, processOne, ExpireTransfer,
     ExpireTransferTooLate, PostTransfer, PostTransferAgain, MarkTransferAgain,
     FailTransfer, RequeueTransfer, RequeueTransferTooLate, Announce,
     ExpireAwaitingTransfer, IncrementRetryAndSetStatus, UpdatePaymentStatus,
     EnqueueWebhook, storeVars, paymentVars
<1>3. ASSUME NEW s \in Servers, SweepStep(s) \/ WorkerFault(s) \/ Crash(s)
      PROVE  UNCHANGED processedAt
  BY <1>3 DEF SweepStep, expireOverduePayments, ExpireOverduePendingPayments,
     AnnounceSwept, EnqueueWebhook, WorkerFault, AnnouncementLost, StatementFails,
     SweptLost, Crash, storeVars, paymentVars
<1>4. ASSUME NEW r \in Requests, RequestStep(r) \/ RequestFault(r)
      PROVE  UNCHANGED processedAt
  BY <1>4 DEF RequestStep, AdminCreatePaymentRequest, OpenOverdue, ExpirePending,
     ExpirePendingTooLate, ConfirmPayment, ConfirmIntent, ConfirmIntentTooLate,
     AdminRefundPaymentRequest, Refund, RefundRefused, TriggerSettlement, ReadOperating,
     PostSettlement, CompleteRun, CompleteEmptyRun, CompleteFailedRun, AnnounceRequest,
     CreatePaymentRequest, UpdatePaymentStatus, ConfirmPaymentIntent, RefundSettledPayment,
     CreateSettlement, CompleteSettlement, EnqueueWebhook, RequestFault, SettlementFails,
     RequestFails, RequestDropped, storeVars, paymentVars
<1>5. CASE AdminDashboard \/ Clock \/ UNCHANGED vars
  BY <1>5 DEF AdminDashboard, ExpireOverduePendingPayments, Clock, DueDatePasses, vars,
     paymentVars
<1> QED BY <1>1, <1>2, <1>3, <1>4, <1>5 DEF Next

LEMMA StepLife ==
  ASSUME LifeInv, OneServer, [Next]_vars
  PROVE  LifeKept
<1>1. ASSUME NEW s \in Servers, TransferStep(s) \/ WorkerFault(s) \/ Crash(s)
      PROVE  LifeKept
  BY <1>1, ScanLife, PickLife, PostLife, ExpireLife, MarkLife, FailLife, RequeueLife,
     AnnounceLife, WorkerFaultLife DEF TransferStep, WorkerFault
<1>2. ASSUME UNCHANGED <<status, entries, retryCount, engine>> PROVE LifeKept
  BY <1>2, QuietLife, NoPosting, OutsiderKeeps DEF LifeKept
<1>3. ASSUME NEW s \in Servers, SweepStep(s) PROVE LifeKept
  <2>1. CASE expireOverduePayments(s)
    BY <2>1, OverdueLife DEF expireOverduePayments
  <2>2. CASE AnnounceSwept(s)
    BY <1>2, <2>2 DEF AnnounceSwept, EnqueueWebhook, ledgerVars, paymentVars
  <2> QED BY <1>3, <2>1, <2>2 DEF SweepStep
<1>4. CASE AdminDashboard
  BY <1>4, OverdueLife DEF AdminDashboard, memoryVars
<1>5. CASE Clock \/ UNCHANGED vars
  BY <1>2, <1>5 DEF Clock, DueDatePasses, vars, memoryVars, ledgerVars, paymentVars
<1> QED BY <1>1, <1>3, <1>4, <1>5, HandlerLife DEF Next

LEMMA InitLife == Init => LifeInv
<1> SUFFICES ASSUME Init PROVE LifeInv
  OBVIOUS
<1>1. /\ entries = {}
      /\ status = [p \in Payments |-> "NONE"]
      /\ retryCount = [p \in Payments |-> 0]
      /\ processedAt = [p \in Payments |-> FALSE]
      /\ engine = [s \in Servers |-> IdleEngine]
  BY DEF Init, StoreInit, EnsureDefaultWallets, MemoryInit
<1>2. \A p \in Payments : ~Credited(p) /\ ~Reversed(p)
  BY <1>1 DEF Credited, Reversed, Posted
<1>3. PaymentInv
  BY <1>1, <1>2 DEF PaymentInv
<1>4. BatchInv
  BY <1>1 DEF BatchInv, BatchOK, IdleEngine, EngineWorking
<1>5. CreditedIsMarked
  BY <1>2 DEF CreditedIsMarked
<1> QED BY <1>3, <1>4, <1>5, InitCredit DEF LifeInv

LEMMA NextLife == OneServer /\ LifeInv /\ [Next]_vars => LifeInv' /\ LifeStep
<1> SUFFICES ASSUME OneServer, LifeInv, [Next]_vars PROVE LifeInv' /\ LifeStep
  OBVIOUS
<1>1. CreditInv' /\ TypeOK'
  BY NextCredit DEF LifeInv, CreditInv
<1>2. LifeKept
  BY StepLife
<1>3. PaymentInv'
  BY <1>1, <1>2, ProcessedWithSettled, LifeKeepsPayments DEF LifeInv, CreditInv, LifeKept
<1> QED BY <1>1, <1>2, <1>3 DEF LifeInv, LifeKept

(* On one server the ledger and the statuses agree, whatever statement fails *)
(* and whatever crash falls between them: exactly the CANCELLED payments are *)
(* reversed, and what is SETTLED has its money on the ledger.                *)
THEOREM CreditMatches ==
  ASSUME OneServer
  PROVE  Spec => []CreditMatchesStatus
<1>1. Init => LifeInv BY InitLife
<1>2. LifeInv /\ [Next]_vars => LifeInv' BY NextLife
<1>3. LifeInv => CreditMatchesStatus
  BY DEF LifeInv, CreditInv, StoreInv, CreditBeforeStatus, PaymentInv, CreditMatchesStatus
<1> QED BY <1>1, <1>2, <1>3, PTL DEF Spec

(* One server implements the abstract life of a payment: its engine, sweep   *)
(* and handlers, however they interleave, take each payment along the        *)
(* documented path, credit it once, fail it at most MaxRetries times, and    *)
(* without faults never fail or expire a payment that was credited.          *)
THEOREM ServerImplementsLifecycle ==
  ASSUME OneServer
  PROVE  Spec => ImplementsLifecycle
<1>1. Init => LifeInv BY InitLife
<1>2. Init => Lifecycle!Init
  BY DEF Init, StoreInit, EnsureDefaultWallets, Lifecycle!Init, Credited, Reversed, Posted
<1>3. LifeInv /\ [Next]_vars => LifeInv' /\ [Lifecycle!Next]_(Lifecycle!vars)
  BY NextLife DEF LifeStep
<1> QED BY <1>1, <1>2, <1>3, PTL DEF Spec, ImplementsLifecycle, Lifecycle!Spec

(* On one server a processed payment stays settled unless it is refunded: it *)
(* takes a second server to fail a payment behind the back of the first.     *)
THEOREM SettledIsFinal ==
  ASSUME OneServer
  PROVE  Spec => []SettledStaysSettled
<1>1. Init => LifeInv BY InitLife
<1>2. LifeInv /\ [Next]_vars => LifeInv' BY NextLife
<1>3. LifeInv => SettledStaysSettled
  BY DEF LifeInv, PaymentInv, SettledStaysSettled
<1> QED BY <1>1, <1>2, <1>3, PTL DEF Spec

(* On one server and without faults an EXPIRED payment was never credited:   *)
(* it takes a crash between the posting and the mark to expire one that was. *)
THEOREM ExpiredUncredited ==
  ASSUME OneServer, Faults = {}
  PROVE  Spec => []ExpiredBeforeTransfer
<1>1. Init => LifeInv BY InitLife
<1>2. LifeInv /\ [Next]_vars => LifeInv' BY NextLife
<1>3. LifeInv => ExpiredBeforeTransfer
  BY DEF LifeInv, CreditedIsMarked, ExpiredBeforeTransfer
<1> QED BY <1>1, <1>2, <1>3, PTL DEF Spec

(* A payment that has FAILED failed before, or fails now and counts it.      *)
LEMMA FailedCounts ==
  ASSUME LifeInv, LifeStep
  PROVE  \A p \in Payments : status'[p] = "FAILED" =>
           \/ status[p] = "FAILED" /\ retryCount'[p] = retryCount[p]
           \/ retryCount'[p] = retryCount[p] + 1
<1>0. status \in [Payments -> Statuses] /\ retryCount \in [Payments -> Nat]
  BY DEF LifeInv, CreditInv, TypeOK, StoreTypeOK
<1>1. CASE UNCHANGED Lifecycle!vars
  BY <1>1 DEF Lifecycle!vars
<1>2. CASE Lifecycle!Lapse
  BY <1>2 DEF Lifecycle!Lapse
<1>3. ASSUME NEW p \in Payments,
             \/ Lifecycle!Issue(p) \/ Lifecycle!Confirm(p) \/ Lifecycle!Credit(p)
             \/ Lifecycle!Settle(p) \/ Lifecycle!Expire(p) \/ Lifecycle!Retry(p)
             \/ Lifecycle!Refund(p)
      PROVE  \A q \in Payments : status'[q] = "FAILED" =>
               status[q] = "FAILED" /\ retryCount'[q] = retryCount[q]
  BY <1>0, <1>3 DEF Lifecycle!Issue, Lifecycle!Confirm, Lifecycle!Credit, Lifecycle!Settle,
     Lifecycle!Expire, Lifecycle!Retry, Lifecycle!Refund, Lifecycle!Move
<1>4. ASSUME NEW p \in Payments, Lifecycle!Fail(p)
      PROVE  \A q \in Payments : status'[q] = "FAILED" =>
               \/ status[q] = "FAILED" /\ retryCount'[q] = retryCount[q]
               \/ retryCount'[q] = retryCount[q] + 1
  BY <1>0, <1>4 DEF Lifecycle!Fail, Lifecycle!Move
<1> QED BY <1>1, <1>2, <1>3, <1>4 DEF LifeStep, Lifecycle!Next

(* An engine that holds no failed payment leaves none with attempts to go.   *)
LEMMA NothingDelayed ==
  ASSUME LifeInv, LifeStep, OneServer, DelayedIsRetried, UNCHANGED retryCount,
         NEW s \in Servers, engine[s].at \notin {"announceFailed", "requeue"}
  PROVE  DelayedIsRetried'
<1>1. \A t \in Servers : engine[t].at \notin {"announceFailed", "requeue"}
  BY DEF OneServer
<1>2. \A p \in Payments : ~Retried(p)
  BY <1>1 DEF Retried
<1>3. retryCount \in [Payments -> Nat]
  BY DEF LifeInv, CreditInv, TypeOK, StoreTypeOK
<1>4. \A p \in Payments : status'[p] = "FAILED" => status[p] = "FAILED"
  BY <1>3, FailedCounts
<1> HIDE DEF Retried
<1> QED BY <1>2, <1>4 DEF DelayedIsRetried

LEMMA FailDelays ==
  ASSUME LifeInv, LifeInv', OneServer, DelayedIsRetried, NEW s \in Servers, FailTransfer(s)
  PROVE  DelayedIsRetried'
<1> DEFINE p == engine[s].payment
<1>0. /\ status \in [Payments -> Statuses] /\ retryCount \in [Payments -> Nat]
      /\ engine \in [Servers -> EngineLocals]
  BY DEF LifeInv, CreditInv, TypeOK, StoreTypeOK, MemoryTypeOK
<1>1. /\ engine[s].at = "fail"
      /\ engine'[s].at = "announceFailed" /\ engine'[s].payment = p
      /\ \A q \in Payments \ {p} : status'[q] = status[q] /\ retryCount'[q] = retryCount[q]
  BY <1>0 DEF FailTransfer, At, GoTo, IncrementRetryAndSetStatus, EngineLocals
<1>2. \A q \in Payments : ~Retried(q)
  BY <1>1 DEF Retried, OneServer
<1>3. retryCount'[p] = engine'[s].seen[p] + 1
  BY <1>1 DEF LifeInv, BatchInv, BatchOK
<1> SUFFICES ASSUME NEW q \in Payments, status'[q] = "FAILED", retryCount'[q] < MaxRetries
             PROVE  Retried(q)'
  BY DEF DelayedIsRetried
<1>4. CASE q = p
  BY <1>1, <1>3, <1>4 DEF Retried, MayRetry
<1>5. CASE q # p
  BY <1>1, <1>2, <1>5 DEF DelayedIsRetried
<1> QED BY <1>4, <1>5

LEMMA RetryDelays ==
  ASSUME LifeInv, OneServer, DelayedIsRetried, NEW s \in Servers,
         Announce(s) \/ RequeueTransfer(s) \/ RequeueTransferTooLate(s), LifeStep
  PROVE  DelayedIsRetried'
<1> DEFINE p == engine[s].payment
<1>0. /\ status \in [Payments -> Statuses] /\ engine \in [Servers -> EngineLocals]
      /\ BatchOK(engine[s])
  BY DEF LifeInv, CreditInv, TypeOK, StoreTypeOK, MemoryTypeOK, BatchInv
<1>1. UNCHANGED retryCount
  BY DEF Announce, RequeueTransfer, RequeueTransferTooLate, EnqueueWebhook,
     UpdatePaymentStatus, storeVars, paymentVars
<1>2. \A q \in Payments : Retried(q) => q = p
  BY DEF Retried, OneServer
<1>3. CASE At(s, "announceFailed") /\ MayRetry(s) /\ Announce(s)
  <2>1. engine'[s].at = "requeue" /\ engine'[s].payment = p /\ UNCHANGED status
    BY <1>0, <1>3 DEF Announce, AfterAnnouncement, GoTo, EngineLocals, EnqueueWebhook,
       paymentVars
  <2>2. Retried(p)'
    BY <2>1 DEF Retried
  <2> QED BY <1>1, <1>2, <2>1, <2>2 DEF DelayedIsRetried
<1>4. CASE At(s, "announceFailed") /\ ~MayRetry(s) /\ Announce(s)
  <2>1. \A q \in Payments : ~Retried(q)
    BY <1>4 DEF Retried, OneServer, At
  <2>2. UNCHANGED status
    BY <1>4 DEF Announce, EnqueueWebhook, paymentVars
  <2> QED BY <1>1, <2>1, <2>2 DEF DelayedIsRetried
<1>5. CASE RequeueTransfer(s)
  <2>1. status' = [status EXCEPT ![p] = "AWAITING_TRANSFER"]
    BY <1>5 DEF RequeueTransfer, UpdatePaymentStatus
  <2>2. \A q \in Payments : status'[q] = "FAILED" => q # p /\ status[q] = "FAILED"
    BY <1>0, <2>1
  <2> QED BY <1>1, <1>2, <2>2 DEF DelayedIsRetried
<1>6. CASE RequeueTransferTooLate(s)
  BY <1>0, <1>6 DEF RequeueTransferTooLate, At, BatchOK
<1>7. CASE engine[s].at \notin {"announceFailed", "requeue"}
  BY <1>1, <1>7, NothingDelayed
<1> QED BY <1>3, <1>4, <1>5, <1>6, <1>7 DEF At, Announce, Outcome

LEMMA OthersDelay ==
  ASSUME LifeInv, LifeStep, DelayedIsRetried, UNCHANGED <<engine, retryCount>>
  PROVE  DelayedIsRetried'
<1>1. retryCount \in [Payments -> Nat]
  BY DEF LifeInv, CreditInv, TypeOK, StoreTypeOK
<1>2. \A p \in Payments : status'[p] = "FAILED" => status[p] = "FAILED"
  BY <1>1, FailedCounts
<1>3. \A p : Retried(p) => Retried(p)'
  BY DEF Retried, MayRetry
<1> HIDE DEF Retried
<1> QED BY <1>2, <1>3 DEF DelayedIsRetried

LEMMA NextDelays ==
  ASSUME LifeInv, LifeInv', LifeStep, OneServer, Faults = {}, DelayedIsRetried, [Next]_vars
  PROVE  DelayedIsRetried'
<1>1. ASSUME NEW s \in Servers, TransferStep(s) PROVE DelayedIsRetried'
  <2>1. CASE FailTransfer(s)
    BY <2>1, FailDelays
  <2>2. CASE Announce(s) \/ RequeueTransfer(s) \/ RequeueTransferTooLate(s)
    BY <2>2, RetryDelays
  <2>3. CASE ~(FailTransfer(s) \/ Announce(s) \/ RequeueTransfer(s) \/ RequeueTransferTooLate(s))
    <3>1. engine[s].at \in {"idle", "pick", "expire", "post", "mark"} /\ UNCHANGED retryCount
      BY <1>1, <2>3 DEF TransferStep, At, processAwaiting, processOne, ExpireTransfer,
         ExpireTransferTooLate, PostTransfer, PostTransferAgain, MarkTransfer,
         MarkTransferAgain, ExpireAwaitingTransfer, MarkPaymentSettledIdempotent,
         storeVars, paymentVars
    <3> QED BY <3>1, NothingDelayed
  <2> QED BY <2>1, <2>2, <2>3
<1>2. ASSUME NEW s \in Servers, SweepStep(s) PROVE UNCHANGED <<engine, retryCount>>
  BY <1>2 DEF SweepStep, expireOverduePayments, ExpireOverduePendingPayments, AnnounceSwept,
     EnqueueWebhook, paymentVars
<1>3. ASSUME NEW r \in Requests, RequestStep(r) \/ RequestFault(r)
      PROVE  UNCHANGED <<engine, retryCount>>
  BY <1>3 DEF RequestStep, AdminCreatePaymentRequest, OpenOverdue, ExpirePending,
     ExpirePendingTooLate, ConfirmPayment, ConfirmIntent, ConfirmIntentTooLate,
     AdminRefundPaymentRequest, Refund, RefundRefused, TriggerSettlement, ReadOperating,
     PostSettlement, CompleteRun, CompleteEmptyRun, CompleteFailedRun, AnnounceRequest,
     CreatePaymentRequest, UpdatePaymentStatus, ConfirmPaymentIntent, RefundSettledPayment,
     CreateSettlement, CompleteSettlement, EnqueueWebhook, RequestFault, SettlementFails,
     RequestFails, RequestDropped, storeVars, paymentVars, workerVars
<1>4. ASSUME AdminDashboard \/ Clock \/ UNCHANGED vars PROVE UNCHANGED <<engine, retryCount>>
  BY <1>4 DEF AdminDashboard, ExpireOverduePendingPayments, Clock, DueDatePasses, vars,
     memoryVars, paymentVars
<1>5. \A s \in Servers : ~WorkerFault(s) /\ ~Crash(s)
  BY DEF WorkerFault, AnnouncementLost, StatementFails, SweptLost, Crash
<1> QED BY <1>1, <1>2, <1>3, <1>4, <1>5, OthersDelay DEF Next

(* On one server without faults a payment is left FAILED only when all its   *)
(* attempts are used up: it takes a crash, an error or a shutdown between the*)
(* two statements of engine.go to strand it.                                 *)
THEOREM FailedIsRetried ==
  ASSUME OneServer, Faults = {}
  PROVE  Spec => []DelayedIsRetried
<1>1. Init => LifeInv /\ DelayedIsRetried
  <2> SUFFICES ASSUME Init PROVE LifeInv /\ DelayedIsRetried
    OBVIOUS
  <2>1. \A p \in Payments : status[p] # "FAILED"
    BY DEF Init, StoreInit
  <2> QED BY <2>1, InitLife DEF DelayedIsRetried
<1>2. LifeInv /\ DelayedIsRetried /\ [Next]_vars => LifeInv' /\ DelayedIsRetried'
  BY NextLife, NextDelays
<1> QED BY <1>1, <1>2, PTL DEF Spec


-----------------------------------------------------------------------------
(* Webhooks of one server process. *)

Sent(e, p) == emitted[<<e, p>>]

(* What an event announces has happened to the payment, for good. *)
Happened(e, p) ==
    \/ e = "created" /\ status[p] # "NONE"
    \/ e = "confirmed" /\ Confirmed(p)
    \/ e = "settled" /\ status[p] \in {"SETTLED", "CANCELLED"}
    \/ e = "expired" /\ status[p] = "EXPIRED"
    \/ e = "refunded" /\ status[p] = "CANCELLED"
    \/ e = "failed"

Owed(e, p) == Happened(e, p) /\ Sent(e, p) = 0

PaymentNotices == {"announceCreated", "announceConfirmed", "announceRefunded"}
EngineNotices == {"announceSettled", "announceExpired", "announceFailed"}

SentInv ==
    \A p \in Payments :
      /\ \A e \in PaymentEvents : Sent(e, p) > 0 => Happened(e, p)
      /\ \A e \in PaymentEvents \ {"failed"} : Sent(e, p) <= 1
      /\ Sent("failed", p) <= retryCount[p]

(* The handler with these locals is about to announce the event. *)
Announces(local, e, p) ==
    local.at \in PaymentNotices /\ Notice[local.at] = e /\ local.payment = p

(* Who is about to announce something is the only one, and the first. *)
HandlersOwe ==
    \A e \in PaymentEvents, p \in Payments :
      /\ \A r \in Requests : Announces(request[r], e, p) => Owed(e, p)
      /\ \A r, q \in Requests :
           Announces(request[r], e, p) /\ Announces(request[q], e, p) => r = q

WorkersOwe ==
    \A s \in Servers : \A p \in Payments :
      /\ engine[s].payment = p =>
           /\ engine[s].at = "announceSettled" => Owed("settled", p)
           /\ engine[s].at = "announceExpired" => Owed("expired", p) /\ p \notin sweep[s]
           /\ engine[s].at = "announceFailed" => Sent("failed", p) < retryCount[p]
      /\ p \in sweep[s] => Owed("expired", p)

OweInv == SentInv /\ HandlersOwe /\ WorkersOwe

AnnounceInv == LifeInv /\ OweInv

(* No step takes back what has happened. *)
LEMMA HappenedForGood ==
  ASSUME LifeInv, LifeStep, NEW p \in Payments
  PROVE  /\ \A e : Happened(e, p) => Happened(e, p)'
         /\ retryCount'[p] >= retryCount[p]
<1>0. status \in [Payments -> Statuses] /\ retryCount \in [Payments -> Nat]
  BY DEF LifeInv, CreditInv, TypeOK, StoreTypeOK
<1>1. /\ \/ status'[p] = status[p]
         \/ status[p] = "NONE" /\ status'[p] = "PENDING"
         \/ status[p] = "PENDING" /\ status'[p] \in {"AWAITING_TRANSFER", "EXPIRED"}
         \/ status[p] = "AWAITING_TRANSFER" /\ status'[p] \in {"SETTLED", "EXPIRED", "FAILED"}
         \/ status[p] = "FAILED" /\ status'[p] = "AWAITING_TRANSFER"
         \/ status[p] = "SETTLED" /\ status'[p] = "CANCELLED"
      /\ retryCount'[p] = retryCount[p] \/ retryCount'[p] = retryCount[p] + 1
  <2>1. CASE UNCHANGED Lifecycle!vars
    BY <2>1 DEF Lifecycle!vars
  <2>2. CASE Lifecycle!Lapse
    BY <1>0, <2>2 DEF Lifecycle!Lapse
  <2>3. ASSUME NEW q \in Payments,
               Lifecycle!Issue(q) \/ Lifecycle!Confirm(q) \/ Lifecycle!Credit(q)
                 \/ Lifecycle!Settle(q) \/ Lifecycle!Expire(q)
        PROVE  <1>1!1 /\ <1>1!2
    BY <1>0, <2>3 DEF Lifecycle!Issue, Lifecycle!Confirm, Lifecycle!Credit,
       Lifecycle!Settle, Lifecycle!Expire, Lifecycle!Move
  <2>4. ASSUME NEW q \in Payments,
               Lifecycle!Fail(q) \/ Lifecycle!Retry(q) \/ Lifecycle!Refund(q)
        PROVE  <1>1!1 /\ <1>1!2
    BY <1>0, <2>4 DEF Lifecycle!Fail, Lifecycle!Retry, Lifecycle!Refund, Lifecycle!Move
  <2> QED BY <2>1, <2>2, <2>3, <2>4 DEF LifeStep, Lifecycle!Next
<1>2. retryCount'[p] >= retryCount[p]
  BY <1>0, <1>1
<1>3. \A e : Happened(e, p) => Happened(e, p)'
  BY <1>1 DEF Happened, Confirmed
<1> QED BY <1>2, <1>3

(* An INSERT into the outbox counts for its event and reference only. *)
LEMMA SentByEnqueue ==
  ASSUME TypeOK, NEW e \in PaymentEvents, NEW p \in Payments, EnqueueWebhook(e, p)
  PROVE  \A f \in PaymentEvents, q \in Payments :
           Sent(f, q)' = IF f = e /\ q = p THEN Sent(f, q) + 1 ELSE Sent(f, q)
<1> SUFFICES ASSUME NEW f \in PaymentEvents, NEW q \in Payments
             PROVE  Sent(f, q)' = IF f = e /\ q = p THEN Sent(f, q) + 1 ELSE Sent(f, q)
  OBVIOUS
<1> DEFINE key == <<e, p>>
           other == <<f, q>>
<1>1. key = other <=> f = e /\ q = p
  OBVIOUS
<1>2. /\ emitted \in [EventKeys -> Nat] /\ key \in EventKeys /\ other \in EventKeys
      /\ emitted' = [emitted EXCEPT ![key] = @ + 1]
      /\ Sent(f, q) = emitted[other] /\ Sent(f, q)' = emitted'[other]
  BY DEF TypeOK, StoreTypeOK, EventKeys, EnqueueWebhook, Sent
<1> HIDE DEF key, other
<1> QED BY <1>1, <1>2

LEMMA SentByCompletion ==
  ASSUME TypeOK, NEW n \in Settlements, EnqueueWebhook("completed", n)
  PROVE  \A f \in PaymentEvents, q \in Payments : Sent(f, q)' = Sent(f, q)
<1> SUFFICES ASSUME NEW f \in PaymentEvents, NEW q \in Payments
             PROVE  Sent(f, q)' = Sent(f, q)
  OBVIOUS
<1> DEFINE key == <<"completed", n>>
           other == <<f, q>>
<1>1. key # other
  BY DEF PaymentEvents
<1>2. /\ emitted \in [EventKeys -> Nat] /\ other \in EventKeys
      /\ emitted' = [emitted EXCEPT ![key] = @ + 1]
      /\ Sent(f, q) = emitted[other] /\ Sent(f, q)' = emitted'[other]
  BY DEF TypeOK, StoreTypeOK, EventKeys, EnqueueWebhook, Sent
<1> HIDE DEF key, other
<1> QED BY <1>1, <1>2


(* The goals of the steps: the counts, then who owes what. *)

LEMMA SentKept ==
  ASSUME AnnounceInv, LifeStep, TypeOK',
         \A e \in PaymentEvents, p \in Payments : Sent(e, p)' = Sent(e, p)
  PROVE  SentInv'
<1>2. \A p \in Payments :
        /\ \A e : Happened(e, p) => Happened(e, p)'
        /\ retryCount'[p] >= retryCount[p]
  BY HappenedForGood DEF AnnounceInv
<1>3. \A p \in Payments : Sent("failed", p) \in Nat /\ retryCount[p] \in Nat
                          /\ retryCount'[p] \in Nat
  BY DEF AnnounceInv, LifeInv, CreditInv, TypeOK, StoreTypeOK, EventKeys, PaymentEvents, Sent
<1>4. "failed" \in PaymentEvents
  BY DEF PaymentEvents
<1> HIDE DEF Sent, Happened
<1> QED BY <1>2, <1>3, <1>4 DEF AnnounceInv, OweInv, SentInv

(* An owed announcement counts once. *)
LEMMA SentOnce ==
  ASSUME AnnounceInv, LifeStep, NEW e \in PaymentEvents \ {"failed"}, NEW p \in Payments,
         Owed(e, p), EnqueueWebhook(e, p), TypeOK'
  PROVE  SentInv'
<1>0. TypeOK /\ SentInv
  BY DEF AnnounceInv, LifeInv, CreditInv, OweInv
<1>1. \A f \in PaymentEvents, q \in Payments :
        Sent(f, q)' = IF f = e /\ q = p THEN Sent(f, q) + 1 ELSE Sent(f, q)
  BY <1>0, SentByEnqueue
<1>2. \A q \in Payments : \A f : Happened(f, q) => Happened(f, q)'
  BY HappenedForGood DEF AnnounceInv
<1>3. UNCHANGED retryCount
  BY DEF EnqueueWebhook, paymentVars
<1>4. "failed" \in PaymentEvents /\ Sent(e, p) = 0 /\ Happened(e, p)
  BY DEF PaymentEvents, Owed
<1> HIDE DEF Sent, Happened
<1>5. \A q \in Payments : \A f \in PaymentEvents : Sent(f, q)' > 0 => Happened(f, q)'
  BY <1>0, <1>1, <1>2, <1>4 DEF SentInv
<1>6. \A q \in Payments : \A f \in PaymentEvents \ {"failed"} : Sent(f, q)' <= 1
  BY <1>0, <1>1, <1>4 DEF SentInv
<1>7. \A q \in Payments : Sent("failed", q)' <= retryCount'[q]
  BY <1>0, <1>1, <1>3, <1>4 DEF SentInv
<1> QED BY <1>5, <1>6, <1>7 DEF SentInv

LEMMA FailureSent ==
  ASSUME AnnounceInv, LifeStep, NEW p \in Payments, Sent("failed", p) < retryCount[p],
         EnqueueWebhook("failed", p), TypeOK'
  PROVE  SentInv'
<1>0. TypeOK /\ SentInv /\ "failed" \in PaymentEvents
  BY DEF AnnounceInv, LifeInv, CreditInv, OweInv, PaymentEvents
<1>1. \A f \in PaymentEvents, q \in Payments :
        Sent(f, q)' = IF f = "failed" /\ q = p THEN Sent(f, q) + 1 ELSE Sent(f, q)
  BY <1>0, SentByEnqueue
<1>2. \A q \in Payments : \A f : Happened(f, q) => Happened(f, q)'
  BY HappenedForGood DEF AnnounceInv
<1>3. UNCHANGED retryCount /\ Sent("failed", p) \in Nat /\ retryCount[p] \in Nat
  BY <1>0 DEF EnqueueWebhook, paymentVars, TypeOK, StoreTypeOK, EventKeys, Sent
<1>4. \A q \in Payments : Happened("failed", q)'
  BY DEF Happened
<1> HIDE DEF Sent, Happened
<1> QED BY <1>0, <1>1, <1>2, <1>3, <1>4 DEF SentInv

(* What is owed stays owed until it is sent. *)
LEMMA OwedStays ==
  ASSUME AnnounceInv, LifeStep, NEW p \in Payments, NEW e, Owed(e, p),
         Sent(e, p)' = Sent(e, p)
  PROVE  Owed(e, p)'
BY HappenedForGood DEF AnnounceInv, Owed

(* A handler that leaves, or takes over an announcement: of something that   *)
(* has not happened before. What the others owe is not sent by this step.    *)
LEMMA HandlersKept ==
  ASSUME AnnounceInv, LifeStep, NEW r \in Requests, NEW local, Proceed(r, local),
         \A e \in PaymentEvents, p \in Payments :
           Announces(local, e, p) =>
             ~Happened(e, p) /\ Happened(e, p)' /\ Sent(e, p)' = Sent(e, p),
         \A e \in PaymentEvents, p \in Payments :
           \A q \in Requests \ {r} : Announces(request[q], e, p) => Sent(e, p)' = Sent(e, p)
  PROVE  HandlersOwe'
<1>0. /\ TypeOK /\ SentInv /\ HandlersOwe
      /\ request \in [Requests -> RequestLocals]
  BY DEF AnnounceInv, LifeInv, CreditInv, TypeOK, MemoryTypeOK, OweInv
<1>1. /\ request'[r] = local
      /\ \A q \in Requests \ {r} : request'[q] = request[q]
  BY <1>0 DEF Proceed
<1>2. ASSUME NEW e \in PaymentEvents, NEW p \in Payments, Announces(local, e, p)
      PROVE  Owed(e, p)' /\ \A q \in Requests : ~Announces(request[q], e, p)
  <2>1. ~Happened(e, p) /\ Happened(e, p)' /\ Sent(e, p)' = Sent(e, p)
    BY <1>2
  <2>2. Sent(e, p) \in Nat
    BY <1>0 DEF TypeOK, StoreTypeOK, EventKeys, Sent
  <2> HIDE DEF Happened, Sent
  <2>3. Sent(e, p) = 0
    BY <1>0, <2>1, <2>2 DEF SentInv
  <2> QED BY <1>0, <2>1, <2>3 DEF Owed, HandlersOwe
<1>3. ASSUME NEW e \in PaymentEvents, NEW p \in Payments, NEW q \in Requests \ {r},
             Announces(request[q], e, p)
      PROVE  Owed(e, p)'
  <2>1. Owed(e, p) /\ Sent(e, p)' = Sent(e, p)
    BY <1>0, <1>3 DEF HandlersOwe
  <2> QED BY <2>1, OwedStays
<1> HIDE DEF Owed
<1>4. ASSUME NEW e \in PaymentEvents, NEW p \in Payments, NEW q \in Requests,
             Announces(request'[q], e, p)
      PROVE  Owed(e, p)'
  BY <1>1, <1>2, <1>3, <1>4
<1>5. ASSUME NEW e \in PaymentEvents, NEW p \in Payments, NEW q \in Requests,
             NEW t \in Requests, Announces(request'[q], e, p), Announces(request'[t], e, p)
      PROVE  q = t
  BY <1>0, <1>1, <1>2, <1>5 DEF HandlersOwe
<1> QED BY <1>4, <1>5 DEF HandlersOwe, Announces

HandlerEvents == {"created", "confirmed", "refunded"}

LEMMA HandlersStay ==
  ASSUME AnnounceInv, LifeStep,
         \A r \in Requests : request'[r] = request[r] \/ request'[r].at \notin PaymentNotices,
         \A e \in HandlerEvents, p \in Payments : Sent(e, p)' = Sent(e, p)
  PROVE  HandlersOwe'
<1>0. HandlersOwe
  BY DEF AnnounceInv, OweInv
<1>1. \A r \in Requests : \A e, p :
        Announces(request'[r], e, p) => Announces(request[r], e, p) /\ e \in HandlerEvents
  BY DEF Announces, PaymentNotices, Notice, HandlerEvents
<1>2. ASSUME NEW e \in PaymentEvents, NEW p \in Payments, NEW r \in Requests,
             Announces(request'[r], e, p)
      PROVE  Owed(e, p)'
  BY <1>0, <1>1, <1>2, OwedStays DEF HandlersOwe
<1> HIDE DEF Owed
<1> QED BY <1>0, <1>1, <1>2 DEF HandlersOwe, Announces

(* Workers that go on, or give up an announcement. What they still owe is    *)
(* not sent by this step.                                                    *)
LEMMA WorkersStay ==
  ASSUME AnnounceInv, LifeStep, TypeOK',
         \A s \in Servers :
           /\ engine'[s] = engine[s] \/ engine'[s].at \notin EngineNotices
           /\ sweep'[s] \subseteq sweep[s],
         \A s \in Servers, p \in Payments :
           /\ engine'[s].payment = p =>
                /\ engine'[s].at = "announceSettled" => Sent("settled", p)' = Sent("settled", p)
                /\ engine'[s].at = "announceExpired" => Sent("expired", p)' = Sent("expired", p)
                /\ engine'[s].at = "announceFailed" => Sent("failed", p)' = Sent("failed", p)
           /\ p \in sweep'[s] => Sent("expired", p)' = Sent("expired", p)
  PROVE  WorkersOwe'
<1>0. WorkersOwe /\ TypeOK
  BY DEF AnnounceInv, OweInv, LifeInv, CreditInv
<1>1. \A p \in Payments : retryCount'[p] >= retryCount[p]
  BY HappenedForGood DEF AnnounceInv
<1> SUFFICES ASSUME NEW s \in Servers, NEW p \in Payments
             PROVE  /\ engine'[s].payment = p =>
                         /\ engine'[s].at = "announceSettled" => Owed("settled", p)'
                         /\ engine'[s].at = "announceExpired" =>
                              Owed("expired", p)' /\ p \notin sweep'[s]
                         /\ engine'[s].at = "announceFailed" =>
                              Sent("failed", p)' < retryCount'[p]
                    /\ p \in sweep'[s] => Owed("expired", p)'
  BY DEF WorkersOwe
<1> HIDE DEF Owed, Sent
<1>2. ASSUME engine'[s].payment = p, engine'[s].at \in EngineNotices
      PROVE  engine'[s] = engine[s]
  BY <1>2
<1>3. ASSUME engine'[s].payment = p, engine'[s].at = "announceSettled"
      PROVE  Owed("settled", p)'
  <2>1. Owed("settled", p) /\ Sent("settled", p)' = Sent("settled", p)
    BY <1>0, <1>2, <1>3 DEF WorkersOwe, EngineNotices
  <2> QED BY <2>1, OwedStays
<1>4. ASSUME engine'[s].payment = p, engine'[s].at = "announceExpired"
      PROVE  Owed("expired", p)' /\ p \notin sweep'[s]
  <2>1. Owed("expired", p) /\ Sent("expired", p)' = Sent("expired", p) /\ p \notin sweep[s]
    BY <1>0, <1>2, <1>4 DEF WorkersOwe, EngineNotices
  <2> QED BY <2>1, OwedStays
<1>5. ASSUME engine'[s].payment = p, engine'[s].at = "announceFailed"
      PROVE  Sent("failed", p)' < retryCount'[p]
  <2>1. Sent("failed", p) < retryCount[p] /\ Sent("failed", p)' = Sent("failed", p)
    BY <1>0, <1>2, <1>5 DEF WorkersOwe, EngineNotices
  <2>2. Sent("failed", p) \in Nat /\ retryCount[p] \in Nat
    BY <1>0 DEF TypeOK, StoreTypeOK, EventKeys, PaymentEvents, Sent
  <2>3. retryCount'[p] \in Int
    BY DEF TypeOK, StoreTypeOK
  <2> QED BY <1>1, <2>1, <2>2, <2>3
<1>6. ASSUME p \in sweep'[s] PROVE Owed("expired", p)'
  <2>1. Owed("expired", p) /\ Sent("expired", p)' = Sent("expired", p)
    BY <1>0, <1>6 DEF WorkersOwe
  <2> QED BY <2>1, OwedStays
<1> QED BY <1>3, <1>4, <1>5, <1>6


OweKept == SentInv' /\ HandlersOwe' /\ WorkersOwe'

(* A step that announces nothing and takes over no announcement. *)
LEMMA SilentStep ==
  ASSUME AnnounceInv, LifeStep, TypeOK',
         \A e \in PaymentEvents, p \in Payments : Sent(e, p)' = Sent(e, p),
         \A s \in Servers :
           /\ engine'[s] = engine[s] \/ engine'[s].at \notin EngineNotices
           /\ sweep'[s] \subseteq sweep[s],
         \A r \in Requests : request'[r] = request[r] \/ request'[r].at \notin PaymentNotices
  PROVE  OweKept
<1>1. HandlerEvents \cup {"settled", "expired", "failed"} \subseteq PaymentEvents
  BY DEF HandlerEvents, PaymentEvents
<1> HIDE DEF Sent
<1> QED BY <1>1, SentKept, HandlersStay, WorkersStay DEF OweKept

(* The engine takes over the announcement of the outcome it has just written.*)
LEMMA OutcomeOwed ==
  ASSUME AnnounceInv, LifeStep, TypeOK', OneServer, NEW s \in Servers,
         ExpireTransfer(s) \/ MarkTransfer(s) \/ FailTransfer(s)
  PROVE  OweKept
<1>0. /\ TypeOK /\ BatchOK(engine[s]) /\ SentInv /\ WorkersOwe
      /\ engine[s].at \in {"expire", "mark", "fail"} /\ engine[s].at \in EngineWorking
      /\ UNCHANGED <<emitted, sweep, request>>
  BY DEF AnnounceInv, OweInv, LifeInv, CreditInv, BatchInv, ExpireTransfer, MarkTransfer,
     FailTransfer, At, EngineWorking, ExpireAwaitingTransfer, MarkPaymentSettledIdempotent,
     IncrementRetryAndSetStatus
<1>1. PICK p \in Payments : engine[s].payment = p /\ status[p] = "AWAITING_TRANSFER"
  BY <1>0, EngineHolds DEF TypeOK, BatchOK
<1>2. \A e, q : Sent(e, q)' = Sent(e, q)
  BY <1>0 DEF Sent
<1>3. SentInv' /\ HandlersOwe'
  BY <1>0, <1>2, SentKept, HandlersStay
<1>4. PICK at \in EngineNotices : GoTo(s, at)
  BY DEF ExpireTransfer, MarkTransfer, FailTransfer, EngineNotices
<1>5. engine'[s].at = at /\ engine'[s].payment = p
  BY <1>0, <1>1, <1>4 DEF GoTo, TypeOK, MemoryTypeOK, EngineLocals
<1>6. \A q \in sweep[s] : q \in Payments /\ Owed("expired", q) /\ q # p
  BY <1>0, <1>1 DEF TypeOK, MemoryTypeOK, WorkersOwe, Owed, Happened
<1>7. \A e \in {"settled", "expired"} : Sent(e, p) = 0
  <2>1. \A e \in {"settled", "expired"} :
          e \in PaymentEvents /\ ~Happened(e, p) /\ Sent(e, p) \in Nat
    BY <1>0, <1>1 DEF Happened, TypeOK, StoreTypeOK, EventKeys, PaymentEvents, Sent
  <2> HIDE DEF Happened, Sent
  <2> QED BY <1>0, <1>1, <2>1 DEF SentInv
<1>8. /\ at = "announceSettled" => status'[p] = "SETTLED"
      /\ at = "announceExpired" => status'[p] = "EXPIRED"
      /\ at = "announceFailed" => retryCount'[p] = retryCount[p] + 1
  <2>1. engine'[s].at = "announceSettled" => MarkTransfer(s)
    BY <1>0 DEF ExpireTransfer, FailTransfer, GoTo, TypeOK, MemoryTypeOK, EngineLocals
  <2>2. engine'[s].at = "announceExpired" => ExpireTransfer(s)
    BY <1>0 DEF MarkTransfer, FailTransfer, GoTo, TypeOK, MemoryTypeOK, EngineLocals
  <2>3. engine'[s].at = "announceFailed" => FailTransfer(s)
    BY <1>0 DEF MarkTransfer, ExpireTransfer, GoTo, TypeOK, MemoryTypeOK, EngineLocals
  <2> QED
    BY <1>0, <1>1, <1>5, <2>1, <2>2, <2>3 DEF MarkTransfer, MarkPaymentSettledIdempotent,
       ExpireTransfer, ExpireAwaitingTransfer, FailTransfer, IncrementRetryAndSetStatus,
       TypeOK, StoreTypeOK
<1>9. Sent("failed", p) <= retryCount[p] /\ Sent("failed", p) \in Nat /\ retryCount[p] \in Nat
  BY <1>0, <1>1 DEF SentInv, TypeOK, StoreTypeOK, EventKeys, PaymentEvents, Sent
<1>10. /\ at = "announceSettled" => Owed("settled", p)'
       /\ at = "announceExpired" => Owed("expired", p)'
       /\ at = "announceFailed" => Sent("failed", p)' < retryCount'[p]
  <2>1. /\ at = "announceSettled" => Happened("settled", p)'
        /\ at = "announceExpired" => Happened("expired", p)'
    BY <1>8 DEF Happened
  <2> HIDE DEF Happened, Sent
  <2> QED BY <1>2, <1>7, <1>8, <1>9, <2>1 DEF Owed
<1>11. \A q \in sweep[s] : Owed("expired", q)'
  BY <1>2, <1>6, OwedStays
<1>12. WorkersOwe'
  <2> HIDE DEF Owed, Sent
  <2>1. \A t \in Servers : t = s
    BY DEF OneServer
  <2> QED BY <1>0, <1>5, <1>6, <1>10, <1>11, <2>1 DEF WorkersOwe
<1> QED BY <1>3, <1>12 DEF OweKept


(* After an announcement the engine requeues or is done with the payment. *)
LEMMA AfterNotice ==
  ASSUME TypeOK, NEW s \in Servers, AfterAnnouncement(s)
  PROVE  engine'[s].at \notin EngineNotices
<1>0. engine \in [Servers -> EngineLocals]
  BY DEF TypeOK, MemoryTypeOK
<1>1. CASE GoTo(s, "requeue")
  <2>1. engine'[s].at = "requeue"
    BY <1>0, <1>1 DEF GoTo, EngineLocals
  <2> QED BY <2>1 DEF EngineNotices
<1>2. CASE Finish(s)
  <2>1. engine'[s].at \in {"idle", "pick"}
    BY <1>0, <1>2 DEF Finish, IdleEngine, EngineLocals
  <2> QED BY <2>1 DEF EngineNotices
<1> QED BY <1>1, <1>2 DEF AfterAnnouncement

LEMMA OutcomeAnnounced ==
  ASSUME AnnounceInv, LifeStep, TypeOK', OneServer, NEW s \in Servers, Announce(s)
  PROVE  OweKept
<1>0. /\ TypeOK /\ WorkersOwe
      /\ engine[s].at \in EngineNotices /\ engine[s].at \in EngineWorking
      /\ UNCHANGED <<sweep, request>>
      /\ EnqueueWebhook(Outcome[engine[s].at], engine[s].payment) /\ AfterAnnouncement(s)
  BY DEF AnnounceInv, OweInv, LifeInv, CreditInv, Announce, Outcome, EngineNotices,
     EngineWorking
<1>1. PICK p \in Payments : engine[s].payment = p
  BY <1>0, EngineHolds DEF TypeOK
<1>2. PICK e \in {"settled", "expired", "failed"} : e = Outcome[engine[s].at]
  BY <1>0 DEF Outcome, EngineNotices
<1>3. e \in PaymentEvents /\ EnqueueWebhook(e, p)
  BY <1>0, <1>1, <1>2 DEF PaymentEvents
<1>4. \A f \in PaymentEvents, q \in Payments :
        Sent(f, q)' = IF f = e /\ q = p THEN Sent(f, q) + 1 ELSE Sent(f, q)
  BY <1>0, <1>3, SentByEnqueue
<1>5. /\ e = "settled" => Owed("settled", p)
      /\ e = "expired" => Owed("expired", p) /\ p \notin sweep[s]
      /\ e = "failed" => Sent("failed", p) < retryCount[p]
  BY <1>0, <1>1, <1>2 DEF WorkersOwe, Outcome, EngineNotices
<1>6. engine'[s].at \notin EngineNotices
  BY <1>0, AfterNotice
<1>7. \A t \in Servers : t = s
  BY DEF OneServer
<1>8. p \in sweep[s] => e # "expired"
  BY <1>5
<1> HIDE DEF Sent, Owed
<1>9. SentInv'
  BY <1>3, <1>5, SentOnce, FailureSent
<1>10. HandlersOwe'
  BY <1>0, <1>2, <1>4, HandlersStay DEF HandlerEvents, PaymentEvents
<1>11. WorkersOwe'
  BY <1>0, <1>4, <1>6, <1>7, <1>8, WorkersStay DEF PaymentEvents, EngineNotices
<1> QED BY <1>9, <1>10, <1>11 DEF OweKept

(* The sweep takes over the announcements of all it has just expired. *)
LEMMA SweepOwes ==
  ASSUME AnnounceInv, LifeStep, TypeOK', OneServer, NEW s \in Servers,
         expireOverduePayments(s)
  PROVE  OweKept
<1>a. PICK ids \in OverdueBatches :
        ExpireOverduePendingPayments(ids) /\ sweep' = [sweep EXCEPT ![s] = ids]
  BY DEF expireOverduePayments
<1>b. /\ TypeOK /\ SentInv /\ WorkersOwe
      /\ UNCHANGED <<emitted, engine, request, retryCount>>
  BY <1>a DEF AnnounceInv, OweInv, LifeInv, CreditInv, expireOverduePayments,
     ExpireOverduePendingPayments
<1>0. /\ TypeOK /\ SentInv /\ WorkersOwe
      /\ ids \subseteq OverduePending /\ sweep'[s] = ids
      /\ status' = [p \in Payments |-> IF p \in ids THEN "EXPIRED" ELSE status[p]]
      /\ UNCHANGED <<emitted, engine, request, retryCount>>
  BY <1>a, <1>b, BatchIsOverdue DEF TypeOK, MemoryTypeOK, ExpireOverduePendingPayments
<1>1. \A e, q : Sent(e, q)' = Sent(e, q)
  BY <1>0 DEF Sent
<1>2. \A t \in Servers : t = s
  BY DEF OneServer
<1>3. SentInv' /\ HandlersOwe'
  BY <1>0, <1>1, SentKept, HandlersStay
<1>4. ASSUME NEW p \in ids
      PROVE  p \in Payments /\ Owed("expired", p)' /\ ~Owed("expired", p)
  <2>1. p \in Payments /\ ~Happened("expired", p) /\ Happened("expired", p)'
    BY <1>0, <1>4 DEF OverduePending, Happened
  <2>2. Sent("expired", p) \in Nat /\ "expired" \in PaymentEvents
    BY <1>0, <2>1 DEF TypeOK, StoreTypeOK, EventKeys, PaymentEvents, Sent
  <2> HIDE DEF Happened, Sent
  <2>3. Sent("expired", p) = 0
    BY <1>0, <2>1, <2>2 DEF SentInv
  <2> QED BY <1>1, <2>1, <2>3 DEF Owed
<1>5. ASSUME NEW p \in Payments, NEW e, Owed(e, p) PROVE Owed(e, p)'
  BY <1>1, <1>5, OwedStays
<1> HIDE DEF Owed, Sent
<1>6. WorkersOwe'
  <2> SUFFICES ASSUME NEW p \in Payments
               PROVE  /\ engine[s].payment = p =>
                           /\ engine[s].at = "announceSettled" => Owed("settled", p)'
                           /\ engine[s].at = "announceExpired" =>
                                Owed("expired", p)' /\ p \notin ids
                           /\ engine[s].at = "announceFailed" =>
                                Sent("failed", p)' < retryCount[p]
                      /\ p \in ids => Owed("expired", p)'
    BY <1>0, <1>2 DEF WorkersOwe
  <2> QED BY <1>0, <1>1, <1>4, <1>5 DEF WorkersOwe
<1> QED BY <1>3, <1>6 DEF OweKept

LEMMA SweptAnnounced ==
  ASSUME AnnounceInv, LifeStep, TypeOK', OneServer, NEW s \in Servers, AnnounceSwept(s)
  PROVE  OweKept
<1>0. /\ TypeOK /\ WorkersOwe
      /\ UNCHANGED <<engine, request>>
  BY DEF AnnounceInv, OweInv, LifeInv, CreditInv, AnnounceSwept
<1>1. PICK p \in sweep[s] :
        EnqueueWebhook("expired", p) /\ sweep' = [sweep EXCEPT ![s] = @ \ {p}]
  BY DEF AnnounceSwept
<1>2. p \in Payments /\ sweep'[s] = sweep[s] \ {p} /\ "expired" \in PaymentEvents
  BY <1>0, <1>1 DEF TypeOK, MemoryTypeOK, PaymentEvents
<1>3. \A f \in PaymentEvents, q \in Payments :
        Sent(f, q)' = IF f = "expired" /\ q = p THEN Sent(f, q) + 1 ELSE Sent(f, q)
  BY <1>0, <1>1, <1>2, SentByEnqueue
<1>4. /\ Owed("expired", p)
      /\ engine[s].at = "announceExpired" => engine[s].payment # p
  BY <1>0, <1>1, <1>2 DEF WorkersOwe
<1>5. \A t \in Servers : t = s
  BY DEF OneServer
<1> HIDE DEF Sent, Owed
<1>6. SentInv'
  BY <1>1, <1>2, <1>4, SentOnce
<1>7. HandlersOwe'
  BY <1>0, <1>3, HandlersStay DEF HandlerEvents, PaymentEvents
<1>8. WorkersOwe'
  BY <1>0, <1>2, <1>3, <1>4, <1>5, WorkersStay DEF PaymentEvents
<1> QED BY <1>6, <1>7, <1>8 DEF OweKept


(* A handler takes over an announcement with the step that makes it true. *)
LEMMA NoticeOwed ==
  ASSUME AnnounceInv, LifeStep, TypeOK', NEW r \in Requests,
         AdminCreatePaymentRequest(r) \/ ConfirmIntent(r) \/ Refund(r)
  PROVE  OweKept
<1>0. TypeOK /\ status \in [Payments -> Statuses] /\ UNCHANGED <<emitted, engine, sweep>>
  BY DEF AnnounceInv, LifeInv, CreditInv, TypeOK, StoreTypeOK, AdminCreatePaymentRequest,
     ConfirmIntent, Refund, CreatePaymentRequest, ConfirmPaymentIntent,
     RefundSettledPayment, workerVars
<1>1. PICK p \in Payments, at \in PaymentNotices :
        /\ Proceed(r, Holding(at, p))
        /\ ~Happened(Notice[at], p)
        /\ Happened(Notice[at], p)'
  <2>1. CASE AdminCreatePaymentRequest(r)
    BY <1>0, <2>1 DEF AdminCreatePaymentRequest, CreatePaymentRequest, PaymentNotices,
       Notice, Happened
  <2>2. CASE ConfirmIntent(r)
    <3>1. PICK p \in Payments : p = request[r].payment
      BY <1>0, <2>2, HandlerHolds DEF TypeOK, ConfirmIntent, InHandler, HoldingPayment
    <3> QED
      BY <1>0, <2>2, <3>1 DEF ConfirmIntent, ConfirmPaymentIntent, PaymentNotices, Notice,
         Happened, Confirmed
  <2>3. CASE Refund(r)
    <3>1. PICK p \in Payments : p = request[r].payment
      BY <1>0, <2>3, HandlerHolds DEF TypeOK, Refund, InHandler, HoldingPayment
    <3> QED
      BY <1>0, <2>3, <3>1 DEF Refund, RefundSettledPayment, PaymentNotices, Notice, Happened
  <2> QED BY <2>1, <2>2, <2>3
<1>2. \A e, q : Sent(e, q)' = Sent(e, q)
  BY <1>0 DEF Sent
<1>3. \A e \in PaymentEvents, q \in Payments :
        Announces(Holding(at, p), e, q) => e = Notice[at] /\ q = p
  BY DEF Announces, Holding
<1> HIDE DEF Sent, Happened, Announces
<1>4. HandlersOwe'
  BY <1>1, <1>2, <1>3, HandlersKept
<1>5. SentInv' /\ WorkersOwe'
  BY <1>0, <1>2, SentKept, WorkersStay
<1> QED BY <1>4, <1>5 DEF OweKept

LEMMA NoticeSent ==
  ASSUME AnnounceInv, LifeStep, TypeOK', NEW r \in Requests, AnnounceRequest(r)
  PROVE  OweKept
<1>0. /\ TypeOK /\ HandlersOwe /\ Proceed(r, Idle) /\ UNCHANGED <<engine, sweep>>
      /\ EnqueueWebhook(Notice[request[r].at], Subject(r))
      /\ request[r].at \in PaymentNotices \cup {"announceCompleted"}
  BY DEF AnnounceInv, OweInv, LifeInv, CreditInv, AnnounceRequest, Respond, workerVars,
     Notice, PaymentNotices
<1>1. \A e, p : ~Announces(Idle, e, p)
  BY DEF Announces, Idle, PaymentNotices
<1>2. CASE request[r].at = "announceCompleted"
  <2>1. request[r].run \in Settlements
    BY <1>0, <1>2, HandlerHolds DEF TypeOK, HoldingRun
  <2>2. EnqueueWebhook("completed", request[r].run)
    BY <1>0, <1>2 DEF Subject, InHandler, Notice
  <2>3. \A e \in PaymentEvents, p \in Payments : Sent(e, p)' = Sent(e, p)
    BY <1>0, <2>1, <2>2, SentByCompletion
  <2>4. \A q \in Requests : request'[q] = request[q] \/ request'[q].at \notin PaymentNotices
    BY <1>0 DEF Proceed, Idle, PaymentNotices, TypeOK, MemoryTypeOK
  <2> QED BY <1>0, <2>3, <2>4, SilentStep
<1>3. CASE request[r].at \in PaymentNotices
  <2>1. PICK p \in Payments : p = request[r].payment
    BY <1>0, <1>3, HandlerHolds DEF TypeOK, HoldingPayment, PaymentNotices
  <2>2. PICK e \in HandlerEvents : e = Notice[request[r].at]
    BY <1>3 DEF HandlerEvents, PaymentNotices, Notice
  <2>3. EnqueueWebhook(e, p) /\ Announces(request[r], e, p)
    BY <1>0, <1>3, <2>1, <2>2 DEF Subject, InHandler, PaymentNotices, Announces
  <2>4. e \in PaymentEvents \ {"settled", "expired", "failed"}
    BY DEF HandlerEvents, PaymentEvents
  <2>5. Owed(e, p) /\ \A q \in Requests \ {r} : ~Announces(request[q], e, p)
    BY <1>0, <2>3, <2>4 DEF HandlersOwe
  <2>6. \A f \in PaymentEvents, q \in Payments :
          Sent(f, q)' = IF f = e /\ q = p THEN Sent(f, q) + 1 ELSE Sent(f, q)
    BY <1>0, <2>3, <2>4, SentByEnqueue
  <2> HIDE DEF Sent, Owed, Announces
  <2>7. SentInv'
    BY <2>3, <2>4, <2>5, SentOnce
  <2>8. HandlersOwe'
    BY <1>0, <1>1, <2>5, <2>6, HandlersKept
  <2>9. WorkersOwe'
    BY <1>0, <2>4, <2>6, WorkersStay DEF PaymentEvents
  <2> QED BY <2>7, <2>8, <2>9 DEF OweKept
<1> QED BY <1>0, <1>2, <1>3


LEMMA OtherHandlers ==
  ASSUME AnnounceInv, LifeStep, TypeOK', NEW r \in Requests,
         RequestStep(r) \/ RequestFault(r), ~AnnounceRequest(r),
         ~AdminCreatePaymentRequest(r), ~ConfirmIntent(r), ~Refund(r)
  PROVE  OweKept
<1>0. request \in [Requests -> RequestLocals]
  BY DEF AnnounceInv, LifeInv, CreditInv, TypeOK, MemoryTypeOK
<1>1. UNCHANGED <<emitted, engine, sweep>>
  BY DEF RequestStep, RequestFault, OpenOverdue, ExpirePending, ExpirePendingTooLate,
     ConfirmPayment, ConfirmIntentTooLate, AdminRefundPaymentRequest, RefundRefused,
     TriggerSettlement, ReadOperating, PostSettlement, CompleteRun, CompleteEmptyRun,
     CompleteFailedRun, SettlementFails, RequestFails, RequestDropped,
     UpdatePaymentStatus, CreateSettlement, CompleteSettlement, workerVars, storeVars
<1>2. \E local : Proceed(r, local) /\ local.at \notin PaymentNotices
  <2>1. CASE \/ ExpirePending(r) \/ ExpirePendingTooLate(r) \/ ConfirmIntentTooLate(r)
             \/ RefundRefused(r) \/ CompleteEmptyRun(r) \/ CompleteFailedRun(r)
             \/ RequestFails(r) \/ RequestDropped(r)
    <3>1. Proceed(r, Idle)
      BY <2>1 DEF ExpirePending, ExpirePendingTooLate, ConfirmIntentTooLate, RefundRefused,
         CompleteEmptyRun, CompleteFailedRun, RequestFails, RequestDropped, Respond
    <3>2. Idle.at \notin PaymentNotices
      BY DEF Idle, PaymentNotices
    <3> QED BY <3>1, <3>2
  <2>2. CASE OpenOverdue(r) \/ ConfirmPayment(r) \/ AdminRefundPaymentRequest(r)
    <3>1. PICK at, p : at \in {"expire", "confirm", "refund"} /\ Proceed(r, Holding(at, p))
      BY <2>2 DEF OpenOverdue, ConfirmPayment, AdminRefundPaymentRequest
    <3>2. Holding(at, p).at \notin PaymentNotices
      BY <3>1 DEF Holding, PaymentNotices
    <3> QED BY <3>1, <3>2
  <2>3. CASE TriggerSettlement(r) \/ ReadOperating(r) \/ SettlementFails(r)
    <3>1. PICK at, n, cents :
            /\ at \in {"readBalance", "completeEmpty", "post", "completeFailed"}
            /\ Proceed(r, Settling(at, n, cents))
      BY <2>3 DEF TriggerSettlement, ReadOperating, SettlementFails
    <3>2. Settling(at, n, cents).at \notin PaymentNotices
      BY <3>1 DEF Settling, PaymentNotices
    <3> QED BY <3>1, <3>2
  <2>4. CASE PostSettlement(r) \/ CompleteRun(r)
    <3>1. PICK at \in {"complete", "announceCompleted"} :
            Proceed(r, [request[r] EXCEPT !.at = at])
      BY <2>4 DEF PostSettlement, CompleteRun
    <3>2. [request[r] EXCEPT !.at = at].at \notin PaymentNotices
      BY <1>0 DEF RequestLocals, PaymentNotices
    <3> QED BY <3>1, <3>2
  <2> QED BY <2>1, <2>2, <2>3, <2>4 DEF RequestStep, RequestFault
<1>3. \A q \in Requests : request'[q] = request[q] \/ request'[q].at \notin PaymentNotices
  BY <1>0, <1>2 DEF Proceed
<1> QED BY <1>1, <1>3, SilentStep DEF Sent

LEMMA WorkersSilent ==
  ASSUME AnnounceInv, LifeStep, TypeOK', NEW s \in Servers,
         TransferStep(s) \/ WorkerFault(s) \/ Crash(s),
         ~ExpireTransfer(s), ~MarkTransfer(s), ~FailTransfer(s), ~Announce(s)
  PROVE  OweKept
<1>0. /\ TypeOK
      /\ engine \in [Servers -> EngineLocals]
      /\ sweep \in [Servers -> SUBSET Payments]
      /\ request \in [Requests -> RequestLocals]
  BY DEF AnnounceInv, LifeInv, CreditInv, TypeOK, MemoryTypeOK
<1>1. UNCHANGED emitted
  BY DEF TransferStep, processAwaiting, processOne, ExpireTransferTooLate, PostTransfer,
     PostTransferAgain, MarkTransferAgain, RequeueTransfer, RequeueTransferTooLate,
     WorkerFault, AnnouncementLost, StatementFails, SweptLost, Crash, UpdatePaymentStatus,
     storeVars
<1>2. \A r \in Requests : request'[r] = request[r] \/ request'[r].at \notin PaymentNotices
  <2>1. CASE Crash(s)
    BY <1>0, <2>1 DEF Crash, Idle, PaymentNotices
  <2> QED
    BY <2>1 DEF TransferStep, processAwaiting, processOne, ExpireTransferTooLate,
       PostTransfer, PostTransferAgain, MarkTransferAgain, RequeueTransfer,
       RequeueTransferTooLate, WorkerFault, AnnouncementLost, StatementFails, SweptLost
<1>3. \A t \in Servers : sweep'[t] \subseteq sweep[t]
  <2>1. CASE Crash(s) \/ SweptLost(s)
    BY <1>0, <2>1 DEF Crash, SweptLost
  <2> QED
    BY <2>1 DEF TransferStep, processAwaiting, processOne, ExpireTransferTooLate,
       PostTransfer, PostTransferAgain, MarkTransferAgain, RequeueTransfer,
       RequeueTransferTooLate, WorkerFault, AnnouncementLost, StatementFails
<1>4. \A t \in Servers : engine'[t] = engine[t] \/ engine'[t].at \notin EngineNotices
  <2>1. CASE SweptLost(s)
    BY <2>1 DEF SweptLost
  <2>2. CASE Crash(s)
    BY <1>0, <2>2 DEF Crash, IdleEngine, EngineNotices
  <2>3. CASE AnnouncementLost(s)
    BY <1>0, <2>3, AfterNotice
    DEF AnnouncementLost, AfterAnnouncement, GoTo, Finish
  <2>4. CASE \/ ExpireTransferTooLate(s) \/ MarkTransferAgain(s) \/ RequeueTransfer(s)
             \/ RequeueTransferTooLate(s) \/ StatementFails(s)
    <3>1. Finish(s)
      BY <2>4 DEF ExpireTransferTooLate, MarkTransferAgain, RequeueTransfer,
         RequeueTransferTooLate, StatementFails
    <3> QED BY <1>0, <3>1 DEF Finish, IdleEngine, EngineLocals, EngineNotices
  <2>5. CASE PostTransfer(s) \/ PostTransferAgain(s)
    <3>1. GoTo(s, "mark")
      BY <2>5 DEF PostTransfer, PostTransferAgain
    <3> QED BY <1>0, <3>1 DEF GoTo, EngineLocals, EngineNotices
  <2>6. CASE processAwaiting(s)
    BY <1>0, <2>6 DEF processAwaiting, IdleEngine, EngineNotices
  <2>7. CASE processOne(s)
    BY <1>0, <2>7 DEF processOne, EngineNotices
  <2> QED
    BY <2>1, <2>2, <2>3, <2>4, <2>5, <2>6, <2>7 DEF TransferStep, WorkerFault
<1> QED BY <1>1, <1>2, <1>3, <1>4, SilentStep DEF Sent


LEMMA StepOwes ==
  ASSUME AnnounceInv, LifeStep, TypeOK', OneServer, [Next]_vars
  PROVE  OweKept
<1>1. ASSUME NEW s \in Servers, TransferStep(s) \/ WorkerFault(s) \/ Crash(s)
      PROVE  OweKept
  BY <1>1, OutcomeOwed, OutcomeAnnounced, WorkersSilent
<1>2. ASSUME NEW s \in Servers, SweepStep(s) PROVE OweKept
  BY <1>2, SweepOwes, SweptAnnounced DEF SweepStep
<1>3. ASSUME NEW r \in Requests, RequestStep(r) \/ RequestFault(r) PROVE OweKept
  BY <1>3, NoticeOwed, NoticeSent, OtherHandlers
<1>4. CASE AdminDashboard \/ Clock \/ UNCHANGED vars
  <2>1. UNCHANGED <<emitted, engine, sweep, request>>
    BY <1>4 DEF AdminDashboard, ExpireOverduePendingPayments, Clock, DueDatePasses, vars,
       memoryVars
  <2> QED BY <2>1, SilentStep DEF Sent
<1> QED BY <1>1, <1>2, <1>3, <1>4 DEF Next

LEMMA InitOwes == Init => AnnounceInv
<1> SUFFICES ASSUME Init PROVE AnnounceInv
  OBVIOUS
<1>1. /\ emitted = [k \in EventKeys |-> 0]
      /\ retryCount = [p \in Payments |-> 0]
      /\ engine = [s \in Servers |-> IdleEngine]
      /\ sweep = [s \in Servers |-> {}]
      /\ request = [r \in Requests |-> Idle]
  BY DEF Init, StoreInit, MemoryInit
<1>2. \A e \in PaymentEvents, p \in Payments : Sent(e, p) = 0
  BY <1>1 DEF Sent, EventKeys
<1>3. "failed" \in PaymentEvents
  BY DEF PaymentEvents
<1>4. SentInv
  <2> HIDE DEF Sent
  <2> QED BY <1>1, <1>2, <1>3 DEF SentInv
<1>5. HandlersOwe
  BY <1>1 DEF HandlersOwe, Announces, Idle, PaymentNotices
<1>6. WorkersOwe
  BY <1>1 DEF WorkersOwe, IdleEngine
<1> QED BY <1>4, <1>5, <1>6, InitLife DEF AnnounceInv, OweInv

(* One server announces each outcome of a payment at most once, a failed     *)
(* transfer at most once per counted retry, and only what has happened: the  *)
(* worker or handler whose statement moved the payment is the only one that  *)
(* ever owes the announcement, and a crash loses it rather than repeats it.  *)
THEOREM EachAnnouncedOnce ==
  ASSUME OneServer
  PROVE  Spec => []AnnouncedOnce
<1>1. Init => AnnounceInv BY InitOwes
<1>2. AnnounceInv /\ [Next]_vars => AnnounceInv'
  <2> SUFFICES ASSUME AnnounceInv, [Next]_vars PROVE AnnounceInv'
    OBVIOUS
  <2>1. LifeInv' /\ LifeStep
    BY NextLife DEF AnnounceInv
  <2>2. TypeOK'
    BY <2>1 DEF LifeInv, CreditInv
  <2>3. OweKept
    BY <2>1, <2>2, StepOwes
  <2> QED BY <2>1, <2>3 DEF AnnounceInv, OweInv, OweKept
<1>3. AnnounceInv => AnnouncedOnce
  BY DEF AnnounceInv, OweInv, SentInv, Sent, Happened, PaymentEvents, AnnouncedOnce
<1> QED BY <1>1, <1>2, <1>3, PTL DEF Spec

=============================================================================
