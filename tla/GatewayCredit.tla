------------------------- MODULE GatewayCredit -------------------------
(* Proofs for any payments, servers, request slots, bounds and faults: that  *)
(* the running system keeps its types, that money is on the ledger before a  *)
(* status says so, and that the ledger implements the abstract journal.      *)
EXTENDS GatewayProperties, TLAPS

-----------------------------------------------------------------------------
(* Operations of the ledger and of the store. *)

(* A balanced posting writes well-formed rows and whole-cent balances. *)
LEMMA PostingTypes ==
  ASSUME StoreTypeOK, NEW dr \in Entries, NEW cr \in Entries, postInTx(dr, cr)
  PROVE  entries' \subseteq Entries /\ balance' \in [Wallets -> Int]
<1>1. dr.wallet \in Wallets /\ cr.wallet \in Wallets /\ dr.cents \in Int /\ cr.cents \in Int
  BY DEF Entries
<1>2. entries' \subseteq Entries
  BY DEF postInTx, StoreTypeOK
<1>3. balance' \in [Wallets -> Int]
  BY <1>1 DEF postInTx, StoreTypeOK
<1> QED BY <1>2, <1>3

(* A release leaves a natural number, whatever was pending. *)
LEMMA ReleasedType ==
  ASSUME StoreTypeOK, NEW p \in Payments
  PROVE  Released(Amount[p]) \in Nat
<1>1. Amount[p] \in Nat BY LedgerAssumption
<1> QED BY <1>1 DEF Released, StoreTypeOK

LEMMA EntryType ==
  ASSUME NEW w \in Wallets, NEW d \in Directions, NEW t \in EntryTypes,
         NEW ref \in Refs, NEW cents \in Int
  PROVE  Entry(w, d, t, ref, cents) \in Entries
BY DEF Entry, Entries

LEMMA ClearTypes ==
  ASSUME StoreTypeOK, NEW p \in Payments, ClearPendingEscrowToOperating(p),
         UNCHANGED <<paymentVars, settlement, overdue, emitted>>
  PROVE  StoreTypeOK'
<1> DEFINE dr == Entry("OPERATING", "DR", "PAYMENT_IN", p, Amount[p])
           cr == Entry("ESCROW", "CR", "SIMULATION", p, Amount[p])
<1>1. Amount[p] \in Int /\ p \in Refs BY LedgerAssumption DEF Refs
<1>2. dr \in Entries /\ cr \in Entries
  BY <1>1, EntryType DEF Wallets, Directions, EntryTypes
<1>3. postInTx(dr, cr) /\ pending' = Released(Amount[p])
  BY DEF ClearPendingEscrowToOperating
<1>4. entries' \subseteq Entries /\ balance' \in [Wallets -> Int]
  BY <1>2, <1>3, PostingTypes
<1>5. pending' \in Nat BY <1>3, ReleasedType
<1> QED BY <1>4, <1>5 DEF StoreTypeOK, paymentVars

LEMMA SettlementTypes ==
  ASSUME StoreTypeOK, NEW n \in Settlements, NEW cents \in Int, RunSettlement(n, cents),
         UNCHANGED <<paymentVars, settlement, overdue, emitted>>
  PROVE  StoreTypeOK'
<1> DEFINE dr == Entry("ESCROW", "DR", "SETTLEMENT", n, cents)
           cr == Entry("OPERATING", "CR", "SETTLEMENT", n, cents)
<1>2. dr \in Entries /\ cr \in Entries
  BY EntryType DEF Wallets, Directions, EntryTypes, Refs
<1>3. postInTx(dr, cr) /\ UNCHANGED pending
  BY DEF RunSettlement
<1>4. entries' \subseteq Entries /\ balance' \in [Wallets -> Int]
  BY <1>2, <1>3, PostingTypes
<1> QED BY <1>3, <1>4 DEF StoreTypeOK, paymentVars

LEMMA RefundTypes ==
  ASSUME StoreTypeOK, NEW p \in Payments, RefundSettledPayment(p)
  PROVE  StoreTypeOK'
<1> DEFINE dr == Entry("ESCROW", "DR", "REVERSAL", p, Amount[p])
           cr == Entry("OPERATING", "CR", "REVERSAL", p, Amount[p])
<1>1. Amount[p] \in Int /\ p \in Refs BY LedgerAssumption DEF Refs
<1>2. dr \in Entries /\ cr \in Entries
  BY <1>1, EntryType DEF Wallets, Directions, EntryTypes
<1>3. postInTx(dr, cr) /\ UNCHANGED pending
  BY DEF RefundSettledPayment, RefundPostings
<1>4. entries' \subseteq Entries /\ balance' \in [Wallets -> Int]
  BY <1>2, <1>3, PostingTypes
<1>5. status' \in [Payments -> Statuses]
  BY DEF RefundSettledPayment, StoreTypeOK, Statuses
<1> QED BY <1>3, <1>4, <1>5 DEF StoreTypeOK, RefundSettledPayment

(* A sweep expires overdue rows only, as many as its limit admits. *)
LEMMA BatchIsOverdue ==
  ASSUME NEW ids, ExpireOverduePendingPayments(ids)
  PROVE  ids \subseteq OverduePending
BY DEF ExpireOverduePendingPayments, OverdueBatches

(* Every other operation of the store, each with its own columns. *)
LEMMA StatusOperationTypes ==
  ASSUME StoreTypeOK, NEW p \in Payments, NEW from, NEW to \in Statuses,
         \/ CreatePaymentRequest(p)
         \/ MarkPaymentSettledIdempotent(p)
         \/ UpdatePaymentStatus(p, from, to)
         \/ IncrementRetryAndSetStatus(p, to)
         \/ \E ids \in OverdueBatches : ExpireOverduePendingPayments(ids)
         \/ DueDatePasses(p)
  PROVE  StoreTypeOK'
<1>1. CASE CreatePaymentRequest(p)
  BY <1>1 DEF CreatePaymentRequest, StoreTypeOK, Statuses, ledgerVars
<1>2. CASE MarkPaymentSettledIdempotent(p)
  BY <1>2 DEF MarkPaymentSettledIdempotent, StoreTypeOK, Statuses, ledgerVars
<1>3. CASE UpdatePaymentStatus(p, from, to)
  BY <1>3 DEF UpdatePaymentStatus, StoreTypeOK, ledgerVars
<1>4. CASE IncrementRetryAndSetStatus(p, to)
  BY <1>4 DEF IncrementRetryAndSetStatus, StoreTypeOK, ledgerVars
<1>5. CASE \E ids \in OverdueBatches : ExpireOverduePendingPayments(ids)
  <2>1. status' \in [Payments -> Statuses]
    BY <1>5 DEF ExpireOverduePendingPayments, StoreTypeOK, Statuses
  <2> QED BY <1>5, <2>1 DEF ExpireOverduePendingPayments, StoreTypeOK, ledgerVars
<1>6. CASE DueDatePasses(p)
  BY <1>6 DEF DueDatePasses, StoreTypeOK, ledgerVars, paymentVars
<1> QED BY <1>1, <1>2, <1>3, <1>4, <1>5, <1>6

LEMMA PendingOperationTypes ==
  ASSUME StoreTypeOK, NEW p \in Payments,
         ConfirmPaymentIntent(p) \/ ExpireAwaitingTransfer(p)
  PROVE  StoreTypeOK'
<1>1. CASE ConfirmPaymentIntent(p)
  <2>0. Amount[p] \in Nat /\ pending \in Nat
    BY LedgerAssumption DEF StoreTypeOK
  <2>1. pending' \in Nat
    BY <1>1, <2>0 DEF ConfirmPaymentIntent
  <2>2. status' \in [Payments -> Statuses]
    BY <1>1 DEF ConfirmPaymentIntent, StoreTypeOK, Statuses
  <2> QED BY <1>1, <2>1, <2>2 DEF ConfirmPaymentIntent, StoreTypeOK
<1>2. CASE ExpireAwaitingTransfer(p)
  <2>1. pending' \in Nat
    BY <1>2, ReleasedType DEF ExpireAwaitingTransfer
  <2>2. status' \in [Payments -> Statuses]
    BY <1>2 DEF ExpireAwaitingTransfer, StoreTypeOK, Statuses
  <2> QED BY <1>2, <2>1, <2>2 DEF ExpireAwaitingTransfer, StoreTypeOK
<1> QED BY <1>1, <1>2

LEMMA SettlementRowTypes ==
  ASSUME StoreTypeOK, NEW n \in Settlements, NEW cents \in Int,
         NEW to \in SettlementStatuses,
         CreateSettlement(n) \/ CompleteSettlement(n, cents, to)
  PROVE  StoreTypeOK'
<1>1. settlement' \in [Settlements -> [status : SettlementStatuses, cents : Int]]
  BY DEF CreateSettlement, CompleteSettlement, StoreTypeOK, SettlementStatuses
<1> QED BY <1>1 DEF CreateSettlement, CompleteSettlement, StoreTypeOK, ledgerVars, paymentVars

LEMMA OutboxTypes ==
  ASSUME StoreTypeOK, NEW event, NEW ref, <<event, ref>> \in EventKeys,
         EnqueueWebhook(event, ref)
  PROVE  StoreTypeOK'
<1> DEFINE key == <<event, ref>>
<1>1. emitted' \in [EventKeys -> Nat]
  <2>1. key \in EventKeys /\ emitted' = [emitted EXCEPT ![key] = @ + 1]
    BY DEF EnqueueWebhook
  <2> HIDE DEF key
  <2>2. emitted \in [EventKeys -> Nat]
    BY DEF StoreTypeOK
  <2> QED BY <2>1, <2>2
<1> QED BY <1>1 DEF EnqueueWebhook, StoreTypeOK, ledgerVars, paymentVars

LEMMA StoreUnchangedTypes ==
  ASSUME StoreTypeOK, UNCHANGED storeVars
  PROVE  StoreTypeOK'
BY DEF StoreTypeOK, storeVars, ledgerVars, paymentVars

-----------------------------------------------------------------------------
(* Steps of the workers. *)

(* What an engine at work on a row holds. *)
LEMMA EngineHolds ==
  ASSUME MemoryTypeOK, NEW s \in Servers, engine[s].at \in EngineWorking
  PROVE  engine[s].payment \in Payments /\ engine[s].seen \in [Payments -> Nat]
BY DEF MemoryTypeOK, EngineLocals

LEMMA GoToTypes ==
  ASSUME MemoryTypeOK, NEW s \in Servers, engine[s].at \in EngineWorking,
         NEW at \in EngineWorking, GoTo(s, at), UNCHANGED <<dueAt, sweep, request>>
  PROVE  MemoryTypeOK'
<1>1. engine[s] \in EngineLocals /\ engine[s].payment # None
  BY DEF MemoryTypeOK
<1>2. [engine[s] EXCEPT !.at = at] \in EngineLocals
  BY <1>1 DEF EngineLocals
<1>3. engine' = [engine EXCEPT ![s] = [engine[s] EXCEPT !.at = at]]
  BY <1>1 DEF GoTo, MemoryTypeOK
<1>4. engine' \in [Servers -> EngineLocals]
  BY <1>2, <1>3 DEF MemoryTypeOK
<1>5. [engine[s] EXCEPT !.at = at].payment = engine[s].payment
  BY <1>1 DEF EngineLocals
<1>6. \A t \in Servers : engine'[t].at \in EngineWorking => engine'[t].payment # None
  BY <1>1, <1>3, <1>5 DEF MemoryTypeOK
<1> QED BY <1>4, <1>6 DEF MemoryTypeOK

LEMMA FinishTypes ==
  ASSUME MemoryTypeOK, NEW s \in Servers, engine[s].at \in EngineWorking,
         Finish(s), UNCHANGED <<sweep, request>>
  PROVE  MemoryTypeOK'
<1> DEFINE next == IF engine[s].todo = {} THEN IdleEngine
                   ELSE [engine[s] EXCEPT !.at = "pick", !.payment = None]
<1>1. engine[s] \in EngineLocals /\ engine[s].payment \in Payments
  BY EngineHolds DEF MemoryTypeOK
<1>2. IdleEngine \in EngineLocals /\ IdleEngine.at = "idle"
  BY DEF IdleEngine, EngineLocals
<1>3. [engine[s] EXCEPT !.at = "pick", !.payment = None] \in EngineLocals
  BY <1>1 DEF EngineLocals
<1>4. next \in EngineLocals /\ next.at \notin EngineWorking
  BY <1>1, <1>2, <1>3 DEF EngineWorking, EngineLocals
<1>5. engine' = [engine EXCEPT ![s] = next]
  BY DEF Finish, MemoryTypeOK
<1> HIDE DEF next
<1>6. engine' \in [Servers -> EngineLocals]
  BY <1>4, <1>5 DEF MemoryTypeOK
<1>7. \A t \in Servers : engine'[t].at \in EngineWorking => engine'[t].payment # None
  BY <1>4, <1>5 DEF MemoryTypeOK
<1>8. dueAt' \in [Servers -> [Payments -> (0 .. MaxDelayTicks) \cup {None}]]
  BY <1>1 DEF Finish, MemoryTypeOK
<1> QED BY <1>6, <1>7, <1>8 DEF MemoryTypeOK

LEMMA ScanTypes ==
  ASSUME TypeOK, NEW s \in Servers, processAwaiting(s)
  PROVE  TypeOK'
<1> DEFINE due == {p \in GetAwaitingTransfers : dueAt'[s][p] = 0}
           next == IF due = {} THEN IdleEngine
                   ELSE [at |-> "pick", payment |-> None, todo |-> due,
                         seen |-> [p \in Payments |->
                                     IF p \in due THEN retryCount[p] ELSE 0]]
<1>1. PICK d \in Delays(s, GetAwaitingTransfers) : dueAt' = [dueAt EXCEPT ![s] = d]
  BY DEF processAwaiting
<1>2. d \in [Payments -> (0 .. MaxDelayTicks) \cup {None}]
  BY DEF Delays
<1>3. dueAt' \in [Servers -> [Payments -> (0 .. MaxDelayTicks) \cup {None}]]
  BY <1>1, <1>2 DEF TypeOK, MemoryTypeOK
<1>4. due \in SUBSET Payments
  BY DEF GetAwaitingTransfers
<1>5. next \in EngineLocals /\ next.at \notin EngineWorking
  BY <1>4 DEF EngineLocals, EngineWorking, IdleEngine, TypeOK, StoreTypeOK
<1>6. engine' = [engine EXCEPT ![s] = next]
  BY DEF processAwaiting
<1> HIDE DEF next
<1>7. engine' \in [Servers -> EngineLocals]
  BY <1>5, <1>6 DEF TypeOK, MemoryTypeOK
<1>8. \A t \in Servers : engine'[t].at \in EngineWorking => engine'[t].payment # None
  BY <1>5, <1>6 DEF TypeOK, MemoryTypeOK
<1>9. StoreTypeOK' /\ UNCHANGED <<sweep, request>>
  BY StoreUnchangedTypes DEF processAwaiting, TypeOK
<1> QED BY <1>3, <1>7, <1>8, <1>9 DEF TypeOK, MemoryTypeOK

LEMMA PickTypes ==
  ASSUME TypeOK, NEW s \in Servers, processOne(s)
  PROVE  TypeOK'
<1> DEFINE next(p, at) == [at |-> at, payment |-> p, todo |-> engine[s].todo \ {p},
                           seen |-> engine[s].seen]
<1>1. PICK p \in engine[s].todo, at \in EngineWorking :
        engine' = [engine EXCEPT ![s] = next(p, at)]
  BY DEF processOne, EngineWorking
<1>2. engine[s] \in EngineLocals
  BY DEF TypeOK, MemoryTypeOK
<1>3. p \in Payments /\ p # None
  BY <1>2, StoreAssumption DEF EngineLocals
<1>4. next(p, at) \in EngineLocals /\ next(p, at).payment # None
  BY <1>2, <1>3 DEF EngineLocals
<1> HIDE DEF next
<1>6. engine' \in [Servers -> EngineLocals]
  BY <1>1, <1>4 DEF TypeOK, MemoryTypeOK
<1>7. \A t \in Servers : engine'[t].at \in EngineWorking => engine'[t].payment # None
  BY <1>1, <1>4 DEF TypeOK, MemoryTypeOK
<1>8. StoreTypeOK' /\ UNCHANGED <<dueAt, sweep, request>>
  BY StoreUnchangedTypes DEF processOne, TypeOK
<1> QED BY <1>6, <1>7, <1>8 DEF TypeOK, MemoryTypeOK

LEMMA TransferTypes ==
  ASSUME TypeOK, NEW s \in Servers, TransferStep(s)
  PROVE  TypeOK'
<1> DEFINE p == engine[s].payment
<1> USE DEF TypeOK
<1>0. ASSUME engine[s].at \in EngineWorking PROVE p \in Payments
  BY <1>0, EngineHolds
<1>1. CASE processAwaiting(s) BY <1>1, ScanTypes
<1>2. CASE processOne(s) BY <1>2, PickTypes
<1>3. CASE ExpireTransfer(s)
  <2>1. engine[s].at \in EngineWorking
    BY <1>3 DEF ExpireTransfer, At, EngineWorking
  <2>2. StoreTypeOK'
    BY <1>3, <1>0, <2>1, PendingOperationTypes DEF ExpireTransfer
  <2>3. MemoryTypeOK'
    BY <1>3, <2>1, GoToTypes DEF ExpireTransfer, EngineWorking
  <2> QED BY <2>2, <2>3
<1>4. CASE ExpireTransferTooLate(s)
  BY <1>4, FinishTypes, StoreUnchangedTypes DEF ExpireTransferTooLate, At, EngineWorking
<1>5. CASE PostTransfer(s)
  <2>1. engine[s].at \in EngineWorking
    BY <1>5 DEF PostTransfer, At, EngineWorking
  <2>2. StoreTypeOK'
    BY <1>5, <1>0, <2>1, ClearTypes DEF PostTransfer
  <2>3. MemoryTypeOK'
    BY <1>5, <2>1, GoToTypes DEF PostTransfer, EngineWorking
  <2> QED BY <2>2, <2>3
<1>6. CASE PostTransferAgain(s)
  BY <1>6, GoToTypes, StoreUnchangedTypes DEF PostTransferAgain, At, EngineWorking
<1>7. CASE MarkTransfer(s)
  <2>1. engine[s].at \in EngineWorking
    BY <1>7 DEF MarkTransfer, At, EngineWorking
  <2>2. StoreTypeOK'
    BY <1>7, <1>0, <2>1, StatusOperationTypes DEF MarkTransfer, Statuses
  <2>3. MemoryTypeOK'
    BY <1>7, <2>1, GoToTypes DEF MarkTransfer, EngineWorking
  <2> QED BY <2>2, <2>3
<1>8. CASE MarkTransferAgain(s)
  BY <1>8, FinishTypes, StoreUnchangedTypes DEF MarkTransferAgain, At, EngineWorking
<1>9. CASE FailTransfer(s)
  <2>1. engine[s].at \in EngineWorking
    BY <1>9 DEF FailTransfer, At, EngineWorking
  <2>2. StoreTypeOK'
    BY <1>9, <1>0, <2>1, StatusOperationTypes DEF FailTransfer, Statuses
  <2>3. MemoryTypeOK'
    BY <1>9, <2>1, GoToTypes DEF FailTransfer, EngineWorking
  <2> QED BY <2>2, <2>3
<1>10. CASE RequeueTransfer(s)
  <2>1. engine[s].at \in EngineWorking
    BY <1>10 DEF RequeueTransfer, At, EngineWorking
  <2>2. StoreTypeOK'
    BY <1>10, <1>0, <2>1, StatusOperationTypes DEF RequeueTransfer, Statuses
  <2>3. MemoryTypeOK'
    BY <1>10, <2>1, FinishTypes DEF RequeueTransfer
  <2> QED BY <2>2, <2>3
<1>11. CASE RequeueTransferTooLate(s)
  BY <1>11, FinishTypes, StoreUnchangedTypes DEF RequeueTransferTooLate, At, EngineWorking
<1>12. CASE Announce(s)
  <2>1. engine[s].at \in {"announceSettled", "announceExpired", "announceFailed"}
    BY <1>12 DEF Announce, Outcome
  <2>2. engine[s].at \in EngineWorking
    BY <2>1 DEF EngineWorking
  <2>3. Outcome[engine[s].at] \in PaymentEvents
    BY <2>1 DEF Outcome, PaymentEvents
  <2>4. <<Outcome[engine[s].at], p>> \in EventKeys
    BY <1>0, <2>2, <2>3 DEF EventKeys
  <2>5. StoreTypeOK'
    BY <1>12, <2>4, OutboxTypes DEF Announce
  <2>6. CASE At(s, "announceFailed") /\ MayRetry(s)
    BY <1>12, <2>2, <2>5, <2>6, GoToTypes DEF Announce, AfterAnnouncement, EngineWorking
  <2>7. CASE ~(At(s, "announceFailed") /\ MayRetry(s))
    BY <1>12, <2>2, <2>5, <2>7, FinishTypes DEF Announce, AfterAnnouncement
  <2> QED BY <2>6, <2>7
<1> QED
  BY <1>1, <1>2, <1>3, <1>4, <1>5, <1>6, <1>7, <1>8, <1>9, <1>10, <1>11, <1>12
  DEF TransferStep

LEMMA SweepTypes ==
  ASSUME TypeOK, NEW s \in Servers, SweepStep(s)
  PROVE  TypeOK'
<1>1. CASE expireOverduePayments(s)
  <2>1. PICK p \in Payments : TRUE
    BY <1>1 DEF expireOverduePayments, OverduePending
  <2>2. PICK ids \in OverdueBatches :
          ExpireOverduePendingPayments(ids) /\ sweep' = [sweep EXCEPT ![s] = ids]
    BY <1>1 DEF expireOverduePayments
  <2>3. ids \in SUBSET Payments
    BY <2>2, BatchIsOverdue DEF OverduePending
  <2>4. StoreTypeOK'
    BY <2>1, <2>2, StatusOperationTypes DEF TypeOK, Statuses
  <2>5. MemoryTypeOK'
    BY <1>1, <2>2, <2>3 DEF expireOverduePayments, TypeOK, MemoryTypeOK
  <2> QED BY <2>4, <2>5 DEF TypeOK
<1>2. CASE AnnounceSwept(s)
  <2>1. PICK p \in sweep[s] : EnqueueWebhook("expired", p) /\ sweep' = [sweep EXCEPT ![s] = @ \ {p}]
    BY <1>2 DEF AnnounceSwept
  <2>2. <<"expired", p>> \in EventKeys
    BY DEF TypeOK, MemoryTypeOK, EventKeys, PaymentEvents
  <2>3. StoreTypeOK'
    BY <2>1, <2>2, OutboxTypes DEF TypeOK
  <2>4. MemoryTypeOK'
    BY <1>2, <2>1 DEF AnnounceSwept, TypeOK, MemoryTypeOK
  <2> QED BY <2>3, <2>4 DEF TypeOK
<1> QED BY <1>1, <1>2 DEF SweepStep

LEMMA WorkerFaultTypes ==
  ASSUME TypeOK, NEW s \in Servers, WorkerFault(s)
  PROVE  TypeOK'
<1> USE DEF TypeOK
<1>1. CASE AnnouncementLost(s)
  <2>1. engine[s].at \in EngineWorking
    BY <1>1 DEF AnnouncementLost, Outcome, EngineWorking
  <2>2. StoreTypeOK'
    BY <1>1, StoreUnchangedTypes DEF AnnouncementLost
  <2>3. CASE At(s, "announceFailed") /\ MayRetry(s)
    BY <1>1, <2>1, <2>2, <2>3, GoToTypes DEF AnnouncementLost, AfterAnnouncement, EngineWorking
  <2>4. CASE ~(At(s, "announceFailed") /\ MayRetry(s))
    BY <1>1, <2>1, <2>2, <2>4, FinishTypes DEF AnnouncementLost, AfterAnnouncement
  <2> QED BY <2>3, <2>4
<1>2. CASE StatementFails(s)
  <2>1. engine[s].at \in EngineWorking
    BY <1>2 DEF StatementFails, EngineWorking
  <2> QED BY <1>2, <2>1, FinishTypes, StoreUnchangedTypes DEF StatementFails
<1>3. CASE SweptLost(s)
  <2>1. MemoryTypeOK'
    BY <1>3 DEF SweptLost, MemoryTypeOK
  <2> QED BY <1>3, <2>1, StoreUnchangedTypes DEF SweptLost
<1> QED BY <1>1, <1>2, <1>3 DEF WorkerFault

LEMMA CrashTypes ==
  ASSUME TypeOK, NEW s \in Servers, Crash(s)
  PROVE  TypeOK'
<1>1. IdleEngine \in EngineLocals /\ IdleEngine.at \notin EngineWorking
  BY DEF IdleEngine, EngineLocals, EngineWorking
<1>2. Idle \in RequestLocals /\ Idle.at \notin HoldingPayment \cup HoldingRun
  BY DEF Idle, RequestLocals, HoldingPayment, HoldingRun
<1>3. engine' \in [Servers -> EngineLocals]
      /\ \A t \in Servers : engine'[t].at \in EngineWorking => engine'[t].payment # None
  BY <1>1 DEF Crash, TypeOK, MemoryTypeOK
<1>4. /\ request' \in [Requests -> RequestLocals]
      /\ \A r \in Requests :
           /\ request'[r].at \in HoldingPayment => request'[r].payment # None
           /\ request'[r].at \in HoldingRun => request'[r].run # None
  BY <1>2 DEF Crash, TypeOK, MemoryTypeOK
<1>5. /\ dueAt' \in [Servers -> [Payments -> (0 .. MaxDelayTicks) \cup {None}]]
      /\ sweep' \in [Servers -> SUBSET Payments]
  BY DEF Crash, TypeOK, MemoryTypeOK
<1>6. StoreTypeOK'
  BY StoreUnchangedTypes DEF Crash, TypeOK
<1> QED BY <1>3, <1>4, <1>5, <1>6 DEF TypeOK, MemoryTypeOK

-----------------------------------------------------------------------------
(* Steps of the handlers. *)

LEMMA ProceedTypes ==
  ASSUME MemoryTypeOK, NEW r \in Requests, NEW local \in RequestLocals,
         local.at \in HoldingPayment => local.payment # None,
         local.at \in HoldingRun => local.run # None,
         Proceed(r, local), UNCHANGED workerVars
  PROVE  MemoryTypeOK'
BY DEF MemoryTypeOK, Proceed, workerVars

LEMMA RespondTypes ==
  ASSUME MemoryTypeOK, NEW r \in Requests, Respond(r), UNCHANGED workerVars
  PROVE  MemoryTypeOK'
<1>1. Idle \in RequestLocals /\ Idle.at \notin HoldingPayment \cup HoldingRun
  BY DEF Idle, RequestLocals, HoldingPayment, HoldingRun
<1> QED BY <1>1, ProceedTypes DEF Respond

LEMMA HoldingTypes ==
  ASSUME MemoryTypeOK, NEW r \in Requests, NEW p \in Payments,
         NEW at \in HoldingPayment, Proceed(r, Holding(at, p)), UNCHANGED workerVars
  PROVE  MemoryTypeOK'
<1> DEFINE local == Holding(at, p)
<1>1. /\ local \in RequestLocals
      /\ local.payment = p
      /\ local.at = at
  BY DEF Holding, RequestLocals
<1>2. p # None /\ at \notin HoldingRun
  BY StoreAssumption DEF HoldingPayment, HoldingRun
<1> HIDE DEF local
<1> QED BY <1>1, <1>2, ProceedTypes DEF local

LEMMA SettlingTypes ==
  ASSUME MemoryTypeOK, NEW r \in Requests, NEW n \in Settlements, NEW cents \in Int,
         NEW at \in HoldingRun, Proceed(r, Settling(at, n, cents)), UNCHANGED workerVars
  PROVE  MemoryTypeOK'
<1> DEFINE local == Settling(at, n, cents)
<1>1. /\ local \in RequestLocals
      /\ local.run = n
      /\ local.at = at
  BY DEF Settling, RequestLocals
<1>2. n # None /\ at \notin HoldingPayment
  BY StoreAssumption DEF HoldingPayment, HoldingRun
<1> HIDE DEF local
<1> QED BY <1>1, <1>2, ProceedTypes DEF local

(* What a handler in the middle of its statements holds. *)
LEMMA HandlerHolds ==
  ASSUME MemoryTypeOK, NEW r \in Requests
  PROVE  /\ request[r].at \in HoldingPayment => request[r].payment \in Payments
         /\ request[r].at \in HoldingRun =>
              request[r].run \in Settlements /\ request[r].cents \in Int
         /\ request[r].at \in HoldingRun =>
              [request[r] EXCEPT !.at = "complete"] \in RequestLocals
         /\ request[r].at \in HoldingRun =>
              [request[r] EXCEPT !.at = "announceCompleted"] \in RequestLocals
<1>1. request[r] \in RequestLocals
  BY DEF MemoryTypeOK
<1> QED BY <1>1 DEF MemoryTypeOK, RequestLocals, HoldingRun

LEMMA PaymentHandlerTypes ==
  ASSUME TypeOK, NEW r \in Requests,
         \/ AdminCreatePaymentRequest(r)
         \/ OpenOverdue(r)
         \/ ExpirePending(r)
         \/ ExpirePendingTooLate(r)
         \/ ConfirmPayment(r)
         \/ ConfirmIntent(r)
         \/ ConfirmIntentTooLate(r)
         \/ AdminRefundPaymentRequest(r)
         \/ Refund(r)
         \/ RefundRefused(r)
  PROVE  TypeOK'
<1> USE DEF TypeOK, InHandler
<1>1. CASE AdminCreatePaymentRequest(r)
  <2>1. PICK p \in Payments :
          CreatePaymentRequest(p) /\ Proceed(r, Holding("announceCreated", p))
    BY <1>1 DEF AdminCreatePaymentRequest
  <2>2. StoreTypeOK'
    BY <2>1, StatusOperationTypes DEF Statuses
  <2>3. MemoryTypeOK'
    BY <1>1, <2>1, HoldingTypes DEF AdminCreatePaymentRequest, HoldingPayment
  <2> QED BY <2>2, <2>3
<1>2. CASE OpenOverdue(r)
  BY <1>2, HoldingTypes, StoreUnchangedTypes DEF OpenOverdue, OverduePending, HoldingPayment
<1>3. CASE ExpirePending(r)
  <2>1. request[r].payment \in Payments
    BY <1>3, HandlerHolds DEF ExpirePending, HoldingPayment
  <2>2. StoreTypeOK'
    BY <1>3, <2>1, StatusOperationTypes DEF ExpirePending, Statuses
  <2> QED BY <1>3, <2>2, RespondTypes DEF ExpirePending
<1>4. CASE ExpirePendingTooLate(r)
  BY <1>4, RespondTypes, StoreUnchangedTypes DEF ExpirePendingTooLate
<1>5. CASE ConfirmPayment(r)
  BY <1>5, HoldingTypes, StoreUnchangedTypes DEF ConfirmPayment, HoldingPayment
<1>6. CASE ConfirmIntent(r)
  <2>1. request[r].payment \in Payments
    BY <1>6, HandlerHolds DEF ConfirmIntent, HoldingPayment
  <2>2. StoreTypeOK'
    BY <1>6, <2>1, PendingOperationTypes DEF ConfirmIntent
  <2> QED BY <1>6, <2>1, <2>2, HoldingTypes DEF ConfirmIntent, HoldingPayment
<1>7. CASE ConfirmIntentTooLate(r)
  BY <1>7, RespondTypes, StoreUnchangedTypes DEF ConfirmIntentTooLate
<1>8. CASE AdminRefundPaymentRequest(r)
  BY <1>8, HoldingTypes, StoreUnchangedTypes DEF AdminRefundPaymentRequest, HoldingPayment
<1>9. CASE Refund(r)
  <2>1. request[r].payment \in Payments
    BY <1>9, HandlerHolds DEF Refund, HoldingPayment
  <2>2. StoreTypeOK'
    BY <1>9, <2>1, RefundTypes DEF Refund
  <2> QED BY <1>9, <2>1, <2>2, HoldingTypes DEF Refund, HoldingPayment
<1>10. CASE RefundRefused(r)
  BY <1>10, RespondTypes, StoreUnchangedTypes DEF RefundRefused
<1> QED BY <1>1, <1>2, <1>3, <1>4, <1>5, <1>6, <1>7, <1>8, <1>9, <1>10

LEMMA SettlementHandlerTypes ==
  ASSUME TypeOK, NEW r \in Requests,
         \/ TriggerSettlement(r)
         \/ ReadOperating(r)
         \/ PostSettlement(r)
         \/ CompleteRun(r)
         \/ CompleteEmptyRun(r)
         \/ CompleteFailedRun(r)
  PROVE  TypeOK'
<1> DEFINE n == request[r].run
<1> USE DEF TypeOK, InHandler
<1>0. ASSUME request[r].at \in HoldingRun
      PROVE  n \in Settlements /\ n # None /\ request[r].cents \in Int
  BY <1>0, HandlerHolds DEF MemoryTypeOK
<1>1. CASE TriggerSettlement(r)
  <2>1. PICK m \in Settlements :
          CreateSettlement(m) /\ Proceed(r, Settling("readBalance", m, 0))
    BY <1>1 DEF TriggerSettlement
  <2>2. StoreTypeOK'
    BY <2>1, SettlementRowTypes DEF SettlementStatuses
  <2> QED BY <1>1, <2>1, <2>2, SettlingTypes DEF TriggerSettlement, HoldingRun
<1>2. CASE ReadOperating(r)
  <2>1. n \in Settlements /\ balance["OPERATING"] \in Int
    BY <1>0, <1>2 DEF ReadOperating, HoldingRun, StoreTypeOK, Wallets
  <2>2. StoreTypeOK' /\ UNCHANGED workerVars
    BY <1>2, StoreUnchangedTypes DEF ReadOperating
  <2>3. CASE balance["OPERATING"] <= 0
    BY <1>2, <2>1, <2>2, <2>3, SettlingTypes DEF ReadOperating, HoldingRun
  <2>4. CASE ~(balance["OPERATING"] <= 0)
    BY <1>2, <2>1, <2>2, <2>4, SettlingTypes DEF ReadOperating, HoldingRun
  <2> QED BY <2>3, <2>4
<1>3. CASE PostSettlement(r)
  <2>0. request[r].at \in HoldingRun
    BY <1>3 DEF PostSettlement, HoldingRun
  <2>1. n \in Settlements /\ n # None /\ request[r].cents \in Int
    BY <1>0, <2>0
  <2>2. StoreTypeOK'
    BY <1>3, <2>1, SettlementTypes DEF PostSettlement
  <2>3. [request[r] EXCEPT !.at = "complete"] \in RequestLocals
    BY <2>0, HandlerHolds
  <2>4. /\ [request[r] EXCEPT !.at = "complete"].run = n
        /\ [request[r] EXCEPT !.at = "complete"].at = "complete"
    BY <2>3 DEF MemoryTypeOK, RequestLocals
  <2>5. MemoryTypeOK'
    BY <1>3, <2>1, <2>3, <2>4, ProceedTypes DEF PostSettlement, HoldingPayment
  <2> QED BY <2>2, <2>5
<1>4. CASE CompleteRun(r)
  <2>0. request[r].at \in HoldingRun
    BY <1>4 DEF CompleteRun, HoldingRun
  <2>1. n \in Settlements /\ n # None /\ request[r].cents \in Int
    BY <1>0, <2>0
  <2>2. StoreTypeOK'
    BY <1>4, <2>1, SettlementRowTypes DEF CompleteRun, SettlementStatuses
  <2>3. [request[r] EXCEPT !.at = "announceCompleted"] \in RequestLocals
    BY <2>0, HandlerHolds
  <2>4. /\ [request[r] EXCEPT !.at = "announceCompleted"].run = n
        /\ [request[r] EXCEPT !.at = "announceCompleted"].at = "announceCompleted"
    BY <2>3 DEF MemoryTypeOK, RequestLocals
  <2>5. MemoryTypeOK'
    BY <1>4, <2>1, <2>3, <2>4, ProceedTypes DEF CompleteRun, HoldingPayment
  <2> QED BY <2>2, <2>5
<1>5. CASE CompleteEmptyRun(r)
  <2>1. n \in Settlements
    BY <1>0, <1>5 DEF CompleteEmptyRun, HoldingRun
  <2>2. StoreTypeOK'
    BY <1>5, <2>1, SettlementRowTypes DEF CompleteEmptyRun, SettlementStatuses
  <2> QED BY <1>5, <2>2, RespondTypes DEF CompleteEmptyRun
<1>6. CASE CompleteFailedRun(r)
  <2>1. n \in Settlements
    BY <1>0, <1>6 DEF CompleteFailedRun, HoldingRun
  <2>2. StoreTypeOK'
    BY <1>6, <2>1, SettlementRowTypes DEF CompleteFailedRun, SettlementStatuses
  <2> QED BY <1>6, <2>2, RespondTypes DEF CompleteFailedRun
<1> QED BY <1>1, <1>2, <1>3, <1>4, <1>5, <1>6

LEMMA AnnounceRequestTypes ==
  ASSUME TypeOK, NEW r \in Requests, AnnounceRequest(r)
  PROVE  TypeOK'
<1> USE DEF TypeOK, InHandler
<1>1. request[r].at \in {"announceCreated", "announceConfirmed", "announceRefunded",
                         "announceCompleted"}
  BY DEF AnnounceRequest, Notice
<1>2. CASE request[r].at = "announceCompleted"
  <2>1. request[r].run \in Settlements
    BY <1>2, HandlerHolds DEF HoldingRun
  <2>2. <<Notice[request[r].at], Subject(r)>> \in EventKeys
    BY <1>2, <2>1 DEF Notice, Subject, EventKeys
  <2> QED BY <2>2, OutboxTypes, RespondTypes DEF AnnounceRequest
<1>3. CASE request[r].at # "announceCompleted"
  <2>1. request[r].payment \in Payments
    BY <1>1, <1>3, HandlerHolds DEF HoldingPayment
  <2>2. <<Notice[request[r].at], Subject(r)>> \in EventKeys
    BY <1>1, <1>3, <2>1 DEF Notice, Subject, EventKeys, PaymentEvents
  <2> QED BY <2>2, OutboxTypes, RespondTypes DEF AnnounceRequest
<1> QED BY <1>2, <1>3

LEMMA RequestFaultTypes ==
  ASSUME TypeOK, NEW r \in Requests, RequestFault(r)
  PROVE  TypeOK'
<1> USE DEF TypeOK
<1>1. CASE SettlementFails(r)
  <2>1. request[r].run \in Settlements
    BY <1>1, HandlerHolds DEF SettlementFails, HoldingRun
  <2> QED
    BY <1>1, <2>1, SettlingTypes, StoreUnchangedTypes DEF SettlementFails, HoldingRun
<1>2. CASE RequestFails(r)
  BY <1>2, RespondTypes, StoreUnchangedTypes DEF RequestFails
<1>3. CASE RequestDropped(r)
  BY <1>3, RespondTypes, StoreUnchangedTypes DEF RequestDropped
<1> QED BY <1>1, <1>2, <1>3 DEF RequestFault

-----------------------------------------------------------------------------
LEMMA InitTypes == Init => TypeOK
<1> SUFFICES ASSUME Init PROVE TypeOK
  OBVIOUS
<1>1. StoreTypeOK
  BY DEF Init, StoreInit, EnsureDefaultWallets, StoreTypeOK, Statuses, SettlementStatuses
<1>2. IdleEngine \in EngineLocals /\ IdleEngine.at \notin EngineWorking
  BY DEF IdleEngine, EngineLocals, EngineWorking
<1>3. Idle \in RequestLocals /\ Idle.at \notin HoldingPayment \cup HoldingRun
  BY DEF Idle, RequestLocals, HoldingPayment, HoldingRun
<1>4. MemoryTypeOK
  BY <1>2, <1>3 DEF Init, MemoryInit, MemoryTypeOK
<1> QED BY <1>1, <1>4 DEF TypeOK

LEMMA NextTypes == TypeOK /\ [Next]_vars => TypeOK'
<1> SUFFICES ASSUME TypeOK, [Next]_vars PROVE TypeOK'
  OBVIOUS
<1>1. ASSUME NEW s \in Servers,
             TransferStep(s) \/ SweepStep(s) \/ WorkerFault(s) \/ Crash(s)
      PROVE  TypeOK'
  BY <1>1, TransferTypes, SweepTypes, WorkerFaultTypes, CrashTypes
<1>2. ASSUME NEW r \in Requests, RequestStep(r) \/ RequestFault(r)
      PROVE  TypeOK'
  BY <1>2, PaymentHandlerTypes, SettlementHandlerTypes, AnnounceRequestTypes,
     RequestFaultTypes DEF RequestStep
<1>3. CASE AdminDashboard
  <2>1. PICK p \in Payments : TRUE
    BY <1>3 DEF AdminDashboard, OverduePending
  <2>2. StoreTypeOK'
    BY <1>3, <2>1, StatusOperationTypes DEF AdminDashboard, TypeOK, Statuses
  <2> QED BY <1>3, <2>2 DEF AdminDashboard, TypeOK, MemoryTypeOK, memoryVars
<1>4. CASE Clock
  <2>1. PICK p \in Payments : DueDatePasses(p) /\ UNCHANGED memoryVars
    BY <1>4 DEF Clock
  <2>2. StoreTypeOK'
    BY <2>1, StatusOperationTypes DEF TypeOK, Statuses
  <2> QED BY <2>1, <2>2 DEF TypeOK, MemoryTypeOK, memoryVars
<1>5. CASE UNCHANGED vars
  BY <1>5 DEF vars, TypeOK, StoreTypeOK, MemoryTypeOK
<1> QED BY <1>1, <1>2, <1>3, <1>4, <1>5 DEF Next

(* Every reachable state is well typed: in particular the pending figure of  *)
(* the ESCROW wallet is never negative, and no worker or handler reaches a   *)
(* statement without the row it is about, however crashes cut them off.      *)
THEOREM TypeCorrect == Spec => []TypeOK
<1>1. Init => TypeOK BY InitTypes
<1>2. TypeOK /\ [Next]_vars => TypeOK' BY NextTypes
<1> QED BY <1>1, <1>2, PTL DEF Spec

-----------------------------------------------------------------------------
(* The inductive invariant. *)

(* The three kinds of posting and the wallets they move between. *)
RowShape(e) ==
    \/ /\ e.type = "PAYMENT_IN"
       /\ e.wallet = "OPERATING" /\ e.direction = "DR"
    \/ /\ e.type = "SIMULATION"
       /\ e.wallet = "ESCROW" /\ e.direction = "CR"
    \/ /\ e.type \in {"REVERSAL", "SETTLEMENT"}
       /\ \/ e.wallet = "OPERATING" /\ e.direction = "CR"
          \/ e.wallet = "ESCROW" /\ e.direction = "DR"

Confirmed(p) == status[p] \notin {"NONE", "PENDING"}

StoreInv ==
    /\ \A e \in entries : RowShape(e)
    /\ CreditBeforeStatus

(* An engine only ever handles payments their payers have confirmed, and    *)
(* marks one only once its money is posted, although the rows it read may   *)
(* be stale by now.                                                         *)
EngineInv ==
    /\ \A s \in Servers : \A p \in engine[s].todo : Confirmed(p)
    /\ \A s \in Servers : engine[s].at \in EngineWorking => Confirmed(engine[s].payment)
    /\ \A s \in Servers : engine[s].at = "mark" => Credited(engine[s].payment)

CreditInv == TypeOK /\ StoreInv /\ EngineInv

-----------------------------------------------------------------------------
(* How a step may move the statuses. *)
StatusStep ==
    \A p \in Payments :
      \/ status'[p] = status[p]
      \/ status'[p] \in {"AWAITING_TRANSFER", "FAILED", "EXPIRED"}
      \/ status[p] = "NONE" /\ status'[p] = "PENDING"
      \/ status'[p] = "SETTLED" /\ Credited(p)
      \/ status'[p] = "CANCELLED"

(* The payment p is on the ledger after the step. *)
PostedAfter(p) == \E e \in entries' : e.type = "PAYMENT_IN" /\ e.ref = p

(* Statuses move, but no money does. *)
LEMMA StoreKept ==
  ASSUME StoreInv, StatusStep, UNCHANGED entries,
         \A p \in Payments : status'[p] = "CANCELLED" => status[p] = "CANCELLED"
  PROVE  StoreInv'
<1>1. \A p \in Payments : /\ Credited(p)' <=> Credited(p)
                          /\ Reversed(p)' <=> Reversed(p)
  BY DEF Credited, Reversed, Posted
<1> QED BY <1>1 DEF StoreInv, CreditBeforeStatus, StatusStep

LEMMA EngineKept ==
  ASSUME TypeOK, EngineInv, StatusStep, entries \subseteq entries', UNCHANGED engine
  PROVE  EngineInv'
<1>1. \A s \in Servers : engine[s].todo \subseteq Payments
  BY DEF TypeOK, MemoryTypeOK, EngineLocals
<1>2. \A s \in Servers : engine[s].at \in EngineWorking => engine[s].payment \in Payments
  BY EngineHolds DEF TypeOK
<1> QED
  BY <1>1, <1>2 DEF EngineInv, EngineWorking, Confirmed, Credited, Posted, StatusStep

LEMMA GoToKept ==
  ASSUME TypeOK, EngineInv, StatusStep, entries \subseteq entries',
         NEW s \in Servers, engine[s].at \in EngineWorking, NEW at \in EngineWorking,
         GoTo(s, at), at = "mark" => PostedAfter(engine[s].payment)
  PROVE  EngineInv'
<1>1. \A t \in Servers : engine[t].todo \subseteq Payments
  BY DEF TypeOK, MemoryTypeOK, EngineLocals
<1>2. \A t \in Servers : engine[t].at \in EngineWorking => engine[t].payment \in Payments
  BY EngineHolds DEF TypeOK
<1>3. /\ engine \in [Servers -> EngineLocals]
      /\ engine' = [engine EXCEPT ![s].at = at]
  BY DEF GoTo, TypeOK, MemoryTypeOK
<1>4. \A t \in Servers : /\ engine'[t].todo = engine[t].todo
                         /\ engine'[t].payment = engine[t].payment
  BY <1>3 DEF EngineLocals
<1>5. \A t \in Servers : engine'[t].at = IF t = s THEN at ELSE engine[t].at
  BY <1>3 DEF EngineLocals
<1>6. (\A t \in Servers : \A p \in engine[t].todo : Confirmed(p))'
  BY <1>1, <1>4 DEF EngineInv, Confirmed, StatusStep
<1>7. (\A t \in Servers : engine[t].at \in EngineWorking => Confirmed(engine[t].payment))'
  BY <1>2, <1>4, <1>5 DEF EngineInv, Confirmed, StatusStep
<1>8. (\A t \in Servers : engine[t].at = "mark" => Credited(engine[t].payment))'
  BY <1>4, <1>5 DEF EngineInv, Credited, Posted, PostedAfter
<1> QED BY <1>6, <1>7, <1>8 DEF EngineInv

LEMMA FinishKept ==
  ASSUME TypeOK, EngineInv, StatusStep, entries \subseteq entries',
         NEW s \in Servers, Finish(s)
  PROVE  EngineInv'
<1>1. \A t \in Servers : engine[t].todo \subseteq Payments
  BY DEF TypeOK, MemoryTypeOK, EngineLocals
<1>2. \A t \in Servers : engine[t].at \in EngineWorking => engine[t].payment \in Payments
  BY EngineHolds DEF TypeOK
<1>3. engine \in [Servers -> EngineLocals]
  BY DEF TypeOK, MemoryTypeOK
<1>4. engine'[s].at \in {"idle", "pick"} /\ engine'[s].todo = engine[s].todo
  BY <1>3 DEF Finish, IdleEngine, EngineLocals
<1>5. \A t \in Servers : t # s => engine'[t] = engine[t]
  BY <1>3 DEF Finish
<1>6. (\A t \in Servers : \A p \in engine[t].todo : Confirmed(p))'
  BY <1>1, <1>4, <1>5 DEF EngineInv, Confirmed, StatusStep
<1>7. engine'[s].at \notin EngineWorking /\ engine'[s].at # "mark"
  BY <1>4 DEF EngineWorking
<1>8. (\A t \in Servers : engine[t].at \in EngineWorking => Confirmed(engine[t].payment))'
  BY <1>2, <1>5, <1>7 DEF EngineInv, Confirmed, StatusStep
<1>9. (\A t \in Servers : engine[t].at = "mark" => Credited(engine[t].payment))'
  BY <1>5, <1>7 DEF EngineInv, Credited, Posted
<1> QED BY <1>6, <1>8, <1>9 DEF EngineInv

(* A step that leaves statuses and entries alone. *)
LEMMA StoreStutters ==
  ASSUME StoreInv, UNCHANGED <<status, entries>>
  PROVE  StoreInv' /\ StatusStep /\ entries \subseteq entries'
<1>1. StatusStep /\ entries \subseteq entries'
  BY DEF StatusStep
<1> QED BY <1>1, StoreKept

(* Operations of the store that post nothing, and how they move statuses. *)
LEMMA StatusOperations ==
  ASSUME TypeOK, NEW p \in Payments, NEW n, NEW cents, NEW run, NEW event, NEW ref,
         \/ CreatePaymentRequest(p)
         \/ ConfirmPaymentIntent(p)
         \/ MarkPaymentSettledIdempotent(p) /\ Credited(p)
         \/ ExpireAwaitingTransfer(p)
         \/ UpdatePaymentStatus(p, "PENDING", "EXPIRED")
         \/ UpdatePaymentStatus(p, "FAILED", "AWAITING_TRANSFER")
         \/ IncrementRetryAndSetStatus(p, "FAILED")
         \/ \E ids \in OverdueBatches : ExpireOverduePendingPayments(ids)
         \/ CreateSettlement(n)
         \/ CompleteSettlement(n, cents, run)
         \/ EnqueueWebhook(event, ref)
  PROVE  /\ StatusStep
         /\ UNCHANGED entries
         /\ \A q \in Payments : status'[q] = "CANCELLED" => status[q] = "CANCELLED"
<1>0. status \in [Payments -> Statuses]
  BY DEF TypeOK, StoreTypeOK
<1>1. CASE CreatePaymentRequest(p)
  BY <1>0, <1>1 DEF CreatePaymentRequest, StatusStep, ledgerVars
<1>2. CASE ConfirmPaymentIntent(p)
  BY <1>0, <1>2 DEF ConfirmPaymentIntent, StatusStep
<1>3. CASE MarkPaymentSettledIdempotent(p) /\ Credited(p)
  BY <1>0, <1>3 DEF MarkPaymentSettledIdempotent, StatusStep, ledgerVars
<1>4. CASE ExpireAwaitingTransfer(p)
  BY <1>0, <1>4 DEF ExpireAwaitingTransfer, StatusStep
<1>5. CASE UpdatePaymentStatus(p, "PENDING", "EXPIRED")
  BY <1>0, <1>5 DEF UpdatePaymentStatus, StatusStep, ledgerVars
<1>6. CASE UpdatePaymentStatus(p, "FAILED", "AWAITING_TRANSFER")
  BY <1>0, <1>6 DEF UpdatePaymentStatus, StatusStep, ledgerVars
<1>7. CASE IncrementRetryAndSetStatus(p, "FAILED")
  BY <1>0, <1>7 DEF IncrementRetryAndSetStatus, StatusStep, ledgerVars
<1>8. CASE \E ids \in OverdueBatches : ExpireOverduePendingPayments(ids)
  <2>1. PICK ids \in OverdueBatches : ExpireOverduePendingPayments(ids)
    BY <1>8
  <2>2. \A q \in Payments : \/ status'[q] = status[q]
                            \/ status[q] = "PENDING" /\ status'[q] = "EXPIRED"
    BY <2>1, BatchIsOverdue DEF ExpireOverduePendingPayments, OverduePending
  <2> QED BY <1>0, <2>1, <2>2 DEF ExpireOverduePendingPayments, StatusStep, ledgerVars
<1>9. CASE CreateSettlement(n)
  BY <1>9 DEF CreateSettlement, StatusStep, ledgerVars, paymentVars
<1>10. CASE CompleteSettlement(n, cents, run)
  BY <1>10 DEF CompleteSettlement, StatusStep, ledgerVars, paymentVars
<1>11. CASE EnqueueWebhook(event, ref)
  BY <1>11 DEF EnqueueWebhook, StatusStep, ledgerVars, paymentVars
<1> QED
  BY <1>1, <1>2, <1>3, <1>4, <1>5, <1>6, <1>7, <1>8, <1>9, <1>10, <1>11

(* Each of them keeps what is said of the store and of an idle engine. *)
LEMMA StatusOperationsKeep ==
  ASSUME CreditInv, StatusStep, UNCHANGED entries,
         \A q \in Payments : status'[q] = "CANCELLED" => status[q] = "CANCELLED"
  PROVE  StoreInv' /\ entries \subseteq entries' /\ (UNCHANGED engine => EngineInv')
BY StoreKept, EngineKept DEF CreditInv

-----------------------------------------------------------------------------
(* The three postings. *)

LEMMA ClearKeeps ==
  ASSUME CreditInv, NEW p \in Payments, Confirmed(p), ClearPendingEscrowToOperating(p),
         UNCHANGED paymentVars
  PROVE  /\ StoreInv' /\ StatusStep /\ entries \subseteq entries'
         /\ Credited(p)'
<1> DEFINE dr == Entry("OPERATING", "DR", "PAYMENT_IN", p, Amount[p])
           cr == Entry("ESCROW", "CR", "SIMULATION", p, Amount[p])
<1>1. entries' = entries \cup {dr, cr} /\ UNCHANGED status
  BY DEF ClearPendingEscrowToOperating, postInTx, paymentVars
<1>2. RowShape(dr) /\ RowShape(cr)
  BY DEF Entry, RowShape
<1>3. /\ dr.type = "PAYMENT_IN" /\ dr.ref = p
      /\ cr.type = "SIMULATION"
  BY DEF Entry
<1> HIDE DEF dr, cr
<1>4. \A e \in entries' : RowShape(e)
  BY <1>1, <1>2 DEF CreditInv, StoreInv
<1>5. \A q \in Payments :
        /\ Credited(q)' <=> Credited(q) \/ q = p
        /\ Reversed(q)' <=> Reversed(q)
  BY <1>1, <1>3 DEF Credited, Reversed, Posted
<1>6. CreditBeforeStatus'
  BY <1>1, <1>5 DEF CreditInv, StoreInv, CreditBeforeStatus, Confirmed
<1> QED BY <1>1, <1>4, <1>5, <1>6 DEF StoreInv, StatusStep, RowShape

LEMMA SettlementKeeps ==
  ASSUME CreditInv, NEW n, NEW cents, RunSettlement(n, cents), UNCHANGED paymentVars
  PROVE  StoreInv' /\ StatusStep /\ entries \subseteq entries'
<1> DEFINE dr == Entry("ESCROW", "DR", "SETTLEMENT", n, cents)
           cr == Entry("OPERATING", "CR", "SETTLEMENT", n, cents)
<1>1. entries' = entries \cup {dr, cr} /\ UNCHANGED status
  BY DEF RunSettlement, postInTx, paymentVars
<1>2. RowShape(dr) /\ RowShape(cr)
  BY DEF Entry, RowShape
<1>3. dr.type = "SETTLEMENT" /\ cr.type = "SETTLEMENT"
  BY DEF Entry
<1> HIDE DEF dr, cr
<1>4. \A e \in entries' : RowShape(e)
  BY <1>1, <1>2 DEF CreditInv, StoreInv
<1>5. \A q \in Payments : /\ Credited(q)' <=> Credited(q)
                          /\ Reversed(q)' <=> Reversed(q)
  BY <1>1, <1>3 DEF Credited, Reversed, Posted
<1>6. CreditBeforeStatus'
  BY <1>1, <1>5 DEF CreditInv, StoreInv, CreditBeforeStatus
<1> QED BY <1>1, <1>4, <1>6 DEF StoreInv, StatusStep, RowShape

LEMMA RefundKeeps ==
  ASSUME CreditInv, NEW p \in Payments, RefundSettledPayment(p)
  PROVE  StoreInv' /\ StatusStep /\ entries \subseteq entries'
<1> DEFINE dr == Entry("ESCROW", "DR", "REVERSAL", p, Amount[p])
           cr == Entry("OPERATING", "CR", "REVERSAL", p, Amount[p])
<1>1. /\ entries' = entries \cup {dr, cr}
      /\ status[p] = "SETTLED"
      /\ status' = [status EXCEPT ![p] = "CANCELLED"]
  BY DEF RefundSettledPayment, RefundPostings, postInTx
<1>2. RowShape(dr) /\ RowShape(cr)
  BY DEF Entry, RowShape
<1>3. dr.type = "REVERSAL" /\ cr.type = "REVERSAL" /\ dr.ref = p /\ cr.ref = p
  BY DEF Entry
<1> HIDE DEF dr, cr
<1>4. \A e \in entries' : RowShape(e)
  BY <1>1, <1>2 DEF CreditInv, StoreInv
<1>5. \A q \in Payments : /\ Credited(q)' <=> Credited(q)
                          /\ Reversed(q)' <=> Reversed(q) \/ q = p
  BY <1>1, <1>3 DEF Credited, Reversed, Posted
<1>6. \A q \in Payments : status'[q] = IF q = p THEN "CANCELLED" ELSE status[q]
  BY <1>1 DEF CreditInv, TypeOK, StoreTypeOK
<1>7. CreditBeforeStatus'
  BY <1>1, <1>5, <1>6 DEF CreditInv, StoreInv, CreditBeforeStatus
<1> QED BY <1>1, <1>4, <1>6, <1>7 DEF StoreInv, StatusStep, RowShape

-----------------------------------------------------------------------------
(* Steps of the workers. *)

LEMMA TransferKeeps ==
  ASSUME CreditInv, NEW s \in Servers, TransferStep(s)
  PROVE  StoreInv' /\ EngineInv'
<1> DEFINE p == engine[s].payment
<1>a. TypeOK /\ StoreInv /\ EngineInv
  BY DEF CreditInv
<1>0. ASSUME engine[s].at \in EngineWorking PROVE p \in Payments /\ Confirmed(p)
  BY <1>a, <1>0, EngineHolds DEF TypeOK, EngineInv
<1>b. ASSUME UNCHANGED <<status, entries>>
      PROVE  StoreInv' /\ StatusStep /\ entries \subseteq entries'
  BY <1>a, <1>b, StoreStutters
<1>1. CASE processAwaiting(s)
  <2>1. StoreInv' /\ StatusStep /\ entries \subseteq entries'
    BY <1>1, <1>b DEF processAwaiting, storeVars, paymentVars, ledgerVars
  <2>2. \A q \in GetAwaitingTransfers : q \in Payments /\ Confirmed(q)'
    BY <1>1 DEF GetAwaitingTransfers, Unprocessed, Confirmed, processAwaiting,
       storeVars, paymentVars
  <2>3. /\ engine'[s].at \in {"idle", "pick"}
        /\ engine'[s].todo \subseteq GetAwaitingTransfers
    BY <1>a, <1>1 DEF processAwaiting, IdleEngine, TypeOK, MemoryTypeOK
  <2>4. \A t \in Servers : t # s => engine'[t] = engine[t]
    BY <1>a, <1>1 DEF processAwaiting, TypeOK, MemoryTypeOK
  <2>5. UNCHANGED <<status, entries>>
    BY <1>1 DEF processAwaiting, storeVars, paymentVars, ledgerVars
  <2>6. EngineInv'
    BY <1>a, <2>2, <2>3, <2>4, <2>5 DEF EngineInv, Confirmed, Credited, Posted, EngineWorking
  <2> QED BY <2>1, <2>6
<1>2. CASE processOne(s)
  <2>1. UNCHANGED <<status, entries>>
    BY <1>2 DEF processOne, storeVars, paymentVars, ledgerVars
  <2>2. StoreInv'
    BY <2>1, <1>b
  <2>3. PICK q \in engine[s].todo, at \in {"expire", "post", "fail"} :
          engine' = [engine EXCEPT
            ![s] = [at |-> at, payment |-> q, todo |-> engine[s].todo \ {q},
                    seen |-> engine[s].seen]]
    BY <1>2 DEF processOne
  <2>4. /\ engine'[s].at # "mark"
        /\ engine'[s].payment = q
        /\ engine'[s].todo \subseteq engine[s].todo
    BY <1>a, <2>3 DEF TypeOK, MemoryTypeOK
  <2>5. \A t \in Servers : t # s => engine'[t] = engine[t]
    BY <1>a, <2>3 DEF TypeOK, MemoryTypeOK
  <2>6. EngineInv'
    BY <1>a, <2>1, <2>4, <2>5 DEF EngineInv, Confirmed, Credited, Posted
  <2> QED BY <2>2, <2>6
<1>3. CASE ExpireTransfer(s)
  <2>1. engine[s].at \in EngineWorking
    BY <1>3 DEF ExpireTransfer, At, EngineWorking
  <2>2. StatusStep /\ StoreInv' /\ entries \subseteq entries'
    BY <1>3, <1>0, <1>a, <2>1, StatusOperations, StatusOperationsKeep DEF ExpireTransfer
  <2> QED BY <1>3, <1>a, <2>1, <2>2, GoToKept DEF ExpireTransfer, EngineWorking
<1>4. CASE ExpireTransferTooLate(s)
  <2>1. StoreInv' /\ StatusStep /\ entries \subseteq entries'
    BY <1>4, <1>b DEF ExpireTransferTooLate, storeVars, paymentVars, ledgerVars
  <2> QED BY <1>4, <1>a, <2>1, FinishKept DEF ExpireTransferTooLate
<1>5. CASE PostTransfer(s)
  <2>1. engine[s].at \in EngineWorking
    BY <1>5 DEF PostTransfer, At, EngineWorking
  <2>2. PICK q \in Payments : q = engine[s].payment
    BY <1>0, <2>1
  <2>3. UNCHANGED paymentVars /\ ClearPendingEscrowToOperating(q) /\ Confirmed(q)
    BY <1>0, <1>5, <2>1, <2>2 DEF PostTransfer
  <2>4. StatusStep /\ StoreInv' /\ entries \subseteq entries' /\ Credited(q)'
    BY <2>3, ClearKeeps
  <2>5. GoTo(s, "mark") /\ PostedAfter(q)
    BY <1>5, <2>4 DEF PostTransfer, Credited, Posted, PostedAfter
  <2> QED BY <1>a, <2>1, <2>2, <2>4, <2>5, GoToKept DEF EngineWorking
<1>6. CASE PostTransferAgain(s)
  <2>1. StoreInv' /\ StatusStep /\ entries \subseteq entries'
    BY <1>6, <1>b DEF PostTransferAgain, storeVars, paymentVars, ledgerVars
  <2>2. engine[s].at \in EngineWorking
    BY <1>6 DEF PostTransferAgain, At, EngineWorking
  <2>3. GoTo(s, "mark") /\ PostedAfter(p)
    BY <1>6, <2>1 DEF PostTransferAgain, Posted, PostedAfter
  <2> QED BY <1>a, <2>1, <2>2, <2>3, GoToKept DEF EngineWorking
<1>7. CASE MarkTransfer(s)
  <2>1. engine[s].at \in EngineWorking /\ Credited(p)
    BY <1>7, <1>a DEF MarkTransfer, At, EngineWorking, EngineInv
  <2>2. StatusStep /\ StoreInv' /\ entries \subseteq entries'
    BY <1>7, <1>0, <1>a, <2>1, StatusOperations, StatusOperationsKeep DEF MarkTransfer
  <2> QED BY <1>7, <1>a, <2>1, <2>2, GoToKept DEF MarkTransfer, EngineWorking
<1>8. CASE MarkTransferAgain(s)
  <2>1. StoreInv' /\ StatusStep /\ entries \subseteq entries'
    BY <1>8, <1>b DEF MarkTransferAgain, storeVars, paymentVars, ledgerVars
  <2> QED BY <1>8, <1>a, <2>1, FinishKept DEF MarkTransferAgain
<1>9. CASE FailTransfer(s)
  <2>1. engine[s].at \in EngineWorking
    BY <1>9 DEF FailTransfer, At, EngineWorking
  <2>2. StatusStep /\ StoreInv' /\ entries \subseteq entries'
    BY <1>9, <1>0, <1>a, <2>1, StatusOperations, StatusOperationsKeep DEF FailTransfer
  <2> QED BY <1>9, <1>a, <2>1, <2>2, GoToKept DEF FailTransfer, EngineWorking
<1>10. CASE RequeueTransfer(s)
  <2>1. engine[s].at \in EngineWorking
    BY <1>10 DEF RequeueTransfer, At, EngineWorking
  <2>2. StatusStep /\ StoreInv' /\ entries \subseteq entries'
    BY <1>10, <1>0, <1>a, <2>1, StatusOperations, StatusOperationsKeep DEF RequeueTransfer
  <2> QED BY <1>10, <1>a, <2>2, FinishKept DEF RequeueTransfer
<1>11. CASE RequeueTransferTooLate(s)
  <2>1. StoreInv' /\ StatusStep /\ entries \subseteq entries'
    BY <1>11, <1>b DEF RequeueTransferTooLate, storeVars, paymentVars, ledgerVars
  <2> QED BY <1>11, <1>a, <2>1, FinishKept DEF RequeueTransferTooLate
<1>12. CASE Announce(s)
  <2>1. engine[s].at \in EngineWorking
    BY <1>12 DEF Announce, Outcome, EngineWorking
  <2>2. StatusStep /\ StoreInv' /\ entries \subseteq entries'
    BY <1>12, <1>0, <1>a, <2>1, StatusOperations, StatusOperationsKeep DEF Announce
  <2>3. CASE At(s, "announceFailed") /\ MayRetry(s)
    BY <1>12, <1>a, <2>1, <2>2, <2>3, GoToKept DEF Announce, AfterAnnouncement, EngineWorking
  <2>4. CASE ~(At(s, "announceFailed") /\ MayRetry(s))
    BY <1>12, <1>a, <2>2, <2>4, FinishKept DEF Announce, AfterAnnouncement
  <2> QED BY <2>3, <2>4
<1> QED
  BY <1>1, <1>2, <1>3, <1>4, <1>5, <1>6, <1>7, <1>8, <1>9, <1>10, <1>11, <1>12
  DEF TransferStep

LEMMA SweepKeeps ==
  ASSUME CreditInv, NEW s \in Servers, SweepStep(s)
  PROVE  StoreInv' /\ EngineInv'
<1>1. CASE expireOverduePayments(s)
  <2>1. PICK p \in Payments : TRUE
    BY <1>1 DEF expireOverduePayments, OverduePending
  <2> QED
    BY <1>1, <2>1, StatusOperations, StatusOperationsKeep
    DEF CreditInv, expireOverduePayments
<1>2. CASE AnnounceSwept(s)
  <2>1. PICK p \in Payments : EnqueueWebhook("expired", p)
    BY <1>2 DEF AnnounceSwept, CreditInv, TypeOK, MemoryTypeOK
  <2>2. UNCHANGED engine
    BY <1>2 DEF AnnounceSwept
  <2> QED
    BY <2>1, <2>2, StatusOperations, StatusOperationsKeep DEF CreditInv
<1> QED BY <1>1, <1>2 DEF SweepStep

LEMMA FaultKeeps ==
  ASSUME CreditInv, NEW s \in Servers, WorkerFault(s) \/ Crash(s)
  PROVE  StoreInv' /\ EngineInv'
<1>a. TypeOK /\ StoreInv /\ EngineInv
  BY DEF CreditInv
<1>b. UNCHANGED storeVars
  BY DEF WorkerFault, AnnouncementLost, StatementFails, SweptLost, Crash
<1>c. StoreInv' /\ StatusStep /\ entries \subseteq entries'
  BY <1>a, <1>b, StoreStutters DEF storeVars, paymentVars, ledgerVars
<1>1. CASE AnnouncementLost(s)
  <2>1. engine[s].at \in EngineWorking
    BY <1>1 DEF AnnouncementLost, Outcome, EngineWorking
  <2>3. CASE At(s, "announceFailed") /\ MayRetry(s)
    BY <1>1, <1>a, <1>c, <2>1, <2>3, GoToKept
    DEF AnnouncementLost, AfterAnnouncement, EngineWorking
  <2>4. CASE ~(At(s, "announceFailed") /\ MayRetry(s))
    BY <1>1, <1>a, <1>c, <2>4, FinishKept DEF AnnouncementLost, AfterAnnouncement
  <2> QED BY <2>3, <2>4
<1>2. CASE StatementFails(s)
  BY <1>2, <1>a, <1>c, FinishKept DEF StatementFails
<1>3. CASE SweptLost(s)
  BY <1>3, <1>a, <1>c, EngineKept DEF SweptLost
<1>4. CASE Crash(s)
  <2>1. \A t \in Servers : engine'[t] = IF t = s THEN IdleEngine ELSE engine[t]
    BY <1>4, <1>a DEF Crash, TypeOK, MemoryTypeOK
  <2>2. UNCHANGED <<status, entries>>
    BY <1>b DEF storeVars, paymentVars, ledgerVars
  <2>3. EngineInv'
    BY <1>a, <2>1, <2>2
    DEF EngineInv, Confirmed, Credited, Posted, IdleEngine, EngineWorking
  <2> QED BY <1>c, <2>3
<1> QED BY <1>1, <1>2, <1>3, <1>4 DEF WorkerFault

-----------------------------------------------------------------------------
(* Steps of the handlers. None touches an engine. *)

LEMMA HandlerKeeps ==
  ASSUME CreditInv, NEW r \in Requests, RequestStep(r) \/ RequestFault(r)
  PROVE  StoreInv' /\ EngineInv'
<1>a. TypeOK /\ StoreInv /\ EngineInv
  BY DEF CreditInv
<1>b. UNCHANGED engine
  BY DEF RequestStep, RequestFault, workerVars, AdminCreatePaymentRequest, OpenOverdue,
     ExpirePending, ExpirePendingTooLate, ConfirmPayment, ConfirmIntent,
     ConfirmIntentTooLate, AdminRefundPaymentRequest, Refund, RefundRefused,
     TriggerSettlement, ReadOperating, PostSettlement, CompleteRun, CompleteEmptyRun,
     CompleteFailedRun, AnnounceRequest, SettlementFails, RequestFails, RequestDropped
<1>c. request[r].at \in HoldingPayment => request[r].payment \in Payments
  BY <1>a, HandlerHolds DEF TypeOK
<1>1. CASE \/ OpenOverdue(r) \/ ExpirePendingTooLate(r) \/ ConfirmPayment(r)
           \/ ConfirmIntentTooLate(r) \/ AdminRefundPaymentRequest(r) \/ RefundRefused(r)
           \/ ReadOperating(r) \/ RequestFault(r)
  <2>1. UNCHANGED storeVars
    BY <1>1 DEF OpenOverdue, ExpirePendingTooLate, ConfirmPayment, ConfirmIntentTooLate,
       AdminRefundPaymentRequest, RefundRefused, ReadOperating, RequestFault,
       SettlementFails, RequestFails, RequestDropped
  <2>2. StoreInv' /\ StatusStep /\ entries \subseteq entries'
    BY <1>a, <2>1, StoreStutters DEF storeVars, paymentVars, ledgerVars
  <2> QED BY <1>a, <1>b, <2>2, EngineKept
<1>2. CASE AdminCreatePaymentRequest(r)
  <2>1. PICK p \in Payments : CreatePaymentRequest(p)
    BY <1>2 DEF AdminCreatePaymentRequest
  <2> QED BY <1>a, <1>b, <2>1, StatusOperations, StatusOperationsKeep
<1>3. CASE ExpirePending(r)
  <2>1. request[r].payment \in Payments
    BY <1>3, <1>c DEF ExpirePending, InHandler, HoldingPayment
  <2>2. UpdatePaymentStatus(request[r].payment, "PENDING", "EXPIRED")
    BY <1>3 DEF ExpirePending
  <2> QED BY <1>a, <1>b, <2>1, <2>2, StatusOperations, StatusOperationsKeep
<1>4. CASE ConfirmIntent(r)
  <2>1. request[r].payment \in Payments
    BY <1>4, <1>c DEF ConfirmIntent, InHandler, HoldingPayment
  <2>2. ConfirmPaymentIntent(request[r].payment)
    BY <1>4 DEF ConfirmIntent
  <2> QED BY <1>a, <1>b, <2>1, <2>2, StatusOperations, StatusOperationsKeep
<1>5. CASE Refund(r)
  <2>1. request[r].payment \in Payments
    BY <1>5, <1>c DEF Refund, InHandler, HoldingPayment
  <2>2. RefundSettledPayment(request[r].payment)
    BY <1>5 DEF Refund
  <2> QED BY <1>a, <1>b, <2>1, <2>2, RefundKeeps, EngineKept
<1>6. CASE PostSettlement(r)
  <2>1. RunSettlement(request[r].run, request[r].cents) /\ UNCHANGED paymentVars
    BY <1>6 DEF PostSettlement
  <2> QED BY <1>a, <1>b, <2>1, SettlementKeeps, EngineKept
<1>7. CASE TriggerSettlement(r) \/ CompleteRun(r) \/ CompleteEmptyRun(r)
           \/ CompleteFailedRun(r)
  <2>1. StatusStep /\ UNCHANGED <<status, entries>>
    BY <1>7 DEF TriggerSettlement, CompleteRun, CompleteEmptyRun, CompleteFailedRun,
       CreateSettlement, CompleteSettlement, StatusStep, ledgerVars, paymentVars
  <2> QED BY <1>a, <1>b, <2>1, StoreStutters, EngineKept
<1>8. CASE AnnounceRequest(r)
  <2>1. UNCHANGED <<status, entries>>
    BY <1>8 DEF AnnounceRequest, EnqueueWebhook, ledgerVars, paymentVars
  <2> QED BY <1>a, <1>b, <2>1, StoreStutters, EngineKept
<1> QED
  BY <1>1, <1>2, <1>3, <1>4, <1>5, <1>6, <1>7, <1>8 DEF RequestStep

-----------------------------------------------------------------------------
(* The invariant is inductive. *)

LEMMA InitCredit == Init => CreditInv
<1> SUFFICES ASSUME Init PROVE CreditInv
  OBVIOUS
<1>1. TypeOK
  BY InitTypes
<1>2. entries = {} /\ status = [p \in Payments |-> "NONE"]
  BY DEF Init, StoreInit, EnsureDefaultWallets
<1>3. engine = [s \in Servers |-> IdleEngine]
  BY DEF Init, MemoryInit
<1>4. StoreInv
  BY <1>2 DEF StoreInv, CreditBeforeStatus, Credited, Reversed, Posted
<1>5. EngineInv
  BY <1>3 DEF EngineInv, IdleEngine, EngineWorking
<1> QED BY <1>1, <1>4, <1>5 DEF CreditInv

LEMMA NextCredit == CreditInv /\ [Next]_vars => CreditInv'
<1> SUFFICES ASSUME CreditInv, [Next]_vars PROVE CreditInv'
  OBVIOUS
<1>a. TypeOK /\ StoreInv /\ EngineInv
  BY DEF CreditInv
<1>t. TypeOK'
  BY <1>a, NextTypes
<1>1. ASSUME NEW s \in Servers, TransferStep(s) \/ SweepStep(s) \/ WorkerFault(s) \/ Crash(s)
      PROVE  StoreInv' /\ EngineInv'
  BY <1>1, TransferKeeps, SweepKeeps, FaultKeeps
<1>2. ASSUME NEW r \in Requests, RequestStep(r) \/ RequestFault(r)
      PROVE  StoreInv' /\ EngineInv'
  BY <1>2, HandlerKeeps
<1>3. CASE AdminDashboard
  <2>1. PICK p \in Payments : TRUE
    BY <1>3 DEF AdminDashboard, OverduePending
  <2> QED
    BY <1>3, <1>a, <1>t, <2>1, StatusOperations, StatusOperationsKeep
    DEF AdminDashboard, memoryVars, CreditInv
<1>4. CASE Clock \/ UNCHANGED vars
  <2>1. UNCHANGED <<status, entries, engine>>
    BY <1>4 DEF Clock, DueDatePasses, vars, memoryVars, ledgerVars, paymentVars
  <2> QED BY <1>a, <1>t, <2>1, StoreStutters, EngineKept DEF CreditInv
<1> QED BY <1>t, <1>1, <1>2, <1>3, <1>4 DEF Next, CreditInv

(* On any number of servers, however their engines, sweeps and handlers      *)
(* interleave and fail: a payment is SETTLED or CANCELLED only with its money*)
(* on the ledger, money comes only for payments that were confirmed, and is  *)
(* only reversed after it came.                                              *)
THEOREM CreditSound == Spec => []CreditBeforeStatus
<1>1. Init => CreditInv BY InitCredit
<1>2. CreditInv /\ [Next]_vars => CreditInv' BY NextCredit
<1>3. CreditInv => CreditBeforeStatus BY DEF CreditInv, StoreInv
<1> QED BY <1>1, <1>2, <1>3, PTL DEF Spec

-----------------------------------------------------------------------------
(* The ledger implements the abstract journal. *)

(* Only three kinds of step write the ledger. *)
LEMMA PostingActions ==
  ASSUME TypeOK, [Next]_vars
  PROVE  \/ UNCHANGED <<entries, balance>>
         \/ \E p \in Payments : ClearPendingEscrowToOperating(p)
         \/ \E p \in Payments : RefundSettledPayment(p)
         \/ \E r \in Requests : PostSettlement(r)
<1>1. ASSUME NEW s \in Servers, TransferStep(s), ~PostTransfer(s)
      PROVE  UNCHANGED <<entries, balance>>
  BY <1>1 DEF TransferStep, processAwaiting, processOne, ExpireTransfer,
     ExpireTransferTooLate, PostTransferAgain, MarkTransfer, MarkTransferAgain,
     FailTransfer, RequeueTransfer, RequeueTransferTooLate, Announce,
     ExpireAwaitingTransfer, MarkPaymentSettledIdempotent, IncrementRetryAndSetStatus,
     UpdatePaymentStatus, EnqueueWebhook, storeVars, ledgerVars
<1>2. ASSUME NEW s \in Servers, PostTransfer(s)
      PROVE  \E p \in Payments : ClearPendingEscrowToOperating(p)
  <2>1. engine[s].payment \in Payments
    BY <1>2, EngineHolds DEF TypeOK, PostTransfer, At, EngineWorking
  <2> QED BY <1>2, <2>1 DEF PostTransfer
<1>3. ASSUME NEW s \in Servers, SweepStep(s) \/ WorkerFault(s) \/ Crash(s)
      PROVE  UNCHANGED <<entries, balance>>
  BY <1>3 DEF SweepStep, expireOverduePayments, ExpireOverduePendingPayments,
     AnnounceSwept, EnqueueWebhook, WorkerFault, AnnouncementLost, StatementFails,
     SweptLost, Crash, storeVars, ledgerVars
<1>4. ASSUME NEW r \in Requests, RequestStep(r), ~Refund(r), ~PostSettlement(r)
      PROVE  UNCHANGED <<entries, balance>>
  BY <1>4 DEF RequestStep, AdminCreatePaymentRequest, OpenOverdue, ExpirePending,
     ExpirePendingTooLate, ConfirmPayment, ConfirmIntent, ConfirmIntentTooLate,
     AdminRefundPaymentRequest, RefundRefused, TriggerSettlement, ReadOperating,
     CompleteRun, CompleteEmptyRun, CompleteFailedRun, AnnounceRequest,
     CreatePaymentRequest, UpdatePaymentStatus, ConfirmPaymentIntent, CreateSettlement,
     CompleteSettlement, EnqueueWebhook, storeVars, ledgerVars
<1>5. ASSUME NEW r \in Requests, RequestFault(r)
      PROVE  UNCHANGED <<entries, balance>>
  BY <1>5 DEF RequestFault, SettlementFails, RequestFails, RequestDropped, storeVars,
     ledgerVars
<1>6. ASSUME NEW r \in Requests, Refund(r)
      PROVE  \E p \in Payments : RefundSettledPayment(p)
  <2>1. request[r].payment \in Payments
    BY <1>6, HandlerHolds DEF TypeOK, Refund, InHandler, HoldingPayment
  <2> QED BY <1>6, <2>1 DEF Refund
<1>7. CASE AdminDashboard \/ Clock \/ UNCHANGED vars
  BY <1>7 DEF AdminDashboard, ExpireOverduePendingPayments, Clock, DueDatePasses, vars,
     ledgerVars
<1> QED BY <1>1, <1>2, <1>3, <1>4, <1>5, <1>6, <1>7 DEF Next

LEMMA PostingSteps ==
  ASSUME TypeOK, [Next]_vars
  PROVE  \/ UNCHANGED <<entries, balance>>
         \/ \E p \in Payments : ClearPendingEscrowToOperating(p)
         \/ \E p \in Payments : RefundSettledPayment(p)
         \/ \E n \in Settlements : \E cents \in Int : RunSettlement(n, cents)
<1>1. ASSUME NEW r \in Requests, PostSettlement(r)
      PROVE  \E n \in Settlements : \E cents \in Int : RunSettlement(n, cents)
  <2>1. request[r].run \in Settlements /\ request[r].cents \in Int
    BY <1>1, HandlerHolds DEF TypeOK, PostSettlement, InHandler, HoldingRun
  <2> QED BY <1>1, <2>1 DEF PostSettlement
<1> QED BY <1>1, PostingActions

(* A posting adds the OPERATING row of the two to the journal, provided the  *)
(* unique index keeps rows of one kind and reference apart.                  *)
LEMMA JournalGains ==
  ASSUME StoreInv, NEW dr, NEW cr, NEW row, NEW other, postInTx(dr, cr),
         {dr, cr} = {row, other}, RowShape(row),
         row.wallet = "OPERATING", other.wallet = "ESCROW"
  PROVE  /\ Journal' = Journal \cup {[kind |-> row.type, ref |-> row.ref, cents |-> row.cents]}
         /\ ~Promise!Entered(row.type, row.ref)
         /\ row.cents > 0
<1>1. entries' = entries \cup {row, other} /\ Insertable(row)
  BY DEF postInTx
<1>2. Journal' = Journal \cup {[kind |-> row.type, ref |-> row.ref, cents |-> row.cents]}
  BY <1>1 DEF Journal
<1>3. \A e \in entries : e.wallet = "OPERATING" => e.type # row.type \/ e.ref # row.ref
  BY <1>1 DEF Insertable, SameIndexKey, StoreInv, RowShape
<1>4. ~Promise!Entered(row.type, row.ref)
  BY <1>3 DEF Promise!Entered, Journal
<1> QED BY <1>1, <1>2, <1>4 DEF Insertable

LEMMA JournalStep ==
  ASSUME CreditInv, [Next]_vars
  PROVE  [Promise!Next]_<<Journal, balance["OPERATING"]>>
<1>a. /\ StoreInv
      /\ balance \in [Wallets -> Int]
      /\ "OPERATING" \in Wallets /\ "ESCROW" \in Wallets
  BY DEF CreditInv, TypeOK, StoreTypeOK, Wallets
<1>1. CASE UNCHANGED <<entries, balance>>
  BY <1>1 DEF Journal
<1>2. ASSUME NEW p \in Payments, ClearPendingEscrowToOperating(p)
      PROVE  Promise!PayIn(p)
  <2> DEFINE dr == Entry("OPERATING", "DR", "PAYMENT_IN", p, Amount[p])
             cr == Entry("ESCROW", "CR", "SIMULATION", p, Amount[p])
  <2>1. postInTx(dr, cr)
    BY <1>2 DEF ClearPendingEscrowToOperating
  <2>2. /\ dr.wallet = "OPERATING" /\ dr.type = "PAYMENT_IN" /\ dr.ref = p
        /\ dr.cents = Amount[p] /\ RowShape(dr) /\ cr.wallet = "ESCROW"
    BY DEF Entry, RowShape
  <2>3. balance' = [balance EXCEPT !["OPERATING"] = @ + dr.cents, !["ESCROW"] = @ - cr.cents]
    BY <2>1, <2>2 DEF postInTx
  <2> HIDE DEF dr, cr
  <2>4. balance'["OPERATING"] = balance["OPERATING"] + dr.cents
    BY <1>a, <2>3
  <2>5. /\ Journal' = Journal \cup {[kind |-> dr.type, ref |-> dr.ref, cents |-> dr.cents]}
        /\ ~Promise!Entered(dr.type, dr.ref)
        /\ dr.cents > 0
    BY <1>a, <2>1, <2>2, JournalGains
  <2> QED BY <2>2, <2>4, <2>5 DEF Promise!PayIn, Promise!Enter
<1>3. ASSUME NEW p \in Payments, RefundSettledPayment(p)
      PROVE  Promise!Reverse(p)
  <2> DEFINE dr == Entry("ESCROW", "DR", "REVERSAL", p, Amount[p])
             cr == Entry("OPERATING", "CR", "REVERSAL", p, Amount[p])
  <2>1. postInTx(dr, cr) /\ status[p] = "SETTLED"
    BY <1>3 DEF RefundSettledPayment, RefundPostings
  <2>2. /\ cr.wallet = "OPERATING" /\ cr.type = "REVERSAL" /\ cr.ref = p
        /\ cr.cents = Amount[p] /\ RowShape(cr) /\ dr.wallet = "ESCROW"
    BY DEF Entry, RowShape
  <2>3. balance' = [balance EXCEPT !["ESCROW"] = @ + dr.cents, !["OPERATING"] = @ - cr.cents]
    BY <2>1, <2>2 DEF postInTx
  <2> HIDE DEF dr, cr
  <2>4. balance'["OPERATING"] = balance["OPERATING"] - Amount[p]
    BY <1>a, <2>2, <2>3
  <2>5. /\ Journal' = Journal \cup {[kind |-> cr.type, ref |-> cr.ref, cents |-> cr.cents]}
        /\ ~Promise!Entered(cr.type, cr.ref)
        /\ cr.cents > 0
    BY <1>a, <2>1, <2>2, JournalGains
  <2>6. PICK e \in entries : e.type = "PAYMENT_IN" /\ e.ref = p /\ e.wallet = "OPERATING"
    BY <1>a, <2>1 DEF StoreInv, CreditBeforeStatus, Credited, Posted, RowShape
  <2>7. Promise!Entered("PAYMENT_IN", p)
    <3>1. [kind |-> e.type, ref |-> e.ref, cents |-> e.cents] \in Journal
      BY <2>6 DEF Journal
    <3> QED BY <2>6, <3>1 DEF Promise!Entered
  <2>8. balance["OPERATING"] - Amount[p] = balance["OPERATING"] + (-Amount[p])
    <3>1. Amount[p] \in Int /\ balance["OPERATING"] \in Int
      BY <1>a, LedgerAssumption
    <3> QED BY <3>1
  <2> QED BY <2>2, <2>4, <2>5, <2>7, <2>8 DEF Promise!Reverse, Promise!Enter
<1>4. ASSUME NEW n \in Settlements, NEW cents \in Int, RunSettlement(n, cents)
      PROVE  Promise!Settle(n)
  <2> DEFINE dr == Entry("ESCROW", "DR", "SETTLEMENT", n, cents)
             cr == Entry("OPERATING", "CR", "SETTLEMENT", n, cents)
  <2>1. postInTx(dr, cr)
    BY <1>4 DEF RunSettlement
  <2>2. /\ cr.wallet = "OPERATING" /\ cr.type = "SETTLEMENT" /\ cr.ref = n
        /\ cr.cents = cents /\ RowShape(cr) /\ dr.wallet = "ESCROW"
    BY DEF Entry, RowShape
  <2>3. balance' = [balance EXCEPT !["ESCROW"] = @ + dr.cents, !["OPERATING"] = @ - cr.cents]
    BY <2>1, <2>2 DEF postInTx
  <2> HIDE DEF dr, cr
  <2>4. balance'["OPERATING"] = balance["OPERATING"] - cents
    BY <1>a, <2>2, <2>3
  <2>5. /\ Journal' = Journal \cup {[kind |-> cr.type, ref |-> cr.ref, cents |-> cr.cents]}
        /\ ~Promise!Entered(cr.type, cr.ref)
        /\ cr.cents > 0
    BY <1>a, <2>1, <2>2, JournalGains
  <2>6. cents \in {j.cents : j \in Journal'}
    <3>1. [kind |-> cr.type, ref |-> cr.ref, cents |-> cr.cents] \in Journal'
      BY <2>5
    <3>2. [kind |-> cr.type, ref |-> cr.ref, cents |-> cr.cents].cents = cents
      BY <2>2
    <3> QED BY <3>1, <3>2
  <2>7. balance["OPERATING"] - cents = balance["OPERATING"] + (-cents)
    BY <1>a
  <2> QED BY <2>2, <2>4, <2>5, <2>6, <2>7 DEF Promise!Settle, Promise!Enter
<1> QED
  <2>1. TypeOK
    BY DEF CreditInv
  <2> QED BY <1>1, <1>2, <1>3, <1>4, <2>1, PostingSteps DEF Promise!Next

(* The ledger and the operating balance, written by any number of servers    *)
(* and handlers under any faults, implement the abstract journal: nothing is *)
(* posted twice, nothing is erased, the balance moves with each entry, and   *)
(* only a payment that came in is ever reversed.                             *)
THEOREM LedgerImplementsDoubleEntry == Spec => ImplementsDoubleEntry
<1>1. Init => Promise!Init
  BY DEF Init, StoreInit, EnsureDefaultWallets, Promise!Init, Journal, Wallets
<1>2. Init => CreditInv BY InitCredit
<1>3. CreditInv /\ [Next]_vars => CreditInv' BY NextCredit
<1>4. CreditInv /\ [Next]_vars => [Promise!Next]_<<Journal, balance["OPERATING"]>>
  BY JournalStep
<1> QED
  BY <1>1, <1>2, <1>3, <1>4, PTL DEF Spec, ImplementsDoubleEntry, Promise!Spec

=============================================================================
