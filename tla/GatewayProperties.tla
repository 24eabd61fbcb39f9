----------------------- MODULE GatewayProperties -----------------------
(* Correctness properties of the running system that need no sums. *)
EXTENDS Gateway

-----------------------------------------------------------------------------
EngineWorking == {"expire", "post", "mark", "fail", "requeue",
                  "announceExpired", "announceSettled", "announceFailed"}
HoldingPayment == {"expire", "confirm", "refund", "announceCreated",
                   "announceConfirmed", "announceRefunded"}
HoldingRun == {"readBalance", "post", "complete", "completeEmpty",
               "completeFailed", "announceCompleted"}

EngineLocals == [at : {"idle", "pick"} \cup EngineWorking, payment : Payments \cup {None},
                 todo : SUBSET Payments, seen : [Payments -> Nat]]
RequestLocals == [at : {"idle"} \cup HoldingPayment \cup HoldingRun,
                  payment : Payments \cup {None}, run : Settlements \cup {None},
                  cents : Int]

StoreTypeOK ==
    /\ entries \subseteq Entries
    /\ balance \in [Wallets -> Int]
    /\ pending \in Nat
    /\ status \in [Payments -> Statuses]
    /\ retryCount \in [Payments -> Nat]
    /\ processedAt \in [Payments -> BOOLEAN]
    /\ overdue \in [Payments -> BOOLEAN]
    /\ settlement \in [Settlements -> [status : SettlementStatuses, cents : Int]]
    /\ emitted \in [EventKeys -> Nat]

MemoryTypeOK ==
    /\ engine \in [Servers -> EngineLocals]
    /\ \A s \in Servers : engine[s].at \in EngineWorking => engine[s].payment # None
    /\ dueAt \in [Servers -> [Payments -> (0 .. MaxDelayTicks) \cup {None}]]
    /\ sweep \in [Servers -> SUBSET Payments]
    /\ request \in [Requests -> RequestLocals]
    /\ \A r \in Requests :
         /\ request[r].at \in HoldingPayment => request[r].payment # None
         /\ request[r].at \in HoldingRun => request[r].run # None

(* Types of the tables (pending_cents is never negative) and of the memory  *)
(* of workers and handlers: an engine at work on a row holds its payment, a *)
(* handler in the middle of its statements holds a payment or a run.        *)
TypeOK == StoreTypeOK /\ MemoryTypeOK

-----------------------------------------------------------------------------
Credited(p) == Posted("PAYMENT_IN", p)
Reversed(p) == Posted("REVERSAL", p)

(* The ledger and the status tables agree whatever fails between the        *)
(* statements that write them: a SETTLED or CANCELLED payment is on the     *)
(* ledger, exactly the CANCELLED ones are reversed, and money is posted only*)
(* for a payment the payer has confirmed.                                   *)
CreditMatchesStatus ==
    \A p \in Payments :
      /\ status[p] \in {"SETTLED", "CANCELLED"} => Credited(p)
      /\ status[p] = "CANCELLED" <=> Reversed(p)
      /\ Credited(p) => status[p] \notin {"NONE", "PENDING"}

(* What is left of it when several servers work on one database, where a    *)
(* stale engine may fail a payment that another one settled: money is on    *)
(* the ledger before any status says so, and is reversed only after.        *)
CreditBeforeStatus ==
    \A p \in Payments :
      /\ status[p] \in {"SETTLED", "CANCELLED"} => Credited(p)
      /\ Credited(p) => status[p] \notin {"NONE", "PENDING"}
      /\ Reversed(p) => Credited(p)
      /\ status[p] = "CANCELLED" => Reversed(p)

(* Consumers of the webhooks hear of each outcome at most once, of a failed *)
(* transfer at most once per counted retry, and only of what has happened:  *)
(* the retries of the engine, the sweep, the pages and the dashboard that   *)
(* race for the same payment never announce one transition twice.           *)
AnnouncedOnce ==
    \A p \in Payments :
      /\ \A e \in PaymentEvents \ {"failed"} : emitted[<<e, p>>] <= 1
      /\ emitted[<<"failed", p>>] <= retryCount[p]
      /\ emitted[<<"settled", p>>] > 0 => status[p] \in {"SETTLED", "CANCELLED"}
      /\ emitted[<<"expired", p>>] > 0 => status[p] = "EXPIRED"
      /\ emitted[<<"refunded", p>>] > 0 => status[p] = "CANCELLED"

(* A settlement run and the ledger tell the same story: a run completed with *)
(* an amount has moved exactly that amount, a FAILED run has moved nothing,  *)
(* and only a run that is still RUNNING (its handler was cut off) may have   *)
(* moved money it does not report.                                           *)
SettlementMatchesLedger ==
    \A n \in Settlements :
      LET row   == settlement[n]
          moved == {e.cents : e \in {f \in entries : f.type = "SETTLEMENT" /\ f.ref = n}}
      IN  /\ row.status = "SUCCESS" /\ row.cents > 0 => moved = {row.cents}
          /\ row.status = "SUCCESS" /\ row.cents = 0 => moved = {}
          /\ row.status \in {"NONE", "FAILED"} => moved = {}

-----------------------------------------------------------------------------
(* The operating journal is the view of the ledger the abstract ledger has. *)
Journal == {[kind |-> e.type, ref |-> e.ref, cents |-> e.cents] :
              e \in {f \in entries : f.wallet = "OPERATING"}}

Promise == INSTANCE DoubleEntry
             WITH book <- Journal, position <- balance["OPERATING"]

(* The ledger, written by any number of servers and handlers, implements the *)
(* abstract append-only double-entry journal: every posting is made once, the*)
(* operating balance moves with it, and nothing is reversed that never came. *)
ImplementsDoubleEntry == Promise!Spec

Lifecycle == INSTANCE PaymentLifecycle
               WITH stage <- status,
                    credited <- {p \in Payments : Credited(p)},
                    reversed <- {p \in Payments : Reversed(p)},
                    tries <- retryCount,
                    MaxTries <- MaxRetries,
                    MayAbandon <- Faults # {}

(* One server process implements the life of a payment: no interleaving of  *)
(* its engine, sweep and handlers takes a payment off the documented path,  *)
(* credits it twice, or retries it beyond the limit; without faults a       *)
(* credited payment never fails or expires.                                 *)
ImplementsLifecycle == Lifecycle!Spec

-----------------------------------------------------------------------------
(* A payment whose transfer was processed (processed_at is set with SETTLED)*)
(* stays settled unless it is refunded, as its payer is told by mail. The   *)
(* deployment guide runs several replicas on one database.                  *)
SettledStaysSettled ==
    \A p \in Payments : processedAt[p] => status[p] \in {"SETTLED", "CANCELLED"}

(* A payment that EXPIRED did so before its transfer: no money was posted,  *)
(* as the reason written to the audit log says.                             *)
ExpiredBeforeTransfer ==
    \A p \in Payments : status[p] = "EXPIRED" => ~Credited(p)

(* The engine is about to put the FAILED payment back for another attempt.  *)
Retried(p) ==
    \E s \in Servers :
      /\ engine[s].payment = p
      /\ \/ engine[s].at = "requeue"
         \/ engine[s].at = "announceFailed" /\ MayRetry(s)

(* Failing and requeueing are two statements with a webhook between them. No *)
(* payment is left FAILED with attempts to go, the state no scan looks at:   *)
(* the payer's mail calls it delayed only while an engine will retry it.     *)
DelayedIsRetried ==
    \A p \in Payments : status[p] = "FAILED" /\ retryCount[p] < MaxRetries => Retried(p)

-----------------------------------------------------------------------------
Decided(p) ==
    \/ status[p] \in {"SETTLED", "CANCELLED", "EXPIRED"}
    \/ status[p] = "FAILED" /\ retryCount[p] >= MaxRetries

(* Every payment the payer has confirmed is decided: the engine gets to it  *)
(* however its random delays and the rail's failures fall.                  *)
ConfirmedIsDecided ==
    \A p \in Payments : status[p] = "AWAITING_TRANSFER" ~> Decided(p)

(* A settled payment is announced to the webhook's consumers. *)
SettledIsAnnounced ==
    \A p \in Payments : status[p] = "SETTLED" ~> emitted[<<"settled", p>>] = 1

=============================================================================
