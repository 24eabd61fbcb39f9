------------------------- MODULE TransferQueue -------------------------
(* The queue of confirmed payments as the transfer engines see it: a poll   *)
(* lists no more than Limit of the rows that wait, the least recently       *)
(* updated first, and passes over those whose random delay has not run out. *)
(* TransferEngine models what happens to a payment that is taken up; here   *)
(* it is whether it ever is, when more payments wait than a poll lists and  *)
(* the engines of several servers poll the same table.                      *)
EXTENDS Naturals, FiniteSets, FiniteSetsExt, Absent

CONSTANTS
    Engines,       \* transfer engines, one per server
    Queued,        \* payments
    Limit,         \* 200 in the code
    MaxTransfers,  \* 3: attempts of a payment
    MaxDelay,      \* polls until the longest delay has run out
    QueueFaults    \* which of "crash" and "error" may happen

ASSUME QueueAssumption ==
    /\ Limit \in Nat \ {0}
    /\ MaxTransfers \in Nat \ {0}
    /\ MaxDelay \in Nat
    /\ None \notin Nat \cup Queued
    /\ QueueFaults \subseteq {"crash", "error"}

VARIABLES
    row,       \* status, retry_count, updated_at and whether processed_at is set
    dueAt,     \* per engine: its map dueAt, in polls from now
    batch,     \* per engine: retry counts read of the rows still to work on
    toRequeue  \* per engine: the payment it has just failed and will put back

queueVars == <<row, dueAt, batch, toRequeue>>

-----------------------------------------------------------------------------
QueueInit ==
    /\ row = [p \in Queued |-> [status |-> "PENDING", retry |-> 0, updated |-> 0,
                                processed |-> FALSE]]
    /\ dueAt = [e \in Engines |-> [p \in Queued |-> None]]
    /\ batch = [e \in Engines |-> <<>>]
    /\ toRequeue = [e \in Engines |-> None]

Waiting == {p \in Queued : row[p].status = "AWAITING_TRANSFER" /\ ~row[p].processed}

(* CURRENT_TIMESTAMP counts seconds: updates within one of them look alike,  *)
(* and it moves on between others. Only the timestamps of rows that wait are *)
(* compared; of the others nothing is kept.                                  *)
Latest == Max({0} \cup {row[p].updated : p \in Waiting})
Timestamps == {Latest, Latest + 1}

Leaves(p, status) == [row[p] EXCEPT !.status = status, !.updated = 0]

(* Slip: updated_at is not set. *)
ConfirmUnstamped(p) ==
    /\ row[p].status = "PENDING"
    /\ row' = [row EXCEPT ![p].status = "AWAITING_TRANSFER"]
    /\ UNCHANGED <<dueAt, batch, toRequeue>>

ConfirmIntent(p) ==
    /\ row[p].status = "PENDING"
    /\ \E t \in Timestamps :
         row' = [row EXCEPT ![p].status = "AWAITING_TRANSFER", ![p].updated = t]
    /\ UNCHANGED <<dueAt, batch, toRequeue>>

(* Slip: rows that were processed are listed too. *)
ListableProcessed == {p \in Queued : row[p].status = "AWAITING_TRANSFER"}

(* WHERE status = AWAITING_TRANSFER AND processed_at IS NULL. *)
Listable == Waiting

(* ORDER BY updated_at LIMIT: rows of one timestamp come in any order.       *)
AwaitingTransfers ==
    {list \in SUBSET Listable :
       /\ Cardinality(list) = Min({Limit, Cardinality(Listable)})
       /\ \A p \in list, q \in Listable \ list : row[p].updated <= row[q].updated}

(* Every delay runs; a row that is listed for the first time gets one.       *)
DelaysOf(e, list) ==
    {d \in [Queued -> (0 .. MaxDelay) \cup {None}] :
       \A p \in Queued :
         IF dueAt[e][p] = None THEN (p \in list) = (d[p] # None)
         ELSE d[p] = IF dueAt[e][p] = 0 THEN 0 ELSE dueAt[e][p] - 1}

Poll(e) ==
    /\ DOMAIN batch[e] = {}
    /\ toRequeue[e] = None
    /\ \E list \in AwaitingTransfers : \E d \in DelaysOf(e, list) :
         /\ dueAt' = [dueAt EXCEPT ![e] = d]
         /\ batch' = [batch EXCEPT
              ![e] = [p \in {q \in list : d[q] = 0} |-> row[p].retry]]
    /\ UNCHANGED <<row, toRequeue>>

-----------------------------------------------------------------------------
(* The engine takes p from its batch, one payment after the other.           *)
TakeUp(e, p) ==
    /\ toRequeue[e] = None
    /\ p \in DOMAIN batch[e]
    /\ batch' = [batch EXCEPT ![e] = [q \in DOMAIN batch[e] \ {p} |-> batch[e][q]]]

ClearDue(e, p) == dueAt' = [dueAt EXCEPT ![e][p] = None]

(* MarkPaymentSettledIdempotent; nothing, if the row no longer waits.        *)
Settled(p) ==
    row' = IF p \in Waiting
           THEN [row EXCEPT ![p] = [Leaves(p, "SETTLED") EXCEPT !.processed = TRUE]]
           ELSE row

(* ExpireAwaitingTransfer goes by the status alone.                          *)
Expired(p) ==
    row' = IF row[p].status = "AWAITING_TRANSFER"
           THEN [row EXCEPT ![p] = Leaves(p, "EXPIRED")] ELSE row

Transfer(e, p) ==
    /\ TakeUp(e, p)
    /\ Settled(p) \/ Expired(p)
    /\ ClearDue(e, p)
    /\ UNCHANGED toRequeue

(* IncrementRetryAndSetStatus has no condition, so a row that another engine *)
(* settled fails too; whether it is put back goes by the count that was read.*)
Fail(e, p) ==
    /\ TakeUp(e, p)
    /\ row' = [row EXCEPT ![p] = [Leaves(p, "FAILED") EXCEPT !.retry = @ + 1]]
    /\ IF batch[e][p] + 1 < MaxTransfers
         THEN toRequeue' = [toRequeue EXCEPT ![e] = p] /\ UNCHANGED dueAt
         ELSE ClearDue(e, p) /\ UNCHANGED toRequeue

(* UpdatePaymentStatus from FAILED, a statement of its own.                  *)
Requeue(e) ==
    /\ toRequeue[e] # None
    /\ LET p == toRequeue[e]
       IN  /\ \/ row[p].status # "FAILED" /\ UNCHANGED row
              \/ /\ row[p].status = "FAILED"
                 /\ \E t \in Timestamps :
                      row' = [row EXCEPT ![p].status = "AWAITING_TRANSFER", ![p].updated = t]
           /\ ClearDue(e, p)
    /\ toRequeue' = [toRequeue EXCEPT ![e] = None]
    /\ UNCHANGED batch

EngineStep(e) ==
    \/ Poll(e)
    \/ \E p \in Queued : Transfer(e, p) \/ Fail(e, p)
    \/ Requeue(e)

(* The rail or a statement returns an error: the row stays as it is.         *)
TransferError(e) ==
    /\ "error" \in QueueFaults
    /\ \/ \E p \in Queued : TakeUp(e, p) /\ ClearDue(e, p) /\ UNCHANGED toRequeue
       \/ /\ toRequeue[e] # None
          /\ ClearDue(e, toRequeue[e])
          /\ toRequeue' = [toRequeue EXCEPT ![e] = None]
          /\ UNCHANGED batch
    /\ UNCHANGED row

CrashEngine(e) ==
    /\ "crash" \in QueueFaults
    /\ dueAt' = [dueAt EXCEPT ![e] = [p \in Queued |-> None]]
    /\ batch' = [batch EXCEPT ![e] = <<>>]
    /\ toRequeue' = [toRequeue EXCEPT ![e] = None]
    /\ UNCHANGED row

QueueNext ==
    \/ \E p \in Queued : ConfirmIntent(p)
    \/ \E e \in Engines : EngineStep(e) \/ TransferError(e) \/ CrashEngine(e)

QueueSpec == QueueInit /\ [][QueueNext]_queueVars

-----------------------------------------------------------------------------
DecidedRow(p) ==
    \/ row[p].status \in {"SETTLED", "EXPIRED"}
    \/ row[p].status = "FAILED" /\ row[p].retry >= MaxTransfers
    \/ row[p].processed

(* Every confirmed payment is decided, however few of the rows a poll lists, *)
(* whatever their delays and retries, whichever engine takes them up with    *)
(* what it read before another one wrote, and although rows that were put    *)
(* back after another engine had processed them wait for ever.               *)
EveryTransferIsTakenUp == \A p \in Queued : p \in Waiting ~> DecidedRow(p)

Ahead(p) == {q \in Waiting : row[q].updated < row[p].updated}

(* Nobody jumps the queue: the rows that are listed before a waiting one are *)
(* rows that were before it already. Confirmations and retries queue up      *)
(* behind it, unless it is the one that is retried.                          *)
NobodyJumpsTheQueue ==
    [][\A p \in Queued :
         (p \in Waiting /\ p \in Waiting' /\ row[p].updated = row'[p].updated)
           => Ahead(p)' \subseteq Ahead(p)]_queueVars

=============================================================================
