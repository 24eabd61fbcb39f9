------------------------- MODULE WebhookOutbox -------------------------
(* The delivery side of webhook_outbox: the dispatchers of                 *)
(* internal/webhook/dispatcher.go, one per server process, list due rows,  *)
(* POST them to the merchant's endpoint and write the outcome back. Time   *)
(* is counted in ticks of 5 s, the poll interval and the shortest backoff. *)
EXTENDS Integers, FiniteSets

CONSTANTS
    Dispatchers,    \* dispatchers that share the outbox
    Configured,     \* those whose server has a WEBHOOK_ENDPOINT_URL
    Rows,           \* ids of the rows that may ever be enqueued
    MaxAttempts,    \* attempts after which a row is no longer POSTed
    BatchLimit,     \* rows a poll lists
    MaxDelayTicks,  \* the longest backoff
    GiveUpTicks,    \* the wait of a row that used up its attempts
    MaxPosts,       \* bound: POSTs of one row that the model follows
    OutboxFaults    \* which faults of the environment may happen

ASSUME OutboxAssumption ==
    /\ Configured \subseteq Dispatchers
    /\ Rows \subseteq Nat
    /\ {MaxAttempts, BatchLimit, MaxDelayTicks, GiveUpTicks, MaxPosts} \subseteq Nat \ {0}
    /\ OutboxFaults \subseteq {"crash", "dberror"}

VARIABLES
    outbox,      \* rows: status, attempts, and ticks until next_attempt_at
    dispatcher,  \* per dispatcher: the rows it listed and where it stands
    posts,       \* how often each row was POSTed
    received     \* how often the endpoint took each row in

vars == <<outbox, dispatcher, posts, received>>

-----------------------------------------------------------------------------
Resting == [at |-> "idle", todo |-> {}, seen |-> [i \in Rows |-> 0]]

Init ==
    /\ outbox = [i \in Rows |-> [status |-> "NONE", attempts |-> 0, wait |-> 0]]
    /\ dispatcher = [d \in Dispatchers |-> Resting]
    /\ posts = [i \in Rows |-> 0]
    /\ received = [i \in Rows |-> 0]

(* ids grow; the other components are the only producers. *)
EnqueueWebhook(i) ==
    /\ outbox[i].status = "NONE"
    /\ \A j \in Rows : j < i => outbox[j].status # "NONE"
    /\ outbox' = [outbox EXCEPT ![i].status = "PENDING"]
    /\ UNCHANGED <<dispatcher, posts, received>>

(* Slip: rows already sent are listed too. *)
DueWithSent == {i \in Rows : outbox[i].status # "NONE" /\ outbox[i].wait = 0}

(* Slip: failed rows are not listed again. *)
DuePendingOnly == {i \in Rows : outbox[i].status = "PENDING" /\ outbox[i].wait = 0}

Due == {i \in Rows : outbox[i].status \in {"PENDING", "FAILED"} /\ outbox[i].wait = 0}

(* The first BatchLimit due rows by id. *)
ListDueWebhookOutbox ==
    {i \in Due : Cardinality({j \in Due : j < i}) < BatchLimit}

(* Without an endpoint the dispatcher never starts. *)
Enabled(d) == d \in Configured

processBatch(d) ==
    /\ Enabled(d)
    /\ dispatcher[d].at = "idle"
    /\ Due # {}
    /\ dispatcher' = [dispatcher EXCEPT ![d] =
         [at |-> "next", todo |-> ListDueWebhookOutbox,
          seen |-> [i \in Rows |-> outbox[i].attempts]]]
    /\ UNCHANGED <<outbox, posts, received>>

-----------------------------------------------------------------------------
(* The row at hand: rows are delivered in the order of their ids. *)
Item(d) == CHOOSE i \in dispatcher[d].todo : \A j \in dispatcher[d].todo : i <= j
Attempts(d) == dispatcher[d].seen[Item(d)]

(* Slip: the loop does not end with the last row. *)
NextItemForever(d) ==
    dispatcher' = [dispatcher EXCEPT ![d] =
      [at |-> "next", todo |-> dispatcher[d].todo \ {Item(d)}, seen |-> dispatcher[d].seen]]

NextItem(d) ==
    LET rest == dispatcher[d].todo \ {Item(d)}
    IN  dispatcher' = [dispatcher EXCEPT ![d] =
          IF rest = {} THEN Resting
          ELSE [at |-> "next", todo |-> rest, seen |-> dispatcher[d].seen]]

(* attempts is counted up to the first value above MaxAttempts: beyond it  *)
(* nothing depends on how large it is.                                     *)
Counted(n) == IF n > MaxAttempts THEN n ELSE n + 1

(* Slip: one attempt too many. *)
ExhaustedLate(d) == Attempts(d) > MaxAttempts

(* By the attempts the list read, which may be stale by now. *)
Exhausted(d) == Attempts(d) >= MaxAttempts

(* The shift by the attempts, as a doubling for each. *)
Shifted[n \in 0 .. MaxAttempts + 1] == IF n = 0 THEN 1 ELSE 2 * Shifted[n - 1]

nextAttemptDelay(attempts) ==
    IF Shifted[attempts] > MaxDelayTicks THEN MaxDelayTicks ELSE Shifted[attempts]

MarkWebhookRetry(i, ticks) ==
    outbox' = [outbox EXCEPT ![i] =
      [status |-> "FAILED", attempts |-> Counted(outbox[i].attempts), wait |-> ticks]]

MarkWebhookSent(i) ==
    outbox' = [outbox EXCEPT ![i] =
      [status |-> "SENT", attempts |-> Counted(outbox[i].attempts), wait |-> outbox[i].wait]]

(* Slip: any answer of the endpoint counts as a delivery. *)
DeliverAnyAnswer(d) ==
    /\ dispatcher[d].at = "next"
    /\ ~Exhausted(d)
    /\ posts[Item(d)] < MaxPosts
    /\ posts' = [posts EXCEPT ![Item(d)] = @ + 1]
    /\ \E taken \in {0, 1} :
         /\ received' = [received EXCEPT ![Item(d)] = @ + taken]
         /\ \E at \in {"sent", "failed"} :
              dispatcher' = [dispatcher EXCEPT ![d].at = at]
    /\ UNCHANGED outbox

(* The POST: a 2xx answer comes only of a row the endpoint took in; no     *)
(* answer, or one that is lost or late, leaves open whether it did.        *)
deliverOne(d) ==
    /\ dispatcher[d].at = "next"
    /\ ~Exhausted(d)
    /\ posts[Item(d)] < MaxPosts
    /\ posts' = [posts EXCEPT ![Item(d)] = @ + 1]
    /\ \E taken \in {0, 1} :
         /\ received' = [received EXCEPT ![Item(d)] = @ + taken]
         /\ \E at \in (IF taken = 1 THEN {"sent", "failed"} ELSE {"failed"}) :
              dispatcher' = [dispatcher EXCEPT ![d].at = at]
    /\ UNCHANGED outbox

Sent(d) ==
    /\ dispatcher[d].at = "sent"
    /\ MarkWebhookSent(Item(d))
    /\ NextItem(d)
    /\ UNCHANGED <<posts, received>>

Failed(d) ==
    /\ dispatcher[d].at = "failed"
    /\ MarkWebhookRetry(Item(d), nextAttemptDelay(Attempts(d)))
    /\ NextItem(d)
    /\ UNCHANGED <<posts, received>>

GiveUp(d) ==
    /\ dispatcher[d].at = "next"
    /\ Exhausted(d)
    /\ MarkWebhookRetry(Item(d), GiveUpTicks)
    /\ NextItem(d)
    /\ UNCHANGED <<posts, received>>

(* The outcome cannot be written: the row stays due. *)
MarkFails(d) ==
    /\ "dberror" \in OutboxFaults
    /\ \/ dispatcher[d].at \in {"sent", "failed"}
       \/ dispatcher[d].at = "next" /\ Exhausted(d)
    /\ NextItem(d)
    /\ UNCHANGED <<outbox, posts, received>>

(* The process dies, or is shut down, and starts again. *)
Crash(d) ==
    /\ "crash" \in OutboxFaults
    /\ dispatcher' = [dispatcher EXCEPT ![d] = Resting]
    /\ UNCHANGED <<outbox, posts, received>>

(* 5 s pass: an idle dispatcher that runs polls on every tick, so that none *)
(* passes while it leaves due rows alone.                                  *)
Tick ==
    /\ \E i \in Rows : outbox[i].wait > 0
    /\ Due # {} => \A d \in Configured : dispatcher[d].at # "idle"
    /\ outbox' = [i \in Rows |->
         IF outbox[i].wait > 0 THEN [outbox[i] EXCEPT !.wait = @ - 1] ELSE outbox[i]]
    /\ UNCHANGED <<dispatcher, posts, received>>

-----------------------------------------------------------------------------
DispatcherStep(d) ==
    \/ processBatch(d)
    \/ deliverOne(d)
    \/ Sent(d)
    \/ Failed(d)
    \/ GiveUp(d)

Next ==
    \/ \E i \in Rows : EnqueueWebhook(i)
    \/ \E d \in Dispatchers : DispatcherStep(d) \/ MarkFails(d) \/ Crash(d)
    \/ Tick

Spec == Init /\ [][Next]_vars

(* The goroutine polls on every tick, the client times out after 8 s, and  *)
(* time passes. Producers and faults are left open.                        *)
FairSpec == Spec /\ WF_vars(Tick) /\ \A d \in Dispatchers : WF_vars(DispatcherStep(d))

-----------------------------------------------------------------------------
(* Types of the outbox and of the dispatchers; a dispatcher at work has a row *)
(* at hand.                                                                   *)
TypeOK ==
    /\ outbox \in [Rows -> [status : {"NONE", "PENDING", "SENT", "FAILED"},
                            attempts : 0 .. MaxAttempts + 1, wait : Nat]]
    /\ dispatcher \in [Dispatchers -> [at : {"idle", "next", "sent", "failed"},
                                       todo : SUBSET Rows,
                                       seen : [Rows -> 0 .. MaxAttempts + 1]]]
    /\ \A d \in Dispatchers : dispatcher[d].at # "idle" => dispatcher[d].todo # {}
    /\ posts \in [Rows -> 0 .. MaxPosts]
    /\ received \in [Rows -> 0 .. MaxPosts]

(* Retry-safe: a row is only ever shown as SENT after the endpoint took the  *)
(* event in, whichever dispatcher wrote the status and whatever it had read. *)
SentWasReceived ==
    \A i \in Rows : outbox[i].status = "SENT" => received[i] >= 1

(* With one dispatcher a row that is SENT is done: no crash, stale batch or  *)
(* late write sends it again or shows it as failed.                          *)
SentIsFinal ==
    [][\A i \in Rows : outbox[i].status = "SENT" =>
         outbox'[i].status = "SENT" /\ posts'[i] = posts[i]]_vars

(* Without faults the endpoint sees a row MaxAttempts times, and once more   *)
(* for each further dispatcher that works from a list it read before.        *)
PostsBounded ==
    \A i \in Rows : posts[i] <= MaxAttempts + Cardinality(Dispatchers) - 1

(* Where an endpoint is configured every event is taken up and ends SENT or  *)
(* with all its attempts used up: rows that keep failing do not hold up the  *)
(* others. Where none is, the outbox only grows.                             *)
EventsAreWorkedOff ==
    Configured # {} => \A i \in Rows : outbox[i].status = "PENDING" ~>
      \/ outbox[i].status = "SENT"
      \/ outbox[i].status = "FAILED" /\ outbox[i].attempts >= MaxAttempts

(* "Failed rows retry with exponential backoff", says the admin page: a row  *)
(* shown as FAILED is POSTed again, unless it turns out to be SENT.          *)
FailedRowsRetry ==
    \A i \in Rows : \A n \in 1 .. MaxPosts :
      outbox[i].status = "FAILED" /\ posts[i] = n
        ~> outbox[i].status = "SENT" \/ posts[i] > n

=============================================================================
