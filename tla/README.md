# Formal models of DPG Pay

DPG Pay is a small payment processor: an admin creates payment requests, a payer
confirms one, a simulated bank rail moves the money, and a double-entry ledger records
it. One Go process serves HTTP, runs five background goroutines and keeps everything in
one SQLite database. This directory holds TLA+ models of the parts that move payments
and money and of the services around them, the TLC runs that check them, and TLAPS
proofs of every safety property and refinement that the passing runs check.

## The system

| Component | State it keeps | Operations | Hard behaviour |
|---|---|---|---|
| Ledger (`internal/ledger/service.go`) | `ledger_entries`, `wallets.balance_cents`, `wallets.pending_cents` | post a transfer, a settlement, a refund; each one transaction | postings repeated after a crash; balances kept beside the entries; a floor at 0 |
| Payment store (`internal/models/store.go`) | `payment_requests`, `settlements`, `webhook_outbox` | one statement or transaction each | conditions on the old status, present in some and absent in others |
| Transfer engine (`internal/transfer/engine.go`) | map `dueAt`, the batch it read, the payment it will put back | poll every 30 s, expire / post / mark / fail / requeue a payment | acts on rows read earlier; five statements per payment that can be cut anywhere; several servers |
| Expiry sweep (`cmd/server/main.go`) | ids still to announce | expire overdue PENDING rows, then announce | races pages, dashboard, confirmations and other sweeps |
| Handlers (`internal/handlers`) | locals of each request | create, open, confirm, refund, run a settlement, dashboard | read in one statement, write in another; client may go away between |
| Webhook dispatcher (`internal/webhook/dispatcher.go`) | the batch it listed | list due rows, POST, mark SENT or FAILED with backoff | answers lost, crash between POST and mark, several dispatchers |
| Payment creation (`handlers/admin.go`, `models/store.go`) | `reference`, `idempotency_key` | count the day's rows, look the key up, insert, read back | creations race for one number or one key |
| Due dates (`handlers/admin.go`, `pay.go`, `store.go`) | `due_date` | read a date, compare it with today, expire | UTC and local midnights, days on which the clock is changed, clocks of different resolution |
| Transfer queue (`models/store.go:335`, `engine.go:60`) | `updated_at`, `processed_at`, `dueAt` | list 200 rows, the least recently updated first | rows that keep failing, or never leave, and those behind them; engines with stale lists |
| Write retry (`models/retry.go`) | the connection, the write lock | up to five attempts with backoff | stale snapshots, cancellation, a commit that must not be repeated |
| Start (`models/migrate.go`, `EnsureDefaultWallets`) | `schema_migrations`, `wallets` | apply each file once, insert the wallets, serve | several servers start, race and die on one database |
| Sessions and login (`handlers/auth.go`, `middleware/auth.go`) | `sessions`, `operators` | log in, guard, log out, clean up, deactivate | rows read in one statement and acted on later |
| Rate limiter (`middleware/ratelimit.go`) | map `visitors` | fetch a limiter under the mutex, ask it outside, drop idle ones | a limiter is dropped while a request holds it |
| Settings (`handlers/admin.go`, `pay.go`) | `app_settings`, the environment | save a form key by key, show bank details | pages opened, errors and restarts during a save |
| Reconciliation (`models/store.go:610`) | figures read so far | four statements without a transaction | postings come in between |
| Others | audit log, mail, wallet pages | | see "Not modelled" |

Everything meets in the database. The pool has one connection
(`cmd/server/main.go:73`), so a statement or a transaction is one atomic step; between two
of them any other goroutine, and any other server process, may write. That is where
the models put their interleavings.

What makes each component correct:

- ledger: append-only, one posting per kind and payment, balances that match it, no
  reversal of what never came;
- payments: the path PENDING → AWAITING_TRANSFER → SETTLED → CANCELLED, or EXPIRED, or
  FAILED after three attempts; money on the ledger before a status says so;
- settlement runs: a row that says what the ledger says, and a total swept out that what came in
  covers;
- webhooks: each transition announced at most once, only after it happened, and delivered
  at least once or given up on;
- creation: the references of a day are 1 to n, one payment per idempotency key, a due date
  that lasts to the end of its day whatever the server's zone;
- queue: a confirmed payment is taken up, however many wait;
- retry: to its caller a write is atomic, and an answer is true;
- start: files take effect once and in order, and whoever serves is ready;
- sessions: a session lasts as long as its cookie unless it is ended, and a deactivated
  operator is out within a lifetime;
- rate limit: the cleanup and the unlocked asking cannot be noticed by a visitor;
- settings and report: no page mixes two saves, none shows an imbalance of its own making.

## Modules

| Module | What it models |
|---|---|
| `Ledger` | the ledger service over wallets and entries, the unique index and CHECKs included |
| `PaymentStore` | extends `Ledger`: every statement of the store that writes payments, settlements and the producer's side of the outbox |
| `ServerMemory` | extends `PaymentStore`: what goroutines of each server hold between statements, and a crash that loses it |
| `TransferEngine` | extends `ServerMemory`: engine and sweep, one action per statement and per way it can end |
| `RequestHandlers` | extends `ServerMemory`: handlers and the settlement run, one action per statement |
| `Gateway` | composes the two: `Init`, `Next`, `Spec`, and `FairSpec` with fair workers |
| `DoubleEntry` | abstract: an append-only journal and its position |
| `PaymentLifecycle` | abstract: the life of a payment as payer and operator are promised it |
| `GatewayProperties`, `GatewayTotals` | the properties; the second those that add up amounts |
| `MCGateway` | constants for TLC |
| `WebhookOutbox`, `MCWebhookOutbox` | the delivery side of the outbox with any number of dispatchers, and its constants for TLC |
| `Reporting`, `MCReporting` | the reconciliation report beside a running `Gateway`, and its constants |
| `PaymentCreation` | numbering, idempotency keys and the INSERT of a payment request |
| `DueDates` | the calendar: zones and their clock changes, midnights, the end of the day, pages, sweep and engine |
| `TransferQueue` | the queue of the engines of several servers: LIMIT, ORDER BY, delays, failures and what is put back |
| `WriteRetry` | `WithWriteRetry` over one connection per server, a write lock and snapshots |
| `AtomicWrite` | abstract: what a caller of `WithWriteRetry` may rely on |
| `Startup` | migrations and default wallets of servers that start together |
| `Sessions` | logins, the guard, logout, cleanup, operators switched off |
| `RateLimiter` | the map of visitors, its cleanup and the requests in flight |
| `TokenBucket` | abstract: one bucket per address that is never thrown away |
| `Settings` | settings page, save, pay pages and environment |
| `Absent` | the value of a field that refers to nothing, shared by the services |
| `Services`, `MCServices` | the eight services composed, and their constants for TLC |
| `GatewayCredit` | proofs about `Gateway`: types, money before statuses, the journal refinement |
| `GatewayAgreement` | proofs: settlement rows; on one server statuses, life cycle and announcements |
| `FiniteSums` | lemmas: induction on sets of naturals and finite sets, sums over finite sets |
| `MoneyProofs` | proofs: balances, pending, report and settlements, all that adds up amounts |
| `OutboxProofs` | proofs about `WebhookOutbox` |
| `PaymentProofs` | proofs: creation, calendar, queue |
| `DatabaseProofs` | proofs: retry and start |
| `ServicesProofs` | proofs: limiter, settings, sessions, and the composition of all services |

How the models correspond to the code:

- `engine[s].at` is the next statement of `processOne` of server `s`; `payment`, `todo`
  and `seen` are its loop variable, the rest of the batch and the retry counts the scan
  read. `dueAt[s]` is the map of the same name, counted in polls until the payment is due.
- `request[r]` is a request slot: the next statement of its handler and its locals. A slot
  is reused, so a few slots stand for any number of requests over time. `Host` says which
  server a slot belongs to; a crash of that server clears it.
- An operation of the store is an operator that is true when its transaction commits. The
  actions that use it come in pairs, one where it takes effect and one where its condition
  fails (`...TooLate`, `...Again`, `...Refused`), plus `StatementFails`, `RequestFails`,
  `AnnouncementLost`, `SettlementFails` when the database returns an error.
- `Faults` chooses what the environment does: `"crash"` (kill, restart or shutdown),
  `"dberror"` (a statement fails for good, after `WithWriteRetry`), `"disconnect"` (the
  client goes away and the request's context is cancelled).
- `overdue[p]` is the comparison of the clock with the due date; `Clock` lets it pass. The sweep
  takes at most `SweepLimit` overdue rows at a time, in any order (`ORDER BY due_date`: the
  model has no due dates to order by).
- Rows of `webhook_outbox` appear in `Gateway` as counters per event and reference
  (`emitted`); how a row is delivered is `WebhookOutbox`, whose `EnqueueWebhook` stands for
  any producer.

- In `PaymentCreation` `form[f].at` is the next statement of one submission; `payments` keeps
  of a row what the UNIQUE columns look at. The handler sets no key; that of the store's other
  callers is a constant of the submission.
- `DueDates` measures in seconds of UTC. `Parsed` is `time.Parse` (UTC), `Midnight` and
  `EndOfDay` are `time.Date` in the server's zone, `formatDate` is the page's date. A zone has an
  offset before and one after the day on which its clock is changed. Pages and the engine compare
  with a clock finer than a second (`>=`), SQL with whole seconds (`>`).
- `TransferQueue` keeps the columns the query of the poll looks at, and of each engine the map
  `dueAt`, the batch with the retry counts it read, and the payment it has failed and not put back
  yet (`toRequeue`): failing and putting back are two statements, between which other engines, an
  error or a crash may come. Money and events of a payment are in `TransferEngine`. `updated_at`
  counts seconds, so two updates may bear one timestamp and tie; it is kept of the rows
  that wait only, as no other is compared.
- `Configured` in `WebhookOutbox` are the dispatchers whose server has an endpoint set; the others
  poll and do nothing (`Enabled`).
- `WriteRetry` names the resources: `conn[s]` is the pool of one, `locker` the write lock of
  the database, `version` against `seen` the snapshot of a transaction that read before others
  committed. `Busy` is "database is locked", however it comes about.
- `Startup` counts in `ran` how often a file took effect, which the program does not record:
  `applied` is what it records, and the property relates the two.
- In `Sessions` passwords are versions and a visit goes by the row it read (`row`).
- A limiter in `RateLimiter` is an identity with the tick at which it is full again; a request
  keeps the one it fetched, also when the map has forgotten it. `watch` is an observer.
- `written` in `Settings` is `app_settings` as the open transaction sees it, `stored` as all
  others do; `saves` is history.
- The services keep their state in tables or memory of their own. `Services` puts them side by
  side and lets the one named by `part` move in a behaviour: as no two share a variable, each
  meets exactly the states it meets alone, and the product of their states is not explored.
  `ServicesProofs` proves this, so that what is proved of a service holds in `Services` too.

Operators marked "Slip" are plausible mistakes in the definition that follows them. Nothing
uses them; `PROJECT.json` pairs each with a property, which must fail when the
slip takes the place of the definition.

## Runs

| Run | Instance | What it shows |
|---|---|---|
| `gateway_faults` | 1 payment, 3 settlement runs, 1 server, 2 slots, all faults | `TypeOK`, `CreditMatchesStatus`, `AnnouncedOnce`, `SettlementMatchesLedger`; the total swept out is at most what came in times the requests that can overlap; stored balances equal the sums of the ledger; pending claims no money beyond what is in flight and what was given up (`PendingIsAccounted`); one server implements `PaymentLifecycle` |
| `gateway_live` | 2 payments of 2 and 1 cents, 1 server, 1 slot, no faults, fair workers, one report | every confirmed payment is decided, every settled one announced; pending is, to the cent, the money in flight and that of payments given up; a payment that failed with attempts left is put back (`DelayedIsRetried`); no credited payment fails or expires; the report never shows an imbalance of its own reading, nor more settled than the ledger covers |
| `gateway_replicas` | 1 payment, 1 run, 2 servers that crash | the ledger implements `DoubleEntry`; what is left of the agreement of status and ledger |
| `outbox_faults` | 3 rows, batches of 2, 1 dispatcher that crashes and loses writes, beside one without an endpoint | SENT rows were received and are never sent again |
| `outbox_live` | 2 rows listed one at a time, 2 dispatchers, fair polling and time | every event is delivered or uses up its attempts; POSTs of a row are bounded although dispatchers work from stale lists |
| `services` | the eight services, each with all its faults | references dense, one payment per key (`NumbersDense`, `KeyNamesOnePayment`); days inclusive through clock changes, nothing born overdue; nobody jumps the queue; a retried write is one atomic write and only other servers make it fail as busy; migrations once and in order, serving means ready; sessions last, deactivation takes hold; the limiter is a token bucket per address and admissions are paid for; pay pages show one save |
| `services_live` | the services that must come to an end, fair; two engines, cancellations, crashes during writes | a submission is refused only by a rival; every transfer is taken up through a list of one row; every retried write returns; all servers come up |

Five runs end in a violation, each of a statement the repository makes:

| Run | Statement | What happens |
|---|---|---|
| `replicas_regress` | "Your payment %s has been settled." with `replicas: 3` in the deployment guide | engine B read the row before A settled it; its rail fails and `IncrementRetryAndSetStatus`, which has no status condition, turns SETTLED into FAILED, then AWAITING_TRANSFER, where `processed_at` hides it from every later scan |
| `crash_expire` | audit reason `expired_before_transfer` | a crash after the ledger posting and before the status update; the payment is overdue when it is taken up again and is expired with its money on the ledger |
| `crash_strands` | "Your payment is delayed" | a crash between failing a transfer and putting the payment back leaves it FAILED with attempts to go; no poll lists it and no confirmation takes it up again |
| `login_limit` | "`/admin/login` (5 attempts/min/IP)" | a full limiter and its refill admit nine attempts in one minute (here three where two are earned) |
| `outbox_exhausted` | "Failed rows retry with exponential backoff." | after the last attempt the row is listed for ever but never POSTed |

Deadlock is checked in every other run. It is not in `outbox_live` and `outbox_exhausted`, where
the outbox may be worked off with nothing left to enqueue, and in `services`, `services_live`
and `login_limit`, where submissions, calls and payments are used up.

Disagreements of code and documentation that were noticed while modelling and have no run of
their own:

- West of UTC a due date of today is refused as past: `admin.go:172` compares UTC midnight of
  the date with local midnight. East of UTC the comparison is exact.
- The last failure of a transfer does not release its amount (`engine.go:150-157`): the
  dashboard's "Pending balance" and the reconciliation page's "Escrow pending" show the money of
  finally FAILED payments for good. `GivenUp` is that money; `PendingExact` says that it is all
  that is wrong with the figure on one server without faults.
- The page of a failed payment offers "Try payment again" (`pay_failed.html:14`), but a FAILED
  payment is never confirmed again: `ConfirmPaymentIntent` takes PENDING rows only.
- `README.md:70` says that settings can be changed in `.env` later; once the settings page has
  been saved, the stored bank details win over the environment.
- `admin_settings.html:74` offers switches for mails that nothing but the settings page reads;
  `pay.go:248` sends its mail whatever they say.
- Of a payment that another server decides first, the entry of `dueAt` is never removed.

### Bounds

- One or two payments (two in `gateway_live`): payments share only the pending figure, the
  wallet balances and the batch of a poll. Two of different amounts make these interact; the
  other interleavings are of several actors on one payment.
- `SweepLimit` is 1 (200 of the ticker and 2000 of the dashboard in the code), so a
  sweep may leave overdue rows to the next.
- Two slots let two handlers overlap (two refunds, two confirmations, two runs).
- Two servers: a stale engine and the one that overtook it.
- `MaxDelayTicks` is 1 (4 in the code): the delay only has to outlast a poll for the row to
  change before it is taken up. `MaxRetries` is 3 as in the code where two servers run or a
  violation is shown, 2 in `gateway_faults` and `gateway_live`: a first failure is put back, a
  last one is not. The proofs are for every value.
- `MaxAttempts` is 2 or 3 (8 in the code), the backoff is cut accordingly, and
  `GiveUpTicks` stands for 24 h: longer than the longest backoff is all that matters.
  `attempts` stops at `MaxAttempts + 1`. `MaxPosts` only cuts histories in which a
  dispatcher fails to record outcomes again and again; without faults it is never reached.
- Creation: four submissions, two with one key, on two days: three can race for a number while
  the fourth is ahead of them. Three of them in `services_live`.
- Calendar: days of 4 seconds, zones of every constant offset from -3 to 3 and zones whose clock
  is changed by 1 or 2 seconds, either way, on the first or the second day; a little over two
  days. All that counts is the order of instants and midnights.
- Queue: two engines, two payments and a list of one, so one is always kept out; two attempts (3
  in the code), of which the first is put back and the last is not; a delay of 0 or 1 polls.
- Retry: two calls on one server, one on another; two attempts (5 in the code), of which the
  second is the last and the first is not.
- Start: three servers, three files of which the second cannot run twice, two wallets.
  `services_live` has no crashes here: a server that is killed for ever never comes up.
- Sessions: two ids, two visits, one operator and the administrator; a lifetime of 1 and a login
  of up to 1 tick, over 3 ticks, so a login made before a deactivation can expire within the
  bound.
- Limiter: two requests of one address; a burst of 2, refill of 1, dropped when idle for more
  than 3 ticks, over 8 ticks: long enough to be dropped and made anew. A minute of the login
  page is the time in which an empty limiter fills, 2 ticks. `MaxStall` bounds how long a
  request pauses between fetching a limiter and asking it (the code: nanoseconds, against 5
  minutes).
- Settings: two operators, two bank keys, two values; two different forms saved.
- `Alike` exchanges the two values that serve as session ids and editors, and the two that serve
  as visits and bank details. One value plays both parts, so that a permutation moves both.
  `RunSymmetry` exchanges slots of the same server and settlement runs. No run with symmetry
  checks liveness.
- Every payment, run or row is created at most once; ids are not reused in the code either.

### Fairness

`FairSpec` of `Gateway` assumes weak fairness of the engine's steps and of the sweep's steps,
per server: both are goroutines with a ticker, never wait for one another, and each statement
returns. Nothing is assumed of clients, of the clock or of the rail's luck: a payment is decided
because failed attempts are limited. `FairReportSpec`, the same system with a report beside it,
assumes no more: reports need not be read to the end. `FairSpec` of `WebhookOutbox` adds time: the dispatcher
waits for a backoff to pass, and an idle dispatcher polls on every tick. Only dispatchers with
an endpoint deliver, so the property asks for one. `ServicesFairSpec` assumes weak fairness of
the steps of each engine, which polls and works through its batch whatever the others do, of
each call's steps in the retry loop (timers and the busy timeout come to an end) and of each
server's steps while it starts, a new launch included (`restart: unless-stopped` in the compose
file). Nothing is assumed of outcomes, cancellations and crashes: they may happen at any time or
never. Liveness of payments and webhooks is checked without faults: a crash at the wrong place
does lose an event, or leaves a payment FAILED with retries left (`crash_strands`), and no later
step makes up for it.

## Proofs

`tlapm` checks all of them. Each safety property, action property and refinement that a passing
run checks is a theorem, for every number of actors and objects and all amounts, from the
named assumptions of the modules, which TLC evaluates in the runs. Where a property does not hold
of every deployment, the theorem says what it needs:

| Hypothesis | Meaning | Theorems |
|---|---|---|
| `OneServer` | the deployment has at most one server process | `CreditMatches`, `ServerImplementsLifecycle`, `SettledIsFinal`, `EachAnnouncedOnce`; with `Faults = {}` `ExpiredUncredited`, `PendingIsExact`, `FailedIsRetried` |
| `OneDispatcher` | at most one dispatcher works on the outbox | `SentRowsStaySent` |
| `OutboxFaults = {}`, finitely many dispatchers | no crash, no lost write | `PostsAreBounded` |
| `CreationFaults = {}` | no statement fails for good | `RefusalsHaveRivals` |
| finite `Payments`, `Requests`, `Queued` | the sums and the queue are over sets that have a size | `PendingIsBacked`, `PendingIsExact`, `ReportsCoverSettled`, `SettlementsBacked`, `QueueKeepsOrder`, `ServicesAreSafe` |

`OneServer` and the absence of faults are no convenience: `replicas_regress` shows what a second
server does, `crash_expire` and `crash_strands` what a crash does, and with a second dispatcher
a row that one has marked SENT may be in the list of the other. Each run that checks one of
these properties satisfies the hypotheses of its theorem.

### Payments and the ledger

From `LedgerAssumption` (payments and runs are different ids, amounts are positive),
`StoreAssumption` and `MemoryAssumption` (typing of the constants):

- `TypeCorrect`: `Spec => []TypeOK`. `TypeOK` is inductive: beside the types it says that an
  engine at work holds a payment and that a handler between statements holds a payment or a
  run, without which the writes that follow would not be typed. One lemma per action.
- `CreditSound`: `Spec => []CreditBeforeStatus`. Not inductive by itself: an engine about to
  mark a payment SETTLED must know that it is posted, and an engine about to post must hold
  a payment that was confirmed. `CreditInv` adds `EngineInv` (whatever an engine holds,
  however stale, is past PENDING, and posted when it is about to be marked) and the shape of
  ledger rows. The argument: statuses never return to PENDING or NONE (`StatusStep`) and rows
  are never removed, so both facts survive any step of the other actors; each step of the
  store is then a status move without money, or one of three postings.
- `LedgerImplementsDoubleEntry`: `Spec => ImplementsDoubleEntry`. The journal of the abstract
  ledger is the OPERATING half of the entries (`Journal`), its position the stored balance.
  Only three kinds of step write the ledger (`PostingSteps`); for each, the unique index and
  `RowShape` give that the entry is new (`JournalGains`), and `CreditBeforeStatus` that a
  reversed payment came in before.
- `SettlementsMatch`, on any number of servers. A run of settlements belongs to one handler, which
  remembers what it posted (`RunInv`): nobody else writes its row or its entries, so the row
  it writes at the end can only say what it did.
- `CreditMatches`, `ServerImplementsLifecycle`, `SettledIsFinal`. On one server nobody but
  the engine decides a payment that awaits its transfer: what it has read of the rows of its
  batch, status and retries, is still so, up to what it has written itself (`BatchInv`).
  `LifeInv` joins this to `CreditInv` and to what status, retries and `processed_at` say of each
  other (`PaymentInv`), and `LifeStep` is the move of the abstract payment that each step makes.
  Without faults a payment that is credited and not yet SETTLED is the one the engine is about to
  mark (`CreditedIsMarked`), which gives `ExpiredUncredited` and that
  the abstract life never fails a credited payment.
- `FailedIsRetried`, on one server without faults: a payment that is FAILED with attempts left
  is the one the engine holds, on its way to the statement that puts it back.
- `EachAnnouncedOnce`. `AnnounceInv` says that what is announced has happened, and that whoever
  is about to announce an event is the only one and the first (`OweInv`): it is the actor whose
  statement moved the payment, and on one server a payment makes each move once. Failures, which
  recur, are counted against `retry_count`.

### Amounts

`FiniteSums` proves what the sums over sets need. The library's induction theorems take an
operator as parameter, which the provers here cannot instantiate; `NaturalsInduced` and
`SetInduced` state induction for a set instead (a set of naturals that holds 0 and successors; a
set of subsets that is closed under adding an element), and each lemma by induction names the
set of cases for which it holds. From them come `SumOver` of a disjoint union, of a changed
element, and its bounds.

- `BalancesMatch`. `MoneyInv` adds that the entries are finitely many: each posting adds its two
  rows and moves the two stored balances by what those rows add to the sums.
- `ReportsBalance`. The balances sum to 0 and debits equal credits in every state (`EvenInv`);
  what the report has read so far stays balanced (`BalancedSoFar`), whatever is posted in
  between, because the figures that are compared come from one statement each.
- `ReportsCoverSettled`. In every state each amount that is settled, and twice each that is
  refunded, is a debit of its own (`RowInv`, `DebitsCoverStatus`); debits only grow, so a total
  read later covers a count read earlier.
- `PendingIsBacked`, `PendingIsExact`. What a payment adds to `pending` stays there until it is
  released, and what is not released is in flight or given up, never both (`PendingSplits`). A
  step adds one payment to it or releases one (`FlightStep`), and `pending` moves by its amount,
  stopped at 0. Inexact is a payment that left without its amount, and that takes a fault or a
  second server. That nothing is pending beyond what is in flight does not hold: `GivenUp`
  stays.
- `SettlementsBacked`. A handler between reading the balance and posting it holds at most
  what has ever come in (`HeldInv`); what went out and what is still held, of all runs together,
  is at most their number times that.

### Outbox

- `OutboxTypes`, `SentRowsWereReceived`: a dispatcher about to mark a row SENT holds a row that
  the receiver has answered for, and a receiver never forgets (`OutboxInv`).
- `SentRowsStaySent`: with one dispatcher no row that it has listed and not yet reached is SENT
  (`FinalInv`), since only the dispatcher itself marks rows, and lists name a row once.
- `PostsAreBounded`: while attempts are left, the POSTs of a row are at most the attempts it
  records and the dispatchers that hold an answer not yet recorded; once they are used up, only
  dispatchers with an old list may still POST, each once (`BoundInv`).

### Services

From the named assumption of each module:

- `CreationTypes`, `ReferencesDense`, `OnePaymentPerKey`. Density needs that no submission holds a
  number above the count plus one (`CountNotTooHigh`): rows are only added, so a number counted
  early can be too small, and is then refused, but not too large. That keys name one payment
  needs that a submission that is looking its key up has one, and that one about to read back
  has its row (`KeyInv`).
- `RefusalsHaveRivals`. A row with a submission's own id exists only after its insert
  (`RefusalInv`); so what an insert collides with is another's.
- `DueDayIsInclusive`, `NoneIsBornOverdue`. `CalendarInv`: the due time that is stored is the
  last second of the date the operator wrote, in the server's zone. Midnights rise from day to
  day although the clock is changed, since a change is shorter than a day, so an instant past the
  last second of a date is of a later date. West of UTC the comparison of midnights
  refuses more, never less.
- `QueueKeepsOrder`, for any number of engines. A row that is written leaves the queue, or bears
  the latest timestamp of the rows that wait (`QueueStep`), so the rows before a waiting one
  only become fewer.
- `NothingLeaks`, `RetryImplementsAtomicWrite`. A call's place tells its effects (`EffectTold`):
  none while it may still be repeated, one once it is committed; and connection and lock are
  held only by calls inside a transaction. Each step of the loop then maps to a step of
  `AtomicWrite` or a stutter.
- `BusyMeansRival`. Within one server the pool of one connection keeps calls apart, so
  a lock that is taken or a snapshot that is stale is the work of another server (`RivalInv`).
- `MigrationsOnceInOrder`, `ServingServersAreReady`. A server that has come to a file knows that
  all before it are applied, by whomever (`KnowsItsPast`), and nothing is ever taken back.
- `CookiesKeepTheirSession`, `DeactivationEndsAccess`. `SessionsInv`: a row of `sessions` and the
  copy a guard has read agree with the login that made them, and a login that is still checking
  its password saw the operator active before it was switched off.
- `AdmissionsPaid`, `LimiterImplementsTokenBucket`. A request that holds a limiter keeps the
  entry of its address in the map (`HoldersAreKnown`), and an entry is dropped only when its
  limiter has had the time to fill (`FullInTime`), so a new limiter never differs from the
  forgotten one. This rests on `MaxStall + Full <= IdleFor` in `RateAssumption`: the code's five
  minutes against a minute (login) or a second (pay pages) to fill a limiter.
- `PagesShowOneSave`. The transaction of a save agrees with its form on every key it has written
  (`SaverWritesItsForm`), so that what it commits is one form (`StoredIsSaved`).
- `ServicesAreSafe` carries all of these over: every safety property of the run `services` holds
  of the composition. It rests on the lemma `PartsRunAlone`, that `Services`, which moves one
  part and leaves the variables of the others alone, implements the specification of each part.

### Only model-checked

All liveness: `ConfirmedIsDecided`, `SettledIsAnnounced`, `EventsAreWorkedOff`,
`EveryTransferIsTakenUp`, `EveryCallReturns` and `AllComeUp`. They rest on fairness, hence on
ENABLED, which the provers cannot reason about. The five runs that end in a violation are
counterexamples and stay with TLC. `SettledStaysSettled`, `ExpiredBeforeTransfer` and
`DelayedIsRetried`, which three of them refute, are proved of one server, the last two without
faults.

## Not modelled

- 64-bit overflow of amounts: 2^63 cents are beyond a model that adds small amounts, and the
  code bounds amounts only by being positive.
- Pages that only list (payments, wallets, audit log), `CreateOperator` (one INSERT), the unused
  `SetPaymentAwaitingTransfer` and `UpdateWalletPending`, form validation beyond the due date.
- Mail, logging, audit log, templates, security headers: output only, its errors are dropped.
- Routing, the CSRF key, `/ready`, and the ledger check at regular intervals, which only logs; it
  reads the totals that `Reporting` reads last.
- The random numbers of session ids and payment ids are taken to be fresh.

## Plan

Done, in this order: the ledger and the store; engine, sweep and handlers over them; the
abstract journal and life cycle; types, credit and the journal refinement proved; delivery
of webhooks; creation, calendar, queue, retry, start, sessions, limiter and settings with
their composition; the report over the running gateway; the services' invariants and
refinements proved; settlement rows, one server's life cycle and announcements, sums of
amounts, outbox, calendar, queue and sessions proved.

Next:

1. Proofs with weaker hypotheses: a bound on POSTs that counts crashes; what is left of
   `CreditMatchesStatus` with several servers; refusals when statements may fail.
2. The retry loop inside the store's transactions, so that `Gateway` meets "busy" as one of
   its errors by name.
3. Wallet pages with their paging, should they come to write.
