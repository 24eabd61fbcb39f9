-------------------------- MODULE ServerMemory --------------------------
(* The memory of the server processes: what each goroutine holds between   *)
(* two statements it sends to the database. A transfer engine and an       *)
(* expiry sweep run in every process; a handler runs per request.          *)
EXTENDS PaymentStore

CONSTANTS
    Servers,        \* server processes that share the database
    Requests,       \* request slots: how many handlers may run at a time
    Host,           \* the server process that handles each request slot
    MaxDelayTicks,  \* bound: ticks of 30 s until the random delay is over
    MaxRetries      \* failed attempts after which the engine gives up

ASSUME MemoryAssumption ==
    /\ Host \in [Requests -> Servers]
    /\ MaxDelayTicks \in Nat \ {0}
    /\ MaxRetries \in Nat \ {0}

VARIABLES
    engine,  \* per server: where processAwaiting stands, and its locals
    dueAt,   \* per server: the map dueAt, as ticks until a payment is due
    sweep,   \* per server: expired ids the sweep still has to announce
    request  \* per slot: where its handler stands, and its locals

memoryVars == <<engine, dueAt, sweep, request>>

-----------------------------------------------------------------------------
IdleEngine == [at |-> "idle", payment |-> None, todo |-> {},
               seen |-> [p \in Payments |-> 0]]

Idle == [at |-> "idle", payment |-> None, run |-> None, cents |-> 0]

MemoryInit ==
    /\ engine = [s \in Servers |-> IdleEngine]
    /\ dueAt = [s \in Servers |-> [p \in Payments |-> None]]
    /\ sweep = [s \in Servers |-> {}]
    /\ request = [r \in Requests |-> Idle]

(* A process dies, its memory and its requests with it, and starts again. A *)
(* shutdown is the same: it cancels the contexts of workers and handlers.   *)
Crash(s) ==
    /\ "crash" \in Faults
    /\ engine' = [engine EXCEPT ![s] = IdleEngine]
    /\ dueAt' = [dueAt EXCEPT ![s] = [p \in Payments |-> None]]
    /\ sweep' = [sweep EXCEPT ![s] = {}]
    /\ request' = [r \in Requests |-> IF Host[r] = s THEN Idle ELSE request[r]]
    /\ UNCHANGED storeVars

=============================================================================
