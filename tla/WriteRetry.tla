--------------------------- MODULE WriteRetry ---------------------------
(* WithWriteRetry of internal/models/retry.go around the transactions that   *)
(* use it: each server has one connection (SetMaxOpenConns(1)), the database *)
(* one writer at a time and snapshots for readers (WAL). A transaction that  *)
(* reads first cannot write once somebody else has committed; one that finds *)
(* the write lock taken gives up after the busy timeout. Both are "database  *)
(* is locked", after which the attempt is repeated.                          *)
EXTENDS Integers, Absent

CONSTANTS
    Calls,        \* calls of WithWriteRetry
    Servers,
    Server,       \* the server that makes each call
    ReadsFirst,   \* does the call's transaction read before it writes
    MaxAttempts,  \* 5 in the code
    RetryFaults   \* which of "refusal", "cancel" and "crash" may happen

ASSUME RetryAssumption ==
    /\ Server \in [Calls -> Servers]
    /\ ReadsFirst \in [Calls -> BOOLEAN]
    /\ MaxAttempts \in Nat \ {0}
    /\ None \notin Calls \cup {"ok", "busy", "refused", "cancelled", "lost"}
    /\ RetryFaults \subseteq {"refusal", "cancel", "crash"}

VARIABLES
    version,    \* commits so far
    effects,    \* how often each call's transaction was committed
    locker,     \* who holds the write lock
    conn,       \* who uses each server's connection
    call,       \* where each call stands
    cancelled,  \* calls whose context is done
    answer      \* what each caller was told

retryVars == <<version, effects, locker, conn, call, cancelled, answer>>

-----------------------------------------------------------------------------
Places == {"attempt", "inTx", "wrote", "committed", "backoff", "returned"}
Answers == {"ok", "busy", "refused", "cancelled", "lost"}

RetryInit ==
    /\ version = 0
    /\ effects = [c \in Calls |-> 0]
    /\ locker = None
    /\ conn = [s \in Servers |-> None]
    /\ call = [c \in Calls |-> [at |-> "attempt", attempt |-> 1, seen |-> 0]]
    /\ cancelled = {}
    /\ answer = [c \in Calls |-> None]

CallAt(c, at) == call[c].at = at
CallGoTo(c, at) == call' = [call EXCEPT ![c].at = at]

Return(c, a) ==
    /\ CallGoTo(c, "returned")
    /\ answer' = [answer EXCEPT ![c] = a]

(* Slip: no deferred Rollback: the transaction keeps the connection. *)
RollbackForgotten(c) ==
    /\ locker' = IF locker = c THEN None ELSE locker
    /\ UNCHANGED conn

(* The deferred Rollback, or the end of the statement: locks and connection *)
(* are given back.                                                          *)
Rollback(c) ==
    /\ locker' = IF locker = c THEN None ELSE locker
    /\ conn' = [s \in Servers |-> IF conn[s] = c THEN None ELSE conn[s]]

-----------------------------------------------------------------------------
(* Slip: no SetMaxOpenConns(1). *)
BeginTxAnyConn(c) ==
    /\ CallAt(c, "attempt")
    /\ c \notin cancelled
    /\ conn' = [conn EXCEPT ![Server[c]] = c]
    /\ call' = [call EXCEPT ![c].at = "inTx", ![c].seen = version]
    /\ UNCHANGED <<version, effects, locker, cancelled, answer>>

(* BeginTx waits for the connection; the first read fixes the snapshot. *)
BeginTx(c) ==
    /\ CallAt(c, "attempt")
    /\ c \notin cancelled
    /\ conn[Server[c]] = None
    /\ conn' = [conn EXCEPT ![Server[c]] = c]
    /\ call' = [call EXCEPT ![c].at = "inTx", ![c].seen = version]
    /\ UNCHANGED <<version, effects, locker, cancelled, answer>>

Stale(c) == ReadsFirst[c] /\ call[c].seen # version

Write(c) ==
    /\ CallAt(c, "inTx")
    /\ ~Stale(c)
    /\ locker = None
    /\ locker' = c
    /\ CallGoTo(c, "wrote")
    /\ UNCHANGED <<version, effects, conn, cancelled, answer>>

Busy(c) ==
    /\ CallAt(c, "inTx")
    /\ Stale(c) \/ locker # None
    /\ Rollback(c)
    /\ IF call[c].attempt = MaxAttempts
       THEN Return(c, "busy")
       ELSE CallGoTo(c, "backoff") /\ UNCHANGED answer
    /\ UNCHANGED <<version, effects, cancelled>>

Backoff(c) ==
    /\ CallAt(c, "backoff")
    /\ c \notin cancelled
    /\ call' = [call EXCEPT ![c].at = "attempt", ![c].attempt = call[c].attempt + 1]
    /\ UNCHANGED <<version, effects, locker, conn, cancelled, answer>>

(* Slip: a commit that took effect is reported as busy, and repeated. *)
CommitInDoubt(c) ==
    /\ CallAt(c, "wrote")
    /\ version' = version + 1
    /\ effects' = [effects EXCEPT ![c] = @ + 1]
    /\ Rollback(c)
    /\ CallGoTo(c, IF call[c].attempt = MaxAttempts THEN "committed" ELSE "backoff")
    /\ UNCHANGED <<cancelled, answer>>

Commit(c) ==
    /\ CallAt(c, "wrote")
    /\ version' = version + 1
    /\ effects' = [effects EXCEPT ![c] = @ + 1]
    /\ Rollback(c)
    /\ CallGoTo(c, "committed")
    /\ UNCHANGED <<cancelled, answer>>

Succeed(c) ==
    /\ CallAt(c, "committed")
    /\ Return(c, "ok")
    /\ UNCHANGED <<version, effects, locker, conn, cancelled>>

(* Any other error ends the loop: a constraint, a disk that fails. *)
Refuse(c) ==
    /\ "refusal" \in RetryFaults
    /\ call[c].at \in {"inTx", "wrote"}
    /\ Rollback(c)
    /\ Return(c, "refused")
    /\ UNCHANGED <<version, effects, cancelled>>

(* A context that is done is noticed before an attempt, while it waits, in   *)
(* its statements and in the backoff; a commit that came through stands.     *)
GiveUp(c) ==
    /\ c \in cancelled
    /\ call[c].at \in {"attempt", "inTx", "wrote", "backoff"}
    /\ Rollback(c)
    /\ Return(c, "cancelled")
    /\ UNCHANGED <<version, effects, cancelled>>

Cancel(c) ==
    /\ "cancel" \in RetryFaults
    /\ ~CallAt(c, "returned")
    /\ cancelled' = cancelled \cup {c}
    /\ UNCHANGED <<version, effects, locker, conn, call, answer>>

(* The database undoes what a dead process had not committed. *)
CrashServer(s) ==
    /\ "crash" \in RetryFaults
    /\ LET lost == {c \in Calls : Server[c] = s /\ ~CallAt(c, "returned")}
       IN /\ locker' = IF locker \in lost THEN None ELSE locker
          /\ call' = [c \in Calls |-> IF c \in lost
                                      THEN [call[c] EXCEPT !.at = "returned"]
                                      ELSE call[c]]
          /\ answer' = [c \in Calls |-> IF c \in lost THEN "lost" ELSE answer[c]]
    /\ conn' = [conn EXCEPT ![s] = None]
    /\ UNCHANGED <<version, effects, cancelled>>

-----------------------------------------------------------------------------
CallStep(c) ==
    \/ BeginTx(c)
    \/ Write(c)
    \/ Busy(c)
    \/ Backoff(c)
    \/ Commit(c)
    \/ Succeed(c)
    \/ GiveUp(c)

RetryNext ==
    \/ \E c \in Calls : CallStep(c) \/ Refuse(c) \/ Cancel(c)
    \/ \E s \in Servers : CrashServer(s)

RetrySpec == RetryInit /\ [][RetryNext]_retryVars

-----------------------------------------------------------------------------
(* Types, and who owns what: a call's place says whether it uses its         *)
(* server's connection and the write lock, so neither is leaked when an      *)
(* attempt ends; and no call makes more attempts than it may.                *)
RetryTypeOK ==
    /\ version \in Nat
    /\ effects \in [Calls -> Nat]
    /\ call \in [Calls -> [at : Places, attempt : 1 .. MaxAttempts, seen : Nat]]
    /\ cancelled \subseteq Calls
    /\ answer \in [Calls -> Answers \cup {None}]
    /\ \A s \in Servers :
         {c \in Calls : call[c].at \in {"inTx", "wrote"} /\ Server[c] = s}
           = {conn[s]} \ {None}
    /\ {c \in Calls : CallAt(c, "wrote")} = {locker} \ {None}

(* Retried, cancelled and crashed as it may be, a call takes effect at most  *)
(* once; "ok" means it did and an error means it did not: what the callers   *)
(* of WithWriteRetry treat as one atomic step is one.                        *)
Promise == INSTANCE AtomicWrite
ImplementsAtomicWrite == Promise!Spec

(* Only other processes can keep a call from writing until it gives up: the  *)
(* calls of one server wait for its connection instead. Whoever is told      *)
(* "busy" had a rival on another server that committed or was cut short.     *)
BusyOnlyAcrossServers ==
    \A c \in Calls : answer[c] = "busy" =>
      \E r \in Calls : /\ Server[r] # Server[c]
                       /\ \/ effects[r] > 0
                          \/ CallAt(r, "wrote")
                          \/ answer[r] \in {"refused", "cancelled", "lost"}

=============================================================================
