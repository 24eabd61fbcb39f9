---------------------------- MODULE Startup ----------------------------
(* How a server starts: RunMigrations of internal/models/migrate.go, then   *)
(* EnsureDefaultWallets, then it serves. Several servers may start at once  *)
(* on one database: each looks whether a migration was applied in one       *)
(* statement and applies it in a later transaction. An error is fatal to    *)
(* the process, and the container is restarted (docker-compose.yml).        *)
EXTENDS Integers, Absent

CONSTANTS
    Processes,
    Last,        \* migration files, by their place in the sorted directory
    Repeatable,  \* may the file run again (IF NOT EXISTS), or not (ALTER TABLE)
    Wallets,     \* number of default wallets
    CrashesHappen

ASSUME StartupAssumption ==
    /\ Last \in Nat
    /\ Repeatable \in [1 .. Last -> BOOLEAN]
    /\ Wallets \in Nat
    /\ None \notin Processes
    /\ CrashesHappen \in BOOLEAN

VARIABLES
    applied,   \* rows of schema_migrations
    ran,       \* how often each file has taken effect
    wallets,   \* rows of wallets per default type
    txHolder,  \* the server whose transaction holds the write lock
    server     \* where each server stands, and with which file or wallet

startupVars == <<applied, ran, wallets, txHolder, server>>

-----------------------------------------------------------------------------
Files == 1 .. Last
Down == [at |-> "down", next |-> 1]

StartupInit ==
    /\ applied = {}
    /\ ran = [m \in Files |-> 0]
    /\ wallets = [w \in 1 .. Wallets |-> 0]
    /\ txHolder = None
    /\ server = [s \in Processes |-> Down]

ServerAt(s, at) == server[s].at = at
ServerGoTo(s, at, next) == server' = [server EXCEPT ![s] = [at |-> at, next |-> next]]

(* log.Fatal: what the process had not committed is undone. *)
Exit(s) ==
    /\ server' = [server EXCEPT ![s] = Down]
    /\ txHolder' = IF txHolder = s THEN None ELSE txHolder
    /\ UNCHANGED <<applied, ran, wallets>>

-----------------------------------------------------------------------------
Launch(s) ==
    /\ ServerAt(s, "down")
    /\ ServerGoTo(s, "check", 1)
    /\ UNCHANGED <<applied, ran, wallets, txHolder>>

(* Slip: applied migrations are not skipped. *)
CheckNothing(s) ==
    /\ ServerAt(s, "check")
    /\ server[s].next \in Files
    /\ ServerGoTo(s, "apply", server[s].next)
    /\ UNCHANGED <<applied, ran, wallets, txHolder>>

(* SELECT COUNT(1) FROM schema_migrations WHERE version = ? *)
CheckApplied(s) ==
    /\ ServerAt(s, "check")
    /\ server[s].next \in Files
    /\ IF server[s].next \in applied
       THEN ServerGoTo(s, "check", server[s].next + 1)
       ELSE ServerGoTo(s, "apply", server[s].next)
    /\ UNCHANGED <<applied, ran, wallets, txHolder>>

MigrationsDone(s) ==
    /\ ServerAt(s, "check")
    /\ server[s].next \notin Files
    /\ ServerGoTo(s, "wallets", 1)
    /\ UNCHANGED <<applied, ran, wallets, txHolder>>

Runs(m) == Repeatable[m] \/ ran[m] = 0

(* Slip: the file runs outside of the transaction. *)
ApplyFileAtOnce(s) ==
    /\ ServerAt(s, "apply")
    /\ txHolder = None
    /\ Runs(server[s].next)
    /\ txHolder' = s
    /\ ran' = [ran EXCEPT ![server[s].next] = @ + 1]
    /\ ServerGoTo(s, "record", server[s].next)
    /\ UNCHANGED <<applied, wallets>>

(* The statements of the file, in a transaction that takes the write lock. *)
ApplyFile(s) ==
    /\ ServerAt(s, "apply")
    /\ txHolder = None
    /\ Runs(server[s].next)
    /\ txHolder' = s
    /\ ServerGoTo(s, "record", server[s].next)
    /\ UNCHANGED <<applied, ran, wallets>>

(* Another server was faster and the column is there already, or it holds    *)
(* the lock longer than the busy timeout.                                    *)
ApplyFails(s) ==
    /\ ServerAt(s, "apply")
    /\ txHolder # None \/ ~Runs(server[s].next)
    /\ Exit(s)

(* The version is inserted and the transaction committed: file and version  *)
(* take effect together.                                                    *)
RecordAndCommit(s) ==
    /\ ServerAt(s, "record")
    /\ server[s].next \notin applied
    /\ applied' = applied \cup {server[s].next}
    /\ ran' = [ran EXCEPT ![server[s].next] = @ + 1]
    /\ txHolder' = None
    /\ ServerGoTo(s, "check", server[s].next + 1)
    /\ UNCHANGED wallets

(* The version is the primary key: a file that another server applied after *)
(* the check is refused here at the latest, and its effects undone.         *)
RecordFails(s) ==
    /\ ServerAt(s, "record")
    /\ server[s].next \in applied
    /\ Exit(s)

(* INSERT .. ON CONFLICT(type) DO NOTHING, a statement per wallet. *)
InsertWallet(s) ==
    /\ ServerAt(s, "wallets")
    /\ server[s].next <= Wallets
    /\ txHolder = None
    /\ wallets' = [wallets EXCEPT ![server[s].next] = 1]
    /\ ServerGoTo(s, "wallets", server[s].next + 1)
    /\ UNCHANGED <<applied, ran, txHolder>>

(* Slip: the error of a wallet is only logged. *)
WalletFailsLogged(s) ==
    /\ ServerAt(s, "wallets")
    /\ txHolder # None
    /\ server[s].next <= Wallets
    /\ ServerGoTo(s, "wallets", server[s].next + 1)
    /\ UNCHANGED <<applied, ran, wallets, txHolder>>

WalletFails(s) ==
    /\ ServerAt(s, "wallets")
    /\ server[s].next <= Wallets
    /\ txHolder # None
    /\ Exit(s)

ListenAndServe(s) ==
    /\ ServerAt(s, "wallets")
    /\ server[s].next > Wallets
    /\ ServerGoTo(s, "serving", server[s].next)
    /\ UNCHANGED <<applied, ran, wallets, txHolder>>

CrashProcess(s) == CrashesHappen /\ ~ServerAt(s, "down") /\ Exit(s)

-----------------------------------------------------------------------------
StartStep(s) ==
    \/ Launch(s)
    \/ CheckApplied(s)
    \/ MigrationsDone(s)
    \/ ApplyFile(s)
    \/ ApplyFails(s)
    \/ RecordAndCommit(s)
    \/ RecordFails(s)
    \/ InsertWallet(s)
    \/ WalletFails(s)
    \/ ListenAndServe(s)

StartupNext == \E s \in Processes : StartStep(s) \/ CrashProcess(s)

StartupSpec == StartupInit /\ [][StartupNext]_startupVars

-----------------------------------------------------------------------------
(* However starts race and die, the files take effect in their order, each   *)
(* at most once, and exactly those that are recorded have: two records, the  *)
(* schema and schema_migrations, that only the transaction keeps together.   *)
AppliedOnceInOrder ==
    /\ \A m \in Files : ran[m] = IF m \in applied THEN 1 ELSE 0
    /\ \A m \in applied, k \in Files : k < m => k \in applied

(* A server that serves finds the whole schema and every default wallet,     *)
(* even one that lost every race while it started.                           *)
ServingIsReady ==
    \A s \in Processes : ServerAt(s, "serving") =>
      applied = Files /\ \A w \in 1 .. Wallets : wallets[w] = 1

=============================================================================
