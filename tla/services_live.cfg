\* Every confirmed payment is taken up, every write returns, every server starts.
SPECIFICATION ServicesFairSpec
CONSTANTS
    f1 = f1
    f2 = f2
    f3 = f3
    f4 = f4
    k1 = k1
    p1 = p1
    p2 = p2
    c1 = c1
    c2 = c2
    c3 = c3
    s1 = s1
    s2 = s2
    s3 = s3
    a1 = a1
    a2 = a2
    r1 = r1
    r2 = r2
    r3 = r3
    None = None
    Forms = {f1, f2, f3}
    Days = {1, 2}
    IdempotencyKeys = {k1}
    NoKey = NoKey
    Refused = Refused
    Open = Open
    Key <- MCKey
    CreationFaults <- NoFaults
    Bills = {p1}
    DayLength = 4
    Zones <- UTC
    Dates <- AllDates
    LastInstant = 1
    Engines = {s1, s2}
    Queued = {p1, p2}
    Limit = 1
    MaxTransfers = 2
    MaxDelay = 1
    QueueFaults <- NoFaults
    Calls = {c1, c2, c3}
    Servers = {s1, s2}
    Server <- MCServer
    ReadsFirst <- MCReadsFirst
    MaxAttempts = 2
    RetryFaults <- Interruptions
    Processes = {s1, s2, s3}
    Last = 3
    Repeatable <- MCRepeatable
    Wallets = 2
    CrashesHappen = FALSE
    Ids = {one}
    Operators = {u1}
    Admin = Admin
    Visits = {left}
    Lifetime = 2
    LoginTime = 1
    MaxTime = 0
    MaxResets = 0
    Addrs = {a1}
    Requests = {r1}
    From <- MCFrom
    Limiters = {l1, l2}
    Refill = 1
    Full = 2
    IdleFor = 3
    MaxStall = 1
    MaxNow = 0
    Editors = {one}
    BankKeys = {account, bank}
    Notify = notify
    Values = {x}
    Changeable = {account, bank}
    Empty = Empty
    FaultsHappen = FALSE
    MaxSaves = 2
INVARIANTS
    RefusedOnlyByRival
PROPERTIES
    EveryTransferIsTakenUp
    EveryCallReturns
    AllComeUp
CHECK_DEADLOCK FALSE
