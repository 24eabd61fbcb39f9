\* Safety of every part, with all its faults.
SPECIFICATION ServicesSpec
CONSTANTS
    f1 = f1
    f2 = f2
    f3 = f3
    f4 = f4
    k1 = k1
    p1 = p1
    p2 = p2
    c1 = c1
    c2 = c2
    c3 = c3
    s1 = s1
    s2 = s2
    s3 = s3
    a1 = a1
    a2 = a2
    r1 = r1
    r2 = r2
    r3 = r3
    None = None
    Forms = {f1, f2, f3, f4}
    Days = {1, 2}
    IdempotencyKeys = {k1}
    NoKey = NoKey
    Refused = Refused
    Open = Open
    Key <- MCKey
    CreationFaults <- AllCreation
    Bills = {p1}
    DayLength = 4
    Zones <- AllZones
    Dates <- AllDates
    LastInstant = 9
    Engines = {s1, s2}
    Queued = {p1, p2}
    Limit = 1
    MaxTransfers = 2
    MaxDelay = 1
    QueueFaults <- AllQueue
    Calls = {c1, c2, c3}
    Servers = {s1, s2}
    Server <- MCServer
    ReadsFirst <- MCReadsFirst
    MaxAttempts = 2
    RetryFaults <- AllRetry
    Processes = {s1, s2, s3}
    Last = 3
    Repeatable <- MCRepeatable
    Wallets = 2
    CrashesHappen = TRUE
    Ids = {one, other}
    Operators = {u1}
    Admin = Admin
    Visits = {left, right}
    Lifetime = 1
    LoginTime = 1
    MaxTime = 3
    MaxResets = 1
    Addrs = {a1}
    Requests = {r1, r2}
    From <- MCFrom
    Limiters = {l1, l2}
    Refill = 1
    Full = 2
    IdleFor = 3
    MaxStall = 1
    MaxNow = 8
    Editors = {one, other}
    BankKeys = {account, bank}
    Notify = notify
    Values = {x, y}
    Changeable = {account, bank}
    Empty = Empty
    FaultsHappen = TRUE
    MaxSaves = 2
SYMMETRY Alike
INVARIANTS
    NumbersDense
    KeyNamesOnePayment
    DayIsInclusive
    NotBornOverdue
    BusyOnlyAcrossServers
    AppliedOnceInOrder
    ServingIsReady
    SessionsLast
    DeactivationTakesHold
    AdmissionsArePaid
    PageShowsOneSave
PROPERTIES
    NobodyJumpsTheQueue
    ImplementsAtomicWrite
    ImplementsTokenBucket
CHECK_DEADLOCK FALSE
