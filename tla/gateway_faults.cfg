SPECIFICATION Spec
CONSTANTS
    p1 = p1
    s1 = s1
    Payments = {p1}
    Settlements = {n1, n2, n3}
    Servers = {s1}
    Requests = {r1, r2}
    None = None
    MaxDelayTicks = 1
    MaxRetries = 2
    SweepLimit = 1
    Amount <- MCAmount
    Host <- MCHost
    Faults <- AllFaults
SYMMETRY RunSymmetry
INVARIANTS
    TypeOK
    CreditMatchesStatus
    AnnouncedOnce
    SettlementMatchesLedger
    SettlementsBackedByPayments
    BalancesMatchLedger
    PendingIsAccounted
PROPERTIES
    ImplementsLifecycle
