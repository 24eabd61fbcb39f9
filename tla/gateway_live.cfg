SPECIFICATION FairReportSpec
CONSTANTS
    p1 = p1
    s1 = s1
    Payments = {p1, p2}
    Settlements = {}
    Servers = {s1}
    Requests = {r1}
    None = None
    MaxDelayTicks = 1
    MaxRetries = 2
    SweepLimit = 1
    Amount <- MCAmount
    Host <- MCHost
    Faults <- NoFaults
INVARIANTS
    PendingExact
    DelayedIsRetried
    ReportBalanced
    ReportCoversSettled
PROPERTIES
    ImplementsLifecycle
    ConfirmedIsDecided
    SettledIsAnnounced
