SPECIFICATION Spec
CONSTANTS
    p1 = p1
    s1 = s1
    Payments = {p1}
    Settlements = {n1}
    Servers = {s1, s2}
    Requests = {r1}
    None = None
    MaxDelayTicks = 1
    MaxRetries = 3
    SweepLimit = 1
    Amount <- MCAmount
    Host <- MCHost
    Faults <- NoFaults
INVARIANTS
    SettledStaysSettled
