SPECIFICATION FairSpec
CONSTANTS
    Dispatchers = {d1, d2}
    Configured = {d1, d2}
    Rows = {1, 2}
    MaxAttempts = 2
    BatchLimit = 1
    MaxDelayTicks = 2
    GiveUpTicks = 3
    MaxPosts = 5
    OutboxFaults <- NoFaults
INVARIANTS
    PostsBounded
PROPERTIES
    EventsAreWorkedOff
CHECK_DEADLOCK FALSE
