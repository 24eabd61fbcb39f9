SPECIFICATION Spec
CONSTANTS
    Dispatchers = {d1, d0}
    Configured = {d1}
    Rows = {1, 2, 3}
    MaxAttempts = 2
    BatchLimit = 2
    MaxDelayTicks = 2
    GiveUpTicks = 3
    MaxPosts = 3
    OutboxFaults <- AllFaults
INVARIANTS
    TypeOK
    SentWasReceived
PROPERTIES
    SentIsFinal
