SPECIFICATION FairSpec
CONSTANTS
    Dispatchers = {d1}
    Configured = {d1}
    Rows = {1}
    MaxAttempts = 3
    BatchLimit = 1
    MaxDelayTicks = 4
    GiveUpTicks = 8
    MaxPosts = 5
    OutboxFaults <- NoFaults
PROPERTIES
    FailedRowsRetry
CHECK_DEADLOCK FALSE
