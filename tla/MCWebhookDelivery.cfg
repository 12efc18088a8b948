SPECIFICATION FairSpec
CONSTANTS
    Senders = {s1, s2}
    MaxLogs = 2
    MaxRetries = 2
    MaxConcurrent = 1
    MaxManual = 1
    MaxFaults = 1
INVARIANTS
    SuccessGenuine
    CancelledOnlyWhenSpent
    DuplicatesExplained
PROPERTIES
    SuccessKept
    PendingSettles
CHECK_DEADLOCK FALSE
