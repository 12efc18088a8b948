SPECIFICATION FairSpec
CONSTANTS
    Workers = {w1, w2}
    Fallback = fallback
    Events = {1, 2, 3}
    Threshold = 2
    MaxRetries = 2
    MaxCrashes = 1
INVARIANTS
    NoSilentLoss
    DroppedOnlyAfterRetries
    DuplicatesExplained
PROPERTY
    QueueDrains
