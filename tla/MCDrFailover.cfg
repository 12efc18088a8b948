SPECIFICATION FairSpec
CONSTANTS
    MaxEvents = 2
    Connected = TRUE
    Rollbacks = {c1, c2}
    MaxCrashes = 1
INVARIANTS
    ApprovedOnce
    NoStuckFlag
PROPERTIES
    RejectedNeverRuns
    FailoverEnds
CHECK_DEADLOCK FALSE
