SPECIFICATION FairSpec
CONSTANTS
    Target = 12
    Closed = 1
    MaxAge = 9
    MaxTime = 15
INVARIANTS
    ElapsedIsWorked
    BreachedWhenSpent
    BreachAnnounced
PROPERTIES
    NoWayBack
    BreachNoticed
CHECK_DEADLOCK FALSE
