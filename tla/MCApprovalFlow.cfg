SPECIFICATION FairSpec
CONSTANTS
    Deciders = {d1, d2}
    Waiters = {w1, w2}
INVARIANTS
    ApprovedOnce
    TimeoutCloses
PROPERTIES
    CallersReturn
    ImplementsPromise
CHECK_DEADLOCK FALSE
