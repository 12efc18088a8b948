SPECIFICATION FairSpec
CONSTANTS
    Requests = {r1, r2}
    MaxPairs = 3
    MaxKills = 1
INVARIANTS
    SessionWhole
    StoredTokenServes
    AnsweredNotKept
PROPERTY
    RequestsSettle
CHECK_DEADLOCK FALSE
