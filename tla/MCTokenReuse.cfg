SPECIFICATION Spec
CONSTANTS
    Requests = {r1, r2}
    MaxPairs = 3
    MaxKills = 0
INVARIANT
    OneRefreshPerToken
CHECK_DEADLOCK FALSE
