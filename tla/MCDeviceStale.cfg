SPECIFICATION DeviceSpec
CONSTANTS
    Pods = {"p1", "p2"}
    Goroutines = {"g1", "g2"}
    PodOf <- TwoWriters
    MaxRevisions = 3
    MaxTime = 1
    Timeout = 0
    Offered = {"UpdateLastSeen", "SetOnline", "AddAlarm", "Register"}
INVARIANT
    Converged
