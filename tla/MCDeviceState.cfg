SPECIFICATION FairDeviceSpec
CONSTANTS
    Pods = {"p1", "p2"}
    Goroutines = {"g1"}
    PodOf <- OneWriter
    MaxRevisions = 3
    MaxTime = 1
    Timeout = 0
    Offered = {"UpdateLastSeen", "SetOnline", "Register", "Delete"}
INVARIANTS
    Converged
PROPERTY
    ReadersCatchUp
