---------------------------- MODULE MCDeviceState ----------------------------
\* Which pod each goroutine runs on, in the runs of DeviceState.
EXTENDS DeviceState

OneWriter == [g \in {"g1"} |-> "p1"]
TwoWriters == [g \in {"g1", "g2"} |-> IF g = "g1" THEN "p1" ELSE "p2"]
=============================================================================
