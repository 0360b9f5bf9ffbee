SPECIFICATION AgentSpec
CONSTANTS
    MaxSnapshots = 3
    MaxCritical = 2
    MaxStops = 1
INVARIANTS CriticalKept SnapshotDecidesOnce
PROPERTIES CriticalServed PendingServed
CHECK_DEADLOCK FALSE
