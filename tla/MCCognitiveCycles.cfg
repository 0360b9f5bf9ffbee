CONSTANTS
    MaxSchemaRepair = 1
    MaxEscalations = 1
    PerceptionRoles <- MCPerception
    DiscoveryRoles <- MCDiscovery
    DebateRoles <- MCDebate
    Inventors <- MCInventors
    MaxCandidates = 3
    MaxDebateRounds = 2
    MaxSwitches = 1
    MaxProposed = 1
    MaxQty = 2
    MaxEntries = 1
    MaxWork = 3
    MaxOrders = 2
SPECIFICATION Spec
CHECK_DEADLOCK FALSE
INVARIANT EntryIsDecided
INVARIANT CheckpointAgreesWithCalls
PROPERTY FollowsLifecycle
PROPERTY CyclesEnd
