SPECIFICATION Spec
CONSTANTS
    c1 = c1
    c2 = c2
    Clients = {c1, c2}
    Side <- EntryAndExit
    Size <- TwoAndOne
    Adapters = {"paper", "webull"}
    Foreign = {c2}
    MaxCrashes = 1
    MaxOutages = 1
INVARIANTS AuditIsKept FillsAreReal
PROPERTIES RecoveryIsHonest LifecycleEnds
CHECK_DEADLOCK FALSE
