SPECIFICATION Spec
CONSTANTS
    c1 = c1
    c2 = c2
    t1 = t1
    t2 = t2
    Clients = {c1, c2}
    Side <- MCSide
    Tasks = {t1, t2}
    Adapters = {"paper", "webull"}
    LostReplies = 1
    MaxOrders = 3
    MaxCalls = 3
    MaxCrashes = 1
INVARIANTS RememberedOncePerClient LedgerIsTrue AnnouncementMatches
CHECK_DEADLOCK FALSE
