SPECIFICATION Spec
CONSTANTS
    k1 = k1
    k2 = k2
    Contracts = {k1, k2}
    Workers = {"decision", "position"}
    MaxQty = 3
    MaxOrders = 3
    MaxRequests = 3
SYMMETRY ContractSymmetry
INVARIANTS NotOversoldAtOnce OnlyUnknownFillsRepeat OneWorkingEntry
CHECK_DEADLOCK FALSE
