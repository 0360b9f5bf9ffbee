SPECIFICATION StoreSpec
CONSTANTS
    w1 = w1
    w2 = w2
    w3 = w3
    w4 = w4
    Writers = {w1, w2, w3, w4}
    Key <- MCKey
    Payload <- MCPayload
    MaxInFlight = 3
    MaxFaults = 1
    MaxCrashes = 1
INVARIANTS SerialAppendIsDurable
PROPERTIES AppendReturns
CHECK_DEADLOCK FALSE
