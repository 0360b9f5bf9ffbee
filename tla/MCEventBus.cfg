SPECIFICATION BusSpec
CONSTANTS
    e1 = e1
    e2 = e2
    e3 = e3
    e4 = e4
    cA = cA
    cB = cB
    Events = {e1, e2, e3, e4}
    Correlations = {cA, cB}
    CorrelationOf <- MCCorrelationOf
    Emits <- MCEmits
    Sources = {e1, e3, e4}
    Handlers = 2
    MaxPublish = 2
INVARIANTS ClosedIsQuiet
PROPERTIES Ordered CloseEnds
CHECK_DEADLOCK FALSE
