SPECIFICATION CausalSpec
CONSTANTS
    o1 = o1
    o2 = o2
    c1 = c1
    b1 = b1
    b2 = b2
    NoBroker = NoBroker
    Orders = {o1, o2}
    Contracts = {c1}
    BrokerIds = {b1, b2}
    Keys <- MCKeys
    Stream <- MCStream
INVARIANTS CapitalIsCounted NoOverfill StatusMatchesFills PositionIsNetOfFills
PROPERTY FullyFilledIsFinal
