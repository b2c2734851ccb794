SPECIFICATION FairSpec
CONSTANTS
    Conns = {x1, x2, x3, x4}
    Clients = {a, b}
    NoConn = NoConn
    InitSize = 2
    MaxSize = 3
    MaxCalls = 3
    MaxFaults = 1
INVARIANTS OneOwner NobodySleepsThrough
PROPERTIES HandsOutSound ImplementsLending GetConnectReturns DestructorWakesSleeper
CHECK_DEADLOCK FALSE
