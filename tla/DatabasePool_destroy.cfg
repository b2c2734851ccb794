SPECIFICATION FairSpec
CONSTANTS
    Conns = {x1, x2, x3}
    Clients = {a, b}
    NoConn = NoConn
    InitSize = 1
    MaxSize = 2
    MaxCalls = 1
    MaxFaults = 0
PROPERTY DestructorReturns
CHECK_DEADLOCK FALSE
