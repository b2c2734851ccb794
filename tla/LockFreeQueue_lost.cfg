SPECIFICATION SpecQueue
CONSTANTS
    a = a  b = b   p = p  q = q
    n1 = n1  n2 = n2  n3 = n3  n4 = n4  n5 = n5
    Pushers <- TwoPushes
    Poppers <- TwoPops
    Nodes <- FiveNodes
    CountMod = 8
    FreshData = {Null}
    Users <- TwoPushes
    Objs <- TwoPops
    Nobody = Null
    Null = Null
    Garbage = Garbage
    Empty = Empty
SYMMETRY Symmetry
INVARIANT NoPushLost
CHECK_DEADLOCK FALSE
