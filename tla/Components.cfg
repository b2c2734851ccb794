SPECIFICATION SpecAny
CONSTANTS
    MaxTimers = 3  MaxTime = 4  Delays = {0, 1, 2}  InCallback = {"add", "erase"}
    t1 = t1  t2 = t2
    Connects = {o1, o2, o3}  NativeHandles = {h1, h2, h3, h4, h5}
    Kinds = {"mysql", "redis", "sqlite"}  UserCloses = {"redis"}
    x = x
    Objects = {f, g}  Handles = {h1, h2}  NoHandle = Null  BufferSize = 1  DirectOver = 3
    Inputs <- OneWrite  Counts = {1}  Distances = {1}  MaxLen = 1  MaxFaults = 1
    ShortWrites = FALSE  Disciplined = FALSE
    pop = pop  n1 = n1  n2 = n2  n3 = n3  n4 = n4
    Null = Null  Zero = Zero  Newline = Newline  Garbage = Garbage  Empty = Empty
INVARIANTS NoDanglingErase HandlesSound DescriptorsOwned
PROPERTIES FiringSound TimerLoopEnds CallsReturn
CHECK_DEADLOCK FALSE
