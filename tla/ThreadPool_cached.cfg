SPECIFICATION FairSpec
CONSTANTS
    Tasks = {t1, t2, t3}
    NoTask = NoTask
    MaxIds = 5
    MaxStarts = 2
    Modes = {"FIXED", "CACHED"}
    StartSizes = {1, 2}
    TaskMax = 2
    TaskLimits = {1, 2}
    ThreadLimits = {2, 4}
    HwThreads = 3
    UIntMod = 16
    Overlap = FALSE
INVARIANTS TypeOK WaitOnlyWhenEmpty BlockedOnlyWhenFull PoolSizeBounds IdleNeverUnder
PROPERTIES ImplementsExecutor GrowsInFirstCycle TasksDrain StopReturns
CHECK_DEADLOCK FALSE
