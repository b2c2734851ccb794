SPECIFICATION Spec
CONSTANTS
    Tasks = {t1, t2, t3}
    NoTask = NoTask
    MaxIds = 2
    MaxStarts = 2
    Modes = {"FIXED"}
    StartSizes = {1, 2}
    TaskMax = 3
    TaskLimits = {1}
    ThreadLimits = {}
    HwThreads = 3
    UIntMod = 16
    Overlap = TRUE
INVARIANTS OneHolder StartFindsItsThreads ExitSignalled NoSleepAfterStop
CHECK_DEADLOCK FALSE
