SPECIFICATION Spec
CONSTANTS
    Tasks = {t1, t2}
    NoTask = NoTask
    MaxIds = 4
    MaxStarts = 2
    Modes = {"FIXED", "CACHED"}
    StartSizes = {1, 2}
    TaskMax = 2
    TaskLimits = {1}
    ThreadLimits = {2, 4}
    HwThreads = 3
    UIntMod = 16
    Overlap = FALSE
PROPERTY GrowsWhenBusy
CHECK_DEADLOCK FALSE
