SPECIFICATION Spec
CONSTANTS
    MaxCap   = 6
    MaxNew   = 4
    WordBits = 3
    MaxWords = 2
    MaxBits  = 4
INVARIANTS ContainersSound VectorSound BitmapSound
CHECK_DEADLOCK FALSE
