CONSTANTS
    Numbers   = {0, 1, 2}
    MaxHeap   = 4
    MaxBlocks = 2
SPECIFICATION Spec
INVARIANTS LibrarySound ValuesSound SharingSound
CHECK_DEADLOCK FALSE
