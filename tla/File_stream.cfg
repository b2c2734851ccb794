SPECIFICATION Spec
CONSTANTS
    f = f  g = g  h1 = h1  x = x
    Objects <- TwoObjects
    Handles <- OneHandle
    NoHandle = NoHandle
    Zero = Zero
    Newline = Newline
    BufferSize = 2
    DirectOver = 2
    Inputs <- Writes
    Counts = {0, 3}
    Distances <- Backward
    MaxLen = 3
    MaxFaults = 1
    ShortWrites = FALSE
    Disciplined = TRUE
SYMMETRY Symmetry
PROPERTY ImplementsStream
CHECK_DEADLOCK FALSE
