SPECIFICATION FairSpec
CONSTANTS
    BufferSize = 4
    Threshold = 8
    MaxSize = 16
    MaxReq = 3
    Shapes <- Mixed
INVARIANTS Inductive ServedUpTo
PROPERTIES LoopEnds
CHECK_DEADLOCK FALSE
