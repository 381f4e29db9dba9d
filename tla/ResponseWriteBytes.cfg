SPECIFICATION Spec
CONSTANTS
    MaxIov = 3
    MaxResponses = 2
    Shapes <- Answers
INVARIANTS RightBytes
CHECK_DEADLOCK FALSE
