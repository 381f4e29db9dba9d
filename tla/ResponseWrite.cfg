SPECIFICATION Spec
CONSTANTS
    MaxIov = 3
    MaxResponses = 3
    Shapes <- Answers
INVARIANTS Accounted Armed CloseHonoured
CHECK_DEADLOCK FALSE
