SPECIFICATION Spec
CONSTANTS
    MaxFd = 3
    ServerConns = {s1, s2}
    ClientConns = {c1, c2}
    MaxSockets = 5
    Top = 3
    Limit = 2
    NumObjects = 3
    MaxOps = 6
INVARIANTS Owned Kept
CHECK_DEADLOCK FALSE
