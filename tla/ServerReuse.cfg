SPECIFICATION Spec
CONSTANTS
    Conns = {c1, c2}
    NoConn = none
    MaxFree = 1
    Size = 2
    MaxReq = 2
    MaxSess = 3
INVARIANTS Inductive CallerAlive
PROPERTIES NoLateWrite
CHECK_DEADLOCK FALSE
