SPECIFICATION FairSpec
CONSTANTS
    NumConns = 2
    HasTimeout = TRUE
    MaxReq = 3
INVARIANTS OnceEach OwnAnswer Armed
PROPERTIES RefusedWhenClosed EveryRequestCalledBack
CHECK_DEADLOCK FALSE
