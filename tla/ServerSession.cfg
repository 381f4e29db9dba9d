SPECIFICATION FairSpec
CONSTANTS
    Conns = {c1}
    NoConn = none
    MaxFree = 1
    Size = 2
    MaxReq = 4
    MaxSess = 2
INVARIANTS Pipelining Delivery
PROPERTIES PipelineSpec EveryRequestHanded EveryAnswerWritten DisconnectEnds
CHECK_DEADLOCK FALSE
