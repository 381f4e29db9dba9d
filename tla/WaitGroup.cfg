SPECIFICATION FairSpec
CONSTANTS
    Groups = {g1, g2}
    MaxCount = 2
    MaxAdds = 2
    EarlyDone = FALSE
INVARIANTS Inductive Conserved PoolAlive
PROPERTIES EveryWaitEnds
CHECK_DEADLOCK FALSE
