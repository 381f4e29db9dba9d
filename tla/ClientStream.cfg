SPECIFICATION Spec
CONSTANTS
    Parts <- TwoObjects
    Answers <- Several
    HeaderMax = 3
    ChunkSize = 2
    BodyMax = 3
    MaxSends = 3
INVARIANTS RequestsWhole AnswersFramed EndsForReason
CHECK_DEADLOCK FALSE
