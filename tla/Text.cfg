SPECIFICATION TextSpec
CONSTANTS
    Int32Max = 127
    Int64Max = 2047
    Digits64 = 3
    MaxHeaders = 2
    Inputs <- SmallInputs
INVARIANTS HeadEnds HeadersRead Bounded TextExact
PROPERTIES HeadStable
CHECK_DEADLOCK FALSE
