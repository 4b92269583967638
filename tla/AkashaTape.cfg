CONSTANTS
    Workers = {w1, w2}
    T0 = 1
    Lock = 3
    Span = 2
    Batch = 1
    Claims = 1
    Window = 2
    HeaderLimit = 1
    MaxRows = 2
    MaxFaults = 1
    MaxPoisoned = 1
SPECIFICATION TapeSpec
INVARIANT NeverCoveredButWrong
CHECK_DEADLOCK FALSE
