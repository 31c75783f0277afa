SPECIFICATION Spec
CONSTANTS
    w1 = w1
    w2 = w2
    Workers = {w1, w2}
    Ends <- TwoIn
    Scenarios <- AllOfIt
    Capacity = 7
    ReadChunk = 4
    Blocking = FALSE
    MaxFaults = 0
CHECK_DEADLOCK FALSE
INVARIANT RunningMeansReading
