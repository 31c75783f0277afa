SPECIFICATION FairSpec
CONSTANTS
    Workers = {w1, w2, w3}
    Producers = {p1, p2}
    NoThread = NoThread
    MaxCalls = 4
INVARIANTS
    DrainedBeforeExit
    NoStrandedTask
PROPERTIES
    TaskPoolSpec
    AcceptedTaskRuns
    StopEndsUnlessMissed
CHECK_DEADLOCK FALSE
