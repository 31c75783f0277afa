SPECIFICATION Spec
CONSTANTS
    Versions <- MCTwoVersions
    FactoryVersion <- MCFactory
    None = None
    Damaged = Damaged
    MaxRetryCount = 2
    MaxFaults = 0
    MaxRestarts = 1
    MaxRuns = 1
PROPERTIES
    ConfirmedSlotIsRunning
CHECK_DEADLOCK FALSE
