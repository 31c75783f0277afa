SPECIFICATION Spec
CONSTANTS
    IntMod = 1024
    Items <- MCItems
    MaxPending = 1
    Capacity = 16
    MaxRead = 18
    Documents <- MCDocuments
INVARIANT WrittenTypeIsInRange
CHECK_DEADLOCK FALSE
