SPECIFICATION FairSpec
CONSTANTS
    w1 = w1
    w2 = w2
    Workers = {w1, w2}
    Ends <- ThreeInTwoOut
    Scenarios <- MoreThanFits
    Capacity = 7
    ReadChunk = 4
    Blocking = FALSE
    MaxFaults = 1
CHECK_DEADLOCK FALSE
INVARIANTS TypeOK ReceivesWholePackets SendsWholePackets NoPacketStranded
PROPERTIES PacketsAreTaken StopReturns
