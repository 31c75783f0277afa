SPECIFICATION FairSpec
CONSTANTS
    d1 = d1
    u1 = u1
    u2 = u2
    g1 = g1
    w1 = w1
    w2 = w2
    Down = {d1}
    Foreign = {g1}
    Up = {u1, u2}
    Garbage = {g1}
    Size <- Lengths
    Announced = {3, 5}
    Workers = {w1, w2}
    Capacity = 9
    Scenarios <- TwoAtATime
CHECK_DEADLOCK FALSE
INVARIANTS DeadAreNotUsed AcceptedWhileServing NoUplinkLost
PROPERTIES AcceptedIsWritten GatewayReturns
