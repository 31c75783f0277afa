SPECIFICATION FairSpec
CONSTANTS
    Senders = {s1, s2}
    MaxLosses = 2
    MaxFaults = 1
INVARIANTS KnowsConnection OwesSubscription
PROPERTIES SubscribedAgain PublishMutexIsFreed
CHECK_DEADLOCK FALSE
