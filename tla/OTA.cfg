SPECIFICATION FairSpec
CONSTANTS
    Versions <- MCVersions
    FactoryVersion <- MCFactory
    None = None
    Damaged = Damaged
    MaxRetryCount = 2
    MaxFaults = 2
    MaxRestarts = 3
    MaxRuns = 2
INVARIANTS
    OnlyVerifiedImagesBoot
    AttemptsBounded
PROPERTIES
    PendingUpgradeDecided
    ActiveImageKept
    VersionSavedFirst
    ConfirmsPendingUpgrade
CHECK_DEADLOCK FALSE
