SPECIFICATION FairSpec
CONSTANTS
    NumProcs = 2
    AutoRestart <- AllProcs
    RestartArg = 2
    CrashArg = 4
    DelayArg = 1
    MaxFaults = 1
INVARIANTS ChildrenHeld RestartAfterCrash RestartsBounded NoChildLeft CrashedIsRestartedWithoutFaults
PROPERTIES StopEndsDaemon ZombiesReaped NoStartBeyondCrashLimit
