SPECIFICATION FairSpec
CONSTANTS
    DualImage = TRUE
    Jobs <- MCJobs
    MaxOps = 3
    MaxFaults = 1
    MaxCrashes = 2
INVARIANTS TypeOK ActiveWhole GivesUpOnlyIfNone FlagNamesRunning UserEnvKept CodeErasedOnce
PROPERTY BootEnds
CHECK_DEADLOCK FALSE
