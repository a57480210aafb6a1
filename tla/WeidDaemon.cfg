SPECIFICATION DaemonFairSpec
CONSTANT
    MaxQueue = 2
INVARIANTS
    TeardownExclusive
    FailedStartLeavesNothing
PROPERTIES
    TeardownCompletes
    HearsAgain
CHECK_DEADLOCK FALSE
