SPECIFICATION DaemonFairSpec
CONSTANT
    MaxQueue = 1
PROPERTIES
    ShutdownCompletes
CHECK_DEADLOCK FALSE
