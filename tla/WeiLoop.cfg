SPECIFICATION LoopSpec
CONSTANTS
    INT_MAX = 2
    WEI_TICK_DEFAULT_MS = 2
    Periods = {0, 1, 3}
    MaxQueue = 1
    ToolQueue = 1
    MaxSlip = 1
INVARIANTS
    DeadlineStands
    InsteadKeepsPath
PROPERTIES
    TicksForever
    WeiRegainsPath
    InterruptEndsTool
