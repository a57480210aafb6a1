SPECIFICATION OutSpec
CONSTANTS
    BufInit = 3
    BufMax = 8
    DocSizes = {2, 3, 6, 7, 8, 9}
    LineSize = 5
    FileMax = 11
    Prefixes <- MCPrefixes
    Texts <- MCTexts
INVARIANTS
    LostOnlyForCause
    SteadyStateIsFree
    LogBounded
