SPECIFICATION Spec
CONSTANTS
    light = light
    heavy = heavy
    NULL = NULL
    Entry <- MCEntry
    Weight <- MCWeight
    InitSize = 2
    MaxMemory = 3
    MaxIndex = 7
INVARIANTS
    CacheEndsAtLogEnd
    GetAgreesWithLog
    MemsizeIsExact
