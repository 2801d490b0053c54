SPECIFICATION Spec
CONSTANTS
    MaxTerm = 2
    MaxIndex = 4
    MaxCrashes = 0
INVARIANT DeleteFindsLastEntry
CHECK_DEADLOCK FALSE
