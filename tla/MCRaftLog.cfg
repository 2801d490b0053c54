SPECIFICATION Spec
CONSTANTS
    MaxTerm = 2
    MaxIndex = 4
    MaxCrashes = 2
INVARIANTS
    PagesAreTheLog
    NeverPanics
    LostOnlyWithHeader
PROPERTY SyncedSurvives
CHECK_DEADLOCK FALSE
