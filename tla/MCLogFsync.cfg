SPECIFICATION LFairSpec
CONSTANTS
    MaxIndex = 3
    MaxTruncations = 1
    MaxPages = 1
INVARIANTS
    SelfMatchIsDurableUnlessOvertaken
    PanicsOnlyIfOvertaken
    NoLostWakeup
PROPERTIES
    AppendedIsCounted
    MainThreadResumes
CHECK_DEADLOCK FALSE
