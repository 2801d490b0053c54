SPECIFICATION MCSpec
CONSTANTS
    Node = {n1, n2, n3}
    NONE = NONE
    MaxBatch = 1
    CrashKinds = {"process", "power"}
    MaxTerm = 4
    MaxIndex = 3
    MaxInflight = 2
    MaxTimeouts = 3
    MaxHeldBack = 1
    MaxCrashes = 1
    MaxSnapshots = 1
CONSTRAINT NoneIgnored
SYMMETRY Symmetry
INVARIANTS
    ElectionSafety
    LogMatching
    StateMachineSafety
    LeaderCompleteness
    NeverGivesUp
    CommittedSurvives
CHECK_DEADLOCK FALSE
