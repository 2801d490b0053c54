SPECIFICATION Spec
CONSTANTS
    Node = {n1, n2, n3, n4}
    NONE = NONE
    Plans <- MCPlans
INVARIANTS
    ConsensusUnlessHasty
    NodesFollowLog
    AssertionsHold
CONSTRAINT NotHasty
SYMMETRY Symmetry
CHECK_DEADLOCK FALSE
