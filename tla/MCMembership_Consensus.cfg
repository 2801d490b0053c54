SPECIFICATION Spec
CONSTANTS
    Node = {n1, n2, n3, n4}
    NONE = NONE
    Plans <- FourVoters
INVARIANT NeverViolatesConsensus
SYMMETRY Symmetry
CHECK_DEADLOCK FALSE
