CONSTANTS
    Slot = {1}
    slot = 1
    Id = {1, 2}
    NONE = NONE
    Key = {k1}
    Value = {v1, v2}
    a1 = a1
    a2 = a2
    b1 = b1
    b2 = b2
    Node = {a1, a2, b1, b2}
    NodesOf <- MCNodesOf
    Home = 1
    Plans <- MCPlans
SPECIFICATION Spec
INVARIANTS ServedIsCurrent
PROPERTIES IsKeyStore KeysArrive
CHECK_DEADLOCK FALSE
