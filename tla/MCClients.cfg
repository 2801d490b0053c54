CONSTANTS
    Client = {c1, p1}
    Proxy = {p1}
    NONE = NONE
    Menus <- MCMenus
SPECIFICATION Spec
INVARIANTS RequestHasOneOwner ReplicasAgree TimeoutHitsItsCommand ReadsAreFresh
PROPERTIES SessionsEnd RequestsAreAnswered
CHECK_DEADLOCK FALSE
