CONSTANTS
    c1 = c1
    c2 = c2
    Link = {c1, c2}
    Casts <- MCCasts
    NodeId = {n1}
    Thread = {t1}
    NONE = NONE
    MaxPending = 2
    MaxAddrs = 2
SPECIFICATION Spec
INVARIANTS
    FreedIsForgotten
    ConnectedHasContext
    PendingMatchesReplies
    AnsweredOnce
    NodesCorrelate
PROPERTIES
    TerminatedIsFreed
    RequestsEnd
CHECK_DEADLOCK FALSE
