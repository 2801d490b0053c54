CONSTANTS
    Slot = {1, 2}
    Id = {1, 2, 3}
    NONE = NONE
    dbid = 2
    Configs <- MCConfigs
    Added <- MCAdded
    Replacements <- MCReplacements
    Node = {1, 2}
    Session = {1, 2}
    MaxLog = 2
    MaxTerm = 2
SPECIFICATION Spec
INVARIANTS SlotMapsAgree LoadRestores PanicsOnlyForTwins
CHECK_DEADLOCK FALSE
