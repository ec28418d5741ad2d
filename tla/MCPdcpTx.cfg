CONSTANTS
    SnSpace = 6
    CountSpace = 12
    Hard = 9
    Discard = 2
    Late = 1
    Rooms = {2, 9}
    Bitmaps <- Reports
    Configs <- AllConfigs
SPECIFICATION Spec
INVARIANTS
    WindowIsSound
    EverySduIsLookedAfter
PROPERTIES
    WindowOpens
CHECK_DEADLOCK FALSE
