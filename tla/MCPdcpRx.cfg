CONSTANTS
    SnSpace = 8
    CountSpace = 16
    Notify = 6
    Hard = 9
    LastCount = 10
    MaxInflight = 2
    Copies = {1}
    Configs <- SomeConfigs
SPECIFICATION Spec
INVARIANTS
    StaysInStep
    DeliveryIsExact
PROPERTIES
    InOrder
    MaxCountIsReal
    HolesClose
CHECK_DEADLOCK FALSE
