CONSTANTS
    TrainingSets = 2
    Experiments = 1
    StartSet = 0
    StartExp = 1
    MaxRetries = 2
SPECIFICATION Spec
INVARIANTS
    AllTried
CHECK_DEADLOCK FALSE
