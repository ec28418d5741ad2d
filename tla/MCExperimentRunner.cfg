CONSTANTS
    TrainingSets = 3
    Experiments = 1
    StartSet = 1
    StartExp = 1
    MaxRetries = 2
SPECIFICATION FairSpec
INVARIANTS
    TypeOK
    ResultsAreOwn
    StackIsOwn
    FailedListExact
PROPERTIES
    InterruptIsFinal
    Ends
CHECK_DEADLOCK FALSE
