CONSTANTS
    k1 = k1
    k2 = k2
    a1 = a1
    a2 = a2
    Keys <- MCKeys
    ZeroKey = ZeroKey
    ActionIds <- MCActionIds
    Unset = Unset
    Requests <- MCRequests
    QueueCap = 1
    MaxActions = 2
SPECIFICATION FairSpec
INVARIANTS
    TypeOK
    ObserverMatchesTask
    ServicesInPlace
    RoundsOwnTask
    OnlyAllowedRun
    CrashOnlyOnReuse
PROPERTIES
    DeleteIsFinal
    PeriodicUntilDelete
    KeepsPromise
    KeepsReporting
    DeletesAnswered
CHECK_DEADLOCK FALSE
