CONSTANTS
    Durations = {0, 2}
    MaxCmd = 6
    MaxFailed = 2
SPECIFICATION Spec
INVARIANTS
    CommandsArrive
    RunsEndOnce
PROPERTIES
    KeepsPromise
CHECK_DEADLOCK FALSE
