SPECIFICATION Spec
CONSTANTS
    Reachable = {TRUE, FALSE}
INVARIANTS
    AssociationIsSound
PROPERTIES
    StopCompletes
CHECK_DEADLOCK FALSE
