CONSTANTS
    s1 = s1
    s2 = s2
    s3 = s3
    Subs <- ThreeSubs
    NoSub = NoSub
SPECIFICATION FairSpec
INVARIANTS
    TypeOK
    Routed
PROPERTIES
    Delivered
    QuietStop
CHECK_DEADLOCK FALSE
