CONSTANTS
    s1 = s1
    s2 = s2
    s3 = s3
    Subs <- TwoSubs
    NoSub = NoSub
SPECIFICATION FairSpec
PROPERTIES
    Reported
CHECK_DEADLOCK FALSE
