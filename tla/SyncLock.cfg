CONSTANTS
    s1 = s1
    s2 = s2
    s3 = s3
    p1 = p1
    p2 = p2
    NoHolder = NoHolder
    Sessions <- MCSessions
    Instances <- MCInstances
    InstOf <- MCInstOf
    Skew <- MCSkew
    TTL = 2
    MaxHold = 4
    MaxClock = 5
SPECIFICATION FairSpec
INVARIANTS
    TypeOK
    ExclusiveWithinLease
PROPERTIES
    AbandonedLockExpires
    HandoverOnlyByOwnerOrExpiry
CHECK_DEADLOCK FALSE
