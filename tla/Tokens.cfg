CONSTANTS
    t1 = t1
    t2 = t2
    t3 = t3
    r1 = r1
    r2 = r2
    p1 = p1
    p2 = p2
    BootHash = BootHash
    None = None
    Ids = {t1, t2, t3}
    Requests = {r1, r2}
    Instances <- MCInstances
    InstOf <- MCInstOf
    Boots <- MCInstances
    Skew <- MCSkew
    Second = 1
    Half = 4
    Ttls = {1, 5}
    MaxClock = 2
    MaxFaults = 1
SYMMETRY IdSymmetry
SPECIFICATION Spec
INVARIANTS
    TypeOK
    DeadTokenNeverPasses
    OneRowPerHash
    RevokeAnswerHolds
    BootstrapSettles
PROPERTIES
    FirstRevocationStands
CHECK_DEADLOCK FALSE
