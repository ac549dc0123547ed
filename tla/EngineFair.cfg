CONSTANTS
    a1 = a1
    a2 = a2
    a3 = a3
    srv = srv
    job = job
    NoHolder = NoHolder
    Attempts = {a1, a2}
    Instances <- OneServer
    InstOf <- OneServerInstOf
    Serves <- OneServerServes
    Skew <- OneServerSkew
    TTL = 1
    MaxHold = 1
    MaxClock = 0
    MaxBatches = 1
    MaxFaults = 0
    MaxCrashes = 0
SPECIFICATION FairSpec
PROPERTIES
    CancelledRunSettles
    ShutdownEnds
CHECK_DEADLOCK FALSE
