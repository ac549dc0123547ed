CONSTANTS
    a1 = a1
    a2 = a2
    a3 = a3
    srv = srv
    job = job
    NoHolder = NoHolder
    Attempts = {a1, a2}
    Instances <- OneServer
    InstOf <- OneServerInstOf
    Serves <- ManualServes
    Skew <- OneServerSkew
    TTL = 1
    MaxHold = 1
    MaxClock = 2
    MaxBatches = 1
    MaxFaults = 0
    MaxCrashes = 0
SPECIFICATION Spec
INVARIANT
    ShutdownSettlesRuns
CHECK_DEADLOCK FALSE
