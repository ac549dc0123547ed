CONSTANTS
    a1 = a1
    a2 = a2
    a3 = a3
    srv = srv
    job = job
    NoHolder = NoHolder
    Attempts = {a1, a3}
    Instances <- ServerAndJob
    InstOf <- ServerAndJobInstOf
    Serves <- ServerAndJobServes
    Skew <- ServerAndJobSkew
    TTL = 2
    MaxHold = 1
    MaxClock = 2
    MaxBatches = 1
    MaxFaults = 1
    MaxCrashes = 1
SPECIFICATION Spec
INVARIANTS
    BatchIsolation
    RestartSettlesDeadRuns
PROPERTIES
    OneWriterAtATime
    SettledRowsChange
CHECK_DEADLOCK FALSE
