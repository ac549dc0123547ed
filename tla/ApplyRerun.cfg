CONSTANTS
    k1 = k1
    k2 = k2
    k3 = k3
    k4 = k4
    h1 = h1
    h2 = h2
    Absent = Absent
    NotFound = NotFound
    Keys <- MCKeys
    Hashes <- MCHashes
    SkipKeys = {k3, k4}
    FullFiles <- MCFullFiles
    Windows <- MCWindows
    BatchSize = 2
    DeleteChunk = 2
    SkipChunk = 2
    MinRows = 1
    MaxRuns = 1
SPECIFICATION Spec
INVARIANT
    DiffRerunKeepsTable
CHECK_DEADLOCK FALSE
