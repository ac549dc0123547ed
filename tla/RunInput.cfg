CONSTANTS
    envUrl = envUrl
    newUrl = newUrl
    newUrlSp = newUrlSp
    badUrl = badUrl
    filter = filter
    badFilter = badFilter
    Blank = Blank
    Unset = Unset
    Absent = Absent
    Nobody = Nobody
    NoUrl = NoUrl
    r1 = r1
    r2 = r2
    Requests = {r1, r2}
    Values <- MCValues
    Accepted <- MCAccepted
    Trim <- MCTrim
    Default <- MCDefault
    Stored0 <- MCStored0
    Updates <- MCUpdates
    Urls <- MCUrls
    Retries = {0, 1}
    EnvRetry = 1
    Dates <- MCDates
    Lookbacks = {0, 1}
SPECIFICATION MCSpec
INVARIANTS
    TypeOK
    RunUsesAnsweredSettings
    DirtyRowsNeverReachRun
    FetchKeepsToPolicy
    MonthsAreConsecutive
PROPERTIES
    AnswerShowsOwnWrites
    RunEnds
