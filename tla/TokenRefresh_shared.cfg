SPECIFICATION FairSpec
CONSTANTS
    app1 = app1
    ext1 = ext1
    r1 = r1
    r2 = r2
    r3 = r3
    Process = {app1, ext1}
    Request = {r1, r2, r3}
    ProcessOf <- Shared
    NoRequest = NoRequest
    Careful = TRUE
    MaxAged = 2
    MaxFaults = 1
CHECK_DEADLOCK FALSE
INVARIANTS
    TypeOK
    SavedBeforeUsed
    GroupMatched
PROPERTIES
    OneRefresh
    AllEnd
