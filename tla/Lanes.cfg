\* Two lanes, two requests, two histories, one client id, both kinds of limit.
SPECIFICATION Spec
CONSTANTS
    r1 = r1
    r2 = r2
    a = a
    b = b
    k = k
    Requests = {r1, r2}
    Histories = {a, b}
    Keys = {k}
    Lanes = {1, 2}
    MaxEntries = 3
    Limit = 1
    TotalLimit = 3
    Budget = 2
    DiskModes = {"total"}
    MaxArrivals = 4
    MaxFaults = 1
    Modes = {"inactive", "total"}
    NoRows = NoRows
    NoKey = NoKey
INVARIANTS
    OwnersExact
    RowsBacked
PROPERTIES
    QuotaAfterFinish
SYMMETRY Symmetry
VIEW View
CHECK_DEADLOCK FALSE
