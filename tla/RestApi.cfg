CONSTANTS
    c1 = c1
    c2 = c2
    u1 = u1
    Databases = {"postgres"}
    Configs <- MCConfigs
    Clients = {c1, c2, c3, c4}
    c3 = c3
    c4 = c4
    Readers <- MCReaders
    Users = {u1}
    Rows <- MCRows
    Level <- MCLevel
    Names <- MCNames
    DefaultLimit = 1
    MaxLimit = 2
    Requests <- MCRequests
    Views <- MCViews
    None = None
    InitialTable <- MCInitialTable
    PoolSize = 1
    MaxWrites = 1
SPECIFICATION FairSpec
INVARIANTS TypeOK OneConfig PagesComplete
PROPERTIES PagesAnswered
CHECK_DEADLOCK FALSE
