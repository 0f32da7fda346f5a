\* Disablers of two threads that overlap.
CONSTANTS
    t1 = t1
    t2 = t2
    n1 = n1
    Tables = {t1, t2}
    Names = {n1}
    Absent = Absent
    Threads = {p, q}
    table_name <- MCTableName
    Contents <- MCContents
    ChunkSize = 2
    ScopeThreads = {p}

SPECIFICATION Spec
INVARIANT WarningsEnabledAgain
CHECK_DEADLOCK FALSE
