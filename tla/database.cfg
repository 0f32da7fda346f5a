\* Two threads print and compress tables that come and go.
CONSTANTS
    t1 = t1
    t2 = t2
    n1 = n1
    Tables = {t1, t2}
    Names = {n1}
    Absent = Absent
    Threads = {p, q}
    table_name <- MCTableName
    Contents <- MCContents
    ChunkSize = 2
    ScopeThreads = {p}

SPECIFICATION Spec
INVARIANT TypeOK
INVARIANT OnlyCompressionFrees
INVARIANT NullOnlyBeforeInput
INVARIANT DisablerWorksAlone
PROPERTY SilentInScope
PROPERTY PrintEnds
CHECK_DEADLOCK FALSE
