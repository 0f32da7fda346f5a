CONSTANTS
    DataTypes = {"int", "string"}
    Throws = Throws
    U8Max = 1
    U16Max = 2
    U32Max = 5
    IsDebug = TRUE
    ChunkSize = 2
    TypeStrings = {"int", "string"}
    Rows <- SomeRows
    EmplacedChunks = {}
    MaxColumns = 2
    MaxChunks = 2
    MaxChunkRows = 3
    Schema <- TwoColumns
    NumOps = 2
    Predicates <- TwoScans
    ReferenceTables <- SomeReferenceTables
SPECIFICATION ScanSpec
INVARIANTS ScanSelects OutputShape
PROPERTIES ReferencesStable ScanTerminates
