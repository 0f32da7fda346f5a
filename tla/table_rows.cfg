CONSTANTS
    DataTypes = {"int", "string"}
    Throws = Throws
    U8Max = 1
    U16Max = 2
    U32Max = 5
    IsDebug = TRUE
    ChunkSize = 2
    TypeStrings = {"int", "string"}
    Rows <- CastableRows
    EmplacedChunks <- SomeChunks
    MaxColumns = 2
    MaxChunks = 3
    MaxChunkRows = 3
SPECIFICATION SchemaSpec
PROPERTY ImplementsRowStore
