CONSTANTS
    DataTypes = {"int", "string"}
    Throws = Throws
    U8Max = 1
    U16Max = 2
    U32Max = 3
    IsDebug = TRUE
    Variants <- MCVariants
    MaxRows = 5
SPECIFICATION Spec
INVARIANTS TypeOK HoldsAppendedValues DictionaryOK SentinelIsFree BoundsOK
