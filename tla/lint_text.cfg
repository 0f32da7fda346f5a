SPECIFICATION Spec
CONSTANTS
    Vocabularies <- TheVocabularies
    MaxTokens = 5
    MaxLines = 3
CHECK_DEADLOCK FALSE
INVARIANTS
    CloseFindsTheMatch
    ReverseIsInverse
    TextInsideAgrees
    ElidedIsCode
