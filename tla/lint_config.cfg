SPECIFICATION Spec
CONSTANTS
    Worlds <- OnlyConfigWorlds
    DefaultLineLength = 5
    NeededFor <- TheNeededFor
    Guards <- TheGuards
    Headers <- TheHeaders
    ErrorCategories <- TheCategories
    LegacyCategories = {"readability/streams"}
    DefaultFilters <- TheDefaultFilters
    CSuppressed = {"readability/casting"}
    KernelSuppressed = {"whitespace/tab"}
    NolintComments <- TheNolintComments
    LongNamespace = 3
    NormalTrigger = 2
    TestTrigger = 3
    TestNames = {"TEST"}
    MacroNames = {"M"}
INVARIANT
    NestedConfigOverrides
