SPECIFICATION Spec
CONSTANTS
    Worlds <- TheWorlds
    DefaultLineLength = 5
    NeededFor <- TheNeededFor
    Guards <- TheGuards
    Headers <- TheHeaders
    ErrorCategories <- TheCategories
    LegacyCategories = {"readability/streams"}
    DefaultFilters <- TheDefaultFilters
    CSuppressed = {"readability/casting"}
    KernelSuppressed = {"whitespace/tab"}
    NolintComments <- TheNolintComments
    LongNamespace = 3
    NormalTrigger = 2
    TestTrigger = 3
    TestNames = {"TEST"}
    MacroNames = {"M"}
INVARIANTS
    TypeOK
    FiltersRestored
    NearestFilterWins
    ErrorsPrintedExactly
    RunSummaryTrue
    NestingFollowsFirstBranch
    NoFalseDuplicates
    HeaderRecordedOnce
    OverlongFunctionsReported
PROPERTIES
    SectionMonotone
    LintTerminates
