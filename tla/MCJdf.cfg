SPECIFICATION Spec
CHECK_DEADLOCK FALSE
CONSTANTS
    Null = Null
    Configs <- MCConfigs
    Objects <- MCObjects
    RndA = 13
    RndC = 7
    RndMod = 64
    Tasks <- MCTasks
    Priority <- MCPriority
    Releasers <- MCReleasers
INVARIANTS
    HeadHighest
    ObjectIsExact
    CheckedIsClosed
    ResultsInPlace
    MatrixGenerated
    ComparisonExact
PROPERTIES
    ImplementsDataflow
    NothingLost
    AllTasksRun
