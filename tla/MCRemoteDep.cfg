SPECIFICATION FairSpec
CONSTANTS
    NbNodes = 2
    NbThreads = 1
    MaxParamCount = 5
    NbConcurrent = 2
    MaxTag = 19
    NoTask = NoTask
    Tasks <- MCTasks
    Rank <- MCRank
    Out <- MCOut
    Received <- MCReceived
INVARIANTS
    ReleasedOnce
    RightData
    FlyingExact
    ServedBeforeOff
    FreedNotUsed
PROPERTIES
    ImplementsTaskGraph
    EveryWaitReturns
CHECK_DEADLOCK FALSE
