SPECIFICATION FairSpec
CONSTANTS
    NbCores = 2
    NbObjects = 2
    PlaceholderSize = 2
    InDone = InDone
    NoTask = NoTask
    Tasks <- MCTasks
    Flows <- MCFlows
    ObjectOf <- MCObjectOf
    Goal <- MCGoal
    Direct <- MCDirect
    Out <- MCOut
    StartupList <- MCStartup
    Priority <- MCPriority
    HighPriority <- MCHigh
INVARIANTS
    NothingLeftBehind
    CountsTasksLeft
    NoBarrierOwed
    ApplicationRunsAlone
PROPERTIES
    ImplementsTaskGraph
    CallsReturn
CHECK_DEADLOCK FALSE
