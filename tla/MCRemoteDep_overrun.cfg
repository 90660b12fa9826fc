SPECIFICATION Spec
CONSTANTS
    NbNodes = 2
    NbThreads = 1
    MaxParamCount = 5
    NbConcurrent = 2
    MaxTag = 14
    NoTask = NoTask
    Tasks <- BackTasks
    Rank <- BackRank
    Out <- BackOut
    Received <- BackReceived
INVARIANT RankInRange
CHECK_DEADLOCK FALSE
