SPECIFICATION FairSpec
CONSTANTS
    NbCores = 2
    NbLevels = 2
    QueueSize = 2
    Best = 3
    Null = Null
    CoreObject <- MCCores
    Parent <- MCParent
    Tasks <- MCTasks
    Spawns <- MCSpawns
    Startup <- MCStartup
    Received <- MCReceived
    Rank <- MCRank
INVARIANTS
    KnowsEveryQueue
    PopIsBest
PROPERTIES
    ImplementsTaskGraph
    RoundEnds
