SPECIFICATION FairSpec
CONSTANTS
    Threads = {t1, t2, t3}
    Count = 3
    NbGenerations = 2
    Rounds = 3
    NoThread = NoThread
INVARIANTS
    CurcountCountsWaiting
PROPERTIES
    ImplementsAbstractBarrier
    AllRoundsComplete
