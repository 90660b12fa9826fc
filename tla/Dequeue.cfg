SPECIFICATION FairSpec
CONSTANTS
    Items = {a, b, c}
    Ghost = Ghost
    Threads = {t1, t2}
    Nobody = Nobody
PROPERTIES
    ImplementsAbstractDequeue
    PushReturns
