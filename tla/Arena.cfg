SPECIFICATION Spec
CONSTANTS
    Threads = {t1, t2, t3}
    Chunks = {c1, c2, c3, c4, c5}
    Unlimited = 99
    MaxUsed = 2
    MaxReleased = 1
    MaxRefs = 2
    NoChunk = NoChunk
INVARIANTS
    CountersExact
    OutsideWithinLimit
    OnePlace
