SPECIFICATION Spec
CONSTANTS
    Items = {a, b, c}
    Ghost = Ghost
    Threads = {t1, t2}
    Poppers = {t1, t2}
INVARIANT
    NoneTwice
