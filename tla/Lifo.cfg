SPECIFICATION Spec
CONSTANTS
    Items = {a, b, c}
    Ghost = Ghost
    Threads = {t1, t2, t3}
    Poppers = {t1}
PROPERTIES
    ImplementsAbstractLifo
