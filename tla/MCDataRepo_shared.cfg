SPECIFICATION Spec
CONSTANTS
    LocalTasks <- MCLocal
    Receipts <- MCReceipts
    Keys <- MCKeys
    Params <- MCParams
    KeyOf <- MCKeyOf
    In <- SharedIn
    Out <- SharedOut
    Carries <- SharedCarries
    NoEntry = NoEntry
    Memory = Memory
    Null = Null
INVARIANT
    ChunksNotReused
