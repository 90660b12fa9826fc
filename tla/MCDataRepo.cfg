SPECIFICATION Spec
CONSTANTS
    LocalTasks <- MCLocal
    Receipts <- MCReceipts
    Keys <- MCKeys
    Params <- MCParams
    KeyOf <- MCKeyOf
    In <- MCIn
    Out <- MCOut
    Carries <- MCCarries
    NoEntry = NoEntry
    Memory = Memory
    Null = Null
INVARIANTS
    RetainedWhileCounting
    CountsExact
    InputsDeposited
    ChunksNotReused
    NothingLeaks
