CONSTANTS
    NULL = NULL
    A = A
    B = B
    C = C
    Addrs = {A, B}
    Retention = 1
    ThinEvery = 2
    Hour = 2
    RecordMisses = TRUE
    PoolMoves = TRUE
    MaxPolls = 4
    MaxChanges = 2
    MaxFaults = 1
    Start = 2
    Window = 2
    MaxRestarts = 1
SPECIFICATION LadderSpec
SYMMETRY Symmetric
INVARIANTS CompletePollSettles WeighedWereStaked UndisturbedIsComplete
PROPERTIES RowsTellTruth ThinningKeepsHours
CHECK_DEADLOCK FALSE
