CONSTANTS
    NULL = NULL
    A = A
    B = B
    C = C
    Addrs = {A, B}
    Retention = 0
    ThinEvery = 1
    Hour = 1
    RecordMisses = FALSE
    PoolMoves = FALSE
    MaxPolls = 3
    MaxChanges = 0
    MaxFaults = 1
    Start = 2
    Window = 2
    MaxRestarts = 0
SPECIFICATION LadderSpec
SYMMETRY Symmetric
INVARIANTS AbsentWasNotStaked
CHECK_DEADLOCK FALSE
