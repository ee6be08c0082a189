CONSTANTS
    NULL = NULL
    PageSize = 1
    HeadPages = 2
    BackfillPages = 1
    HoleBlocks = 1
    ToolRuns = 0
    ToolAlone = TRUE
    KindsAt <- AnyKind
    CrashPoints = {"gap"}
    MaxBlock = 4
    MaxTxs = 4
    BlockTxs = 1
    MaxFaults = 1
SPECIFICATION Spec
INVARIANTS NothingForgotten
CHECK_DEADLOCK FALSE
