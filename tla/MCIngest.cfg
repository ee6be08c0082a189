\* Pages of two: six transactions, up to two in a block, outrun the head walk's
\* two pages and the drain's one; two faults leave two gaps at once; a stop may
\* forget a stretch, and one run of the tool may find it between two rewards.
CONSTANTS
    NULL = NULL
    PageSize = 2
    HeadPages = 2
    BackfillPages = 1
    HoleBlocks = 1
    ToolRuns = 1
    ToolAlone = TRUE
    KindsAt <- OddRewards
    CrashPoints = {"fetch", "store", "gap", "drain", "loop"}
    MaxBlock = 4
    MaxTxs = 6
    BlockTxs = 2
    MaxFaults = 2
SPECIFICATION Spec
INVARIANTS TypeOK ForgottenOnlyInTear GapsDoNotOverlap
PROPERTIES WatermarkAdvances ToolRepairs EverythingArrives
CHECK_DEADLOCK FALSE
