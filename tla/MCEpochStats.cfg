CONSTANTS
    NULL = NULL
    EpochBlocks = 4
    BatchBlocks = 2
    MaxBatches = 2
    Lookback = 1
    FirstHead = 6
    MaxHead = 11
    MaxFaults = 1
SPECIFICATION Spec
INVARIANTS CountsAreExact
PROPERTIES ClosedEpochsAreFinished
