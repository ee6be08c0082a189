\* A burst completes between two attempts at one window.
CONSTANTS
    NULL = NULL
    Contract = Contract
    NoAddr = NoAddr
    A = A
    B = B
    X = X
    Stakers = {A, B, X}
    OperatorAddrs = {}
    OperatorKnown = FALSE
    Dust = 1
    MaxBatches = 1
    FeePpm = 0
    Million = 20
    KeepDeposit = FALSE
    MinSpan = 2
    MinShare = 3
    DustTolerance = 2
    SharePpm = 1
    ShareFloor = 1
    PreciseShare = 10
    MaxClose = 2
    Pool <- MCPoolBurst
    BatchBound = 2
    MaxFaults = 1
    MaxRevisions = 1
SPECIFICATION Spec
INVARIANT VerifiedMeansEveryLineOk
