\* One fault and one change of an open window's data, anywhere in up to three closes.
CONSTANTS
    NULL = NULL
    Contract = Contract
    NoAddr = NoAddr
    A = A
    B = B
    X = X
    Stakers = {A, B, X}
    OperatorAddrs = {}
    OperatorKnown = FALSE
    Dust = 1
    MaxBatches = 1
    FeePpm = 0
    Million = 20
    KeepDeposit = FALSE
    MinSpan = 2
    MinShare = 3
    DustTolerance = 2
    SharePpm = 1
    ShareFloor = 1
    PreciseShare = 10
    MaxClose = 2
    Pool <- MCPool
    BatchBound = 3
    MaxFaults = 1
    MaxRevisions = 1
SPECIFICATION CarrySpec
INVARIANTS TypeOK WindowsTile LedgerBacked LedgerComplete RowsMatchVerdict
    SkippedCreditsNothing
PROPERTIES VerdictsAreFinal CreditsStay BacklogDrains ImplementsCarryChain
