\* Every payout mode, with and without election weights; one operator wallet;
\* shares of 10 and more are measured precisely.
CONSTANTS
    NULL = NULL
    Contract = Contract
    NoAddr = NoAddr
    A = A
    B = B
    C = C
    E = E
    X = X
    OperatorAddrs = {O}
    OperatorKnown = TRUE
    Dust = 1
    MaxBatches = 1
    FeePpm = 0
    Million = 20
    KeepDeposit = FALSE
    MinSpan = 2
    MinShare = 3
    DustTolerance = 2
    SharePpm = 1
    ShareFloor = 1
    PreciseShare = 10
    Windows <- MCWindows
SPECIFICATION Spec
INVARIANTS HonestPayoutOk AcceptedIsFair EveryLunaTraced
    NamedPayoutsNeverDrift OneShortedIsFlagged StrayIsVisible
CHECK_DEADLOCK FALSE
