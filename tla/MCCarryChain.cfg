\* Fee of a quarter, the deposit's slice kept, operator addresses registered.
CONSTANTS
    NULL = NULL
    Dust = 1
    MaxBatches = 1
    FeePpm = 1
    Million = 4
    KeepDeposit = TRUE
    OperatorKnown = TRUE
    MinSpan = 2
    MaxCycles = 3
    Windows <- MCWindows
SPECIFICATION Spec
INVARIANTS TypeOK SkimCannotHide OperatorWithinEntitlement
PROPERTIES VerifiedRowsAddUp FlagPersists
CHECK_DEADLOCK FALSE
