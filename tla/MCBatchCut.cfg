CONSTANTS
    Gap = 1
    Limit = 3
    Outages = FALSE
    MaxBlock = 7
    MaxMissed = 0
    MaxRows = 5
SPECIFICATION Spec
PROPERTIES EndsBatch
