CONSTANTS
    Gap = 1
    Limit = 3
    Outages = TRUE
    MaxBlock = 7
    MaxMissed = 2
    MaxRows = 5
SPECIFICATION Spec
INVARIANTS WindowsAreOwn
PROPERTIES NeverMerges EndsBatchWithinFetch RowsAreReached
