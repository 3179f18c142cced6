CONSTANTS
    MaxRequests = 2
    MaxBatches = 2
    MaxChecks = 2
    Slots = 1
SPECIFICATION FairSqlSpec
INVARIANTS
    CompletedShowsAll
    NoOrphan
PROPERTIES
    BusyEnds
CHECK_DEADLOCK FALSE
