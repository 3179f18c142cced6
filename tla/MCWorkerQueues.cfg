CONSTANTS
    Runs = {r1, r2}
    Workers = {w1, w2}
    Reviewers = {v1}
    Lease = 2
    MaxSource = 2
    Nobody = Nobody
    NoRun = NoRun
    Entities = {e1}
    Geocoders = {g1, g2}
    MaxAddress = 3
    GeocodeLease = 1
    MaxFaults = 3
    NoGeocoder = NoGeocoder
SPECIFICATION QueuesSpec
INVARIANTS
    PersistenceFenced
    LostLeaseIsFinal
    ShownFitsSource
PROPERTIES
    LedgerImplemented
    QueuedRunsEnd
    Settles
CHECK_DEADLOCK FALSE
