CONSTANTS
    Notifications = {n1, n2}
    MaxDeliveries = 2
    MaxStage = 1
    MaxEpisode = 1
    Workers = {w1}
    MaxAttempts = 2
    Cap = 1
    Lease = 1
    Nobody = Nobody
SPECIFICATION SideSpec
SYMMETRY Symmetry
INVARIANTS
    DailyCap
CHECK_DEADLOCK FALSE
