CONSTANTS
    Notifications = {n1}
    MaxDeliveries = 2
    MaxStage = 2
    MaxEpisode = 2
    Workers = {w1}
    MaxAttempts = 2
    Cap = 1
    Lease = 1
    Nobody = Nobody
SPECIFICATION FairSpec
PROPERTIES
    OutstandingSettles
CHECK_DEADLOCK FALSE
