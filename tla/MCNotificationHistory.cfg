CONSTANTS
    Notifications = {n1}
    MaxDeliveries = 1
    MaxStage = 1
    MaxEpisode = 1
    Workers = {w1, w2}
    MaxAttempts = 1
    Cap = 1
    Lease = 1
    Nobody = Nobody
SPECIFICATION Spec
PROPERTIES
    SentHistoryImmutable
CHECK_DEADLOCK FALSE
