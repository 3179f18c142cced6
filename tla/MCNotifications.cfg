CONSTANTS
    Notifications = {n1, n2}
    MaxDeliveries = 2
    MaxStage = 2
    MaxEpisode = 2
    Workers = {w1, w2}
    MaxAttempts = 2
    Cap = 1
    Lease = 1
    Nobody = Nobody
SPECIFICATION SideSpec
VIEW View
SYMMETRY Symmetry
INVARIANTS
    OneDelivery
    MailsEscalate
    CapWhileLeasesHold
CHECK_DEADLOCK FALSE
