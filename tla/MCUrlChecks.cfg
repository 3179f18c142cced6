CONSTANTS
    Fields = {f1}
    Evidence = {u1, u2}
    NoEvidence = none
    Host <- OwnHosts
    Workers = {w1, w2}
    Batch = 1
    Concurrency = 1
    Lease = 1
    MaxFaults = 1
    Nobody = nobody
SPECIFICATION FairSpec
PROPERTIES
    FindingsFollowAnswers
    Observes
CHECK_DEADLOCK FALSE
