CONSTANTS
    r1 = r1
    r2 = r2
    w1 = w1
    w2 = w2
    e1 = e1
    e2 = e2
    m1 = m1
    m2 = m2
    a1 = a1
    a2 = a2
    anna = anna
    bert = bert
    Runs = {r1, r2}
    Workers = {w1, w2}
    Reviewers = {v1}
    Lease = 1
    MaxSource = 2
    Nobody = Nobody
    NoRun = NoRun
    Evidence = {e1, e2}
    NoEvidence = NoEvidence
    Findings = {f1}
    Tasks = {task}
    Assignments = {a1, a2}
    Admins = {anna, bert}
    Forms = {m1, m2}
    MaxRevision = 3
    Unfilled = unfilled
SPECIFICATION FindingsSpec
INVARIANTS
    TableMatchesLastRun
    InboxAccounts
PROPERTIES
    DecisionsLast
    ResolvedByNewerProof
    OwnershipImplemented
SYMMETRY Symmetry
CHECK_DEADLOCK FALSE
