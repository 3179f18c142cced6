CONSTANTS
    d1 = d1
    d2 = d2
    x1 = x1
    x2 = x2
    k1 = k1
    k2 = k2
    g1 = g1
    g2 = g2
    i1 = i1
    i2 = i2
    o1 = o1
    o2 = o2
    v1 = v1
    v2 = v2
    q1 = q1
    q2 = q2
    run1 = run1
    run2 = run2
    c1 = c1
    c2 = c2
    backend = backend
    frontend = frontend
    lxd = lxd
    local = local
    Runs = {run1, run2}
    Approved = {app}
    Others = {guest}
    Password <- TwoPasswords
    MaxDrift = 1
    MaxCuts = 1
    PUBLIC = public
    READER = reader
    CONNECT = connect
    NoRun = norun
    Controllers = {c1, c2}
    MayBootstrap = {c1, c2}
    MayUpgrade = {c1, c2}
    MaxChanges = 1
    MaxLosses = 1
    NoController = nobody
    Apps = {backend, frontend}
    TIMER = timer
    PROXY = proxy
    Releases = {r1, r2}
    LEGACY = legacy
    MaxAttempts = 2
    MaxBreaks = 1
    MaxDown = 1
    MaxHands = 1
    Revisions = {v1, v2}
    APPROVALS = approvals
    Inventories = {lxd, local}
    Operators = {o1, o2}
    MaxEdited = 1
    NoOperator = nooperator
    NoCommit = nocommit
    p1 = p1
    p2 = p2
    r1 = r1
    r2 = r2
    Tokens = {t1}
    Logins = {l1}
    Passwords = {p1, p2}
    Lifetime = 3
    Idle = 2
    Heartbeat = 1
    Retention = 1
    MaxTime = 4
    MaxVersion = 3
    NoToken = none
    Ids = {1, 2, 3}
    PageLength = 1
    LastHour = 3
    MaxTouches = 1
    Requests = {q1, q2}
    Documents = {d1, d2}
    Texts = {x1, x2}
    Batch = 1
    Stamps = {s1, s2}
    Encoders = {enc1, enc2}
    MaxEdits = 3
    Relations = {1, 2, 3}
    Land = {g1, g2}
    Keys = {k1, k2}
    NoKey = nokey
    Dates = {1, 2}
    Uncounted = uncounted
    Importers = {i1, i2}
SPECIFICATION AdministrationSpec
INVARIANTS
    KeptAlive
    UnchangedOnce
    DoneBoundaryHolds
    CreateIsTemporary
    EndsWhole
    MaintenanceCovers
    PinsAgree
    IndexMirrors
    AreasDisjoint
PROPERTIES
    AcceptedIsCurrent
    DeadStays
    StaysWhole
    PopulationFits
VIEW View
SYMMETRY Symmetry
CHECK_DEADLOCK FALSE
