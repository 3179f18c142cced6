CONSTANTS
    n1 = n1
    n2 = n2
    h1 = h1
    h2 = h2
    q1 = q1
    q2 = q2
    o1 = o1
    o2 = o2
    e1 = e1
    e2 = e2
    e3 = e3
    v1 = v1
    v2 = v2
    r1 = r1
    r2 = r2
    t1 = t1
    t2 = t2
    c1 = c1
    c2 = c2
    la = la
    lb = lb
    unlisted = unlisted
    Queries = {query}
    Lookups = {lookup1, lookup2}
    Writers = {w1, w2}
    MinSuccesses = 1
    MaxSuccesses = 4
    NoWriter = nowriter
    NoLookup = nolookup
    Owners = {o1, o2}
    Handles = {h1, h2, h3}
    Turns = {q1, q2, q3}
    Capacity = 2
    PerSession = 2
    KeptFor = 1
    LastTick = 2
    NoHandle = nohandle
    Events = {e1, e2, e3}
    Occurrences = {1, 2}
    Venues = {v1, v2}
    AnyVenue = any
    NoOccurrence = nodate
    HappensFor <- OfOneEvent
    Scores = {5, 30, 90}
    MaxEligible = 2
    PageSize = 1
    Floor = 10
    MaxMoves = 1
    Contracts = {"v3", "v6", "v8", "v9", "v12"}
    Entities = {"event", "occurrence", "venue", "municipality"}
    Metrics = {"event_count", "occurrence_count", "venue_count", "distinct_venue", "start_date", "longitude"}
    Dimensions = {"event", "venue", "municipality", "area"}
    Names = {n1, n2}
    NoLimit = unlimited
    Protocols = {"v3", "v10", "v11", "v12", "v13"}
    Remembers = 2
    MaxRequests = 3
    Entries = {1, 2, 3, 4}
    KindOf <- EntryKinds
    TypeOf <- EntryTypes
    Labels = {la, lb}
    Unlisted = unlisted
    Words = {"clear", "vague"}
    Nearness <- NearnessSeen
    Cases <- Reviewed
    ScrollPage = 2
    UpsertBatch = 1
    DeleteBatch = 4
    Limit = 2
    MaxRelabels = 2
    MaxJobs = 1
    EventTypes = {t1, t2}
    Genres = {c1, c2}
    GenreOf <- GenreTypes
    Sites = {s1, s2}
    SitesWithin = {s1}
    Regions = {r1, r2}
    AreaLevels = {district, municipality}
    AnyLevel = any
    Gone = gone
    MaxWords = 3
    MaxImports = 1
SPECIFICATION Spec
INVARIANTS
    NothingDropped
    AnswersHold
    LearnedOnce
    ConversationKept
    ContextFollows
    ReviewedAnswers
    MeansWhatWasSaid
PROPERTIES
CHECK_DEADLOCK FALSE
SYMMETRY Symmetry
