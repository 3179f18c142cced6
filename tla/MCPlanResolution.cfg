CONSTANTS
    c1 = c1
    c2 = c2
    t1 = t1
    t2 = t2
    EventTypes = {t1, t2}
    Genres = {c1, c2}
    GenreOf <- GenreTypes
    Sites = {s1, s2}
    SitesWithin = {s1}
    Regions = {r1, r2}
    AreaLevels = {district, municipality}
    AnyLevel = any
    Gone = gone
    MaxWords = 2
    MaxImports = 1
SPECIFICATION ResolutionSpec
INVARIANTS
    FallbackNeverExecutes
CHECK_DEADLOCK FALSE
