SPECIFICATION Spec
CONSTANTS
    None = None
    p1 = p1
    e1 = e1
    e2 = e2
    c1 = c1
    c2 = c2
    t1 = t1
    Plugin = {p1}
    Entity = {e1, e2}
    Config = {c1, c2}
    Declares <- MCDeclares
    Lineup <- MCLineup
    Tag = {t1}
    Group <- MCGroup
    Routes <- MCRoutes
    Cap <- MCCap
    DefaultCap = 1
    MaxUsize = 2
    Mutators = {m1, m2}
    Requests = {r1, r2}
    MaxMutations = 2
SYMMETRY MCSymmetry
INVARIANT OutdatedOnlyByRace
INVARIANT CacheWithinCapacity
CHECK_DEADLOCK FALSE
