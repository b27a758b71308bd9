CONSTANTS
    f1 = f1
    f2 = f2
    f3 = f3
    Fetches = {f1, f2, f3}
    MaxPages = 2
    EngineMayFail = TRUE
    ContextsMayEnd = TRUE
    MayClose = TRUE
    NoPage = NoPage
    c1 = c1
    c2 = c2
    c3 = c3
    Calls = {c1, c2, c3}
    shared = shared
    GivenIds <- MCGivenIds
    NoSession = NoSession
    i1 = i1
    i2 = i2
    SessionIds = {i1, i2}
    t1 = t1
    t2 = t2
    t3 = t3
    Tasks = {t1, t2, t3}
    Prefetching = {t1}
    SidOf <- MCSidOf
    OriginOf <- MCOriginOf
    Documents = {d0, d1, d2}
    Empty = d0
    NoDocument = NoDocument
    DefaultSid = DefaultSid
    Nobody = Nobody
    Run = Run
    MaxRuns = 2
SPECIFICATION MCSpec
INVARIANTS PoolSound RegistrySound SessionsHeldOpen OneDocumentPerOrigin
PROPERTIES ImplementsLimiter PoolServes EntriesNotReplaced
