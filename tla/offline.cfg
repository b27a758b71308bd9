CONSTANTS
    h1 = h1
    h2 = h2
    u1 = u1
    u2 = u2
    u3 = u3
    Handles = {h1, h2}
    Uses = {u1, u2, u3}
    HandleOf <- MCHandleOf
    MayDie = TRUE
    FileHandles = {h1, h2}
    Keys = {k1, k2}
    Fingerprints = {v1, v2}
    NoFingerprint = NoFingerprint
    Half = Half
    Managers = {m1, m2}
    CacheKeys = {q1, q2}
    MaxPuts = 3
\* Opens that were refused leave their uses with nothing to do; a function is given one
\* input and that is all.
CHECK_DEADLOCK FALSE
SPECIFICATION OfflineSpec
INVARIANTS StoreSound UnsupportedKept FileSound RecordsWhole ClearForgets LinksRight ToolsRight
