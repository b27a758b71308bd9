CONSTANTS
    a = a
    b = b
    c = c
    cFragment = cFragment
    offsite = offsite
    broken = broken
    near = near
    far = far
    Urls <- MCUrls
    Canon <- MCCanon
    Domains = {near, far}
    DomainOf <- MCDomainOf
    AllowedDomains = {}
    Invalid = {broken}
    Starts <- ManyStarts
    Pages <- LimitPages
    ConcurrentRequests = 2
    PerDomain = 1
    MaxBlockedRetries = 1
    Delay = TRUE
    Checkpointing = TRUE
    StreamCapacity = 1
    Absent = Absent
    Torn = Torn
    RobotsDenied = {c}
    Blockable = {b}
    Faults = {"other"}
    MasksDeadline = FALSE
    RetryHookMayFilter = FALSE
    ItemHook = {"keep", "drop", "fail"}
    CtxEnds = {"canceled", "deadline"}
    SetupFaults = TRUE
    IOFaults = TRUE
    MayCrash = FALSE
    MaxRuns = 1
SPECIFICATION AttendedSpec
INVARIANTS TasksBounded DomainsBounded
PROPERTIES RunEnds
