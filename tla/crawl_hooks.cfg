CONSTANTS
    a = a
    b = b
    c = c
    cFragment = cFragment
    offsite = offsite
    broken = broken
    near = near
    far = far
    Urls <- MCUrls
    Canon <- MCCanon
    Domains = {near, far}
    DomainOf <- MCDomainOf
    AllowedDomains = {near}
    Invalid = {broken}
    Starts <- TwoStarts
    Pages <- HookPages
    ConcurrentRequests = 2
    PerDomain = 1
    MaxBlockedRetries = 1
    Delay = FALSE
    Checkpointing = TRUE
    StreamCapacity = 1
    Absent = Absent
    Torn = Torn
    RobotsDenied = {}
    Blockable = {}
    Faults = {}
    MasksDeadline = FALSE
    RetryHookMayFilter = FALSE
    ItemHook = {"keep", "drop", "fail", "ctx"}
    CtxEnds = {"canceled"}
    SetupFaults = FALSE
    IOFaults = TRUE
    MayCrash = TRUE
    MaxRuns = 2
SPECIFICATION Spec
INVARIANTS LinksFollowed
PROPERTIES CheckpointOnlyForgottenWhenDone InFlightFirst
