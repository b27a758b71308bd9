CONSTANTS
    a = a
    b = b
    c = c
    cFragment = cFragment
    offsite = offsite
    broken = broken
    near = near
    far = far
    Urls <- MCUrls
    Canon <- MCCanon
    Domains = {near, far}
    DomainOf <- MCDomainOf
    AllowedDomains = {}
    Invalid = {}
    Starts <- OneStart
    Pages <- PausePages
    ConcurrentRequests = 2
    PerDomain = 0
    MaxBlockedRetries = 1
    Delay = FALSE
    Checkpointing = TRUE
    StreamCapacity = 0
    Absent = Absent
    Torn = Torn
    RobotsDenied = {}
    Blockable = {b}
    Faults = {}
    MasksDeadline = TRUE
    RetryHookMayFilter = FALSE
    ItemHook = {}
    CtxEnds = {"deadline"}
    SetupFaults = FALSE
    IOFaults = FALSE
    MayCrash = FALSE
    MaxRuns = 3
SPECIFICATION Spec
INVARIANTS PauseKeepsInterrupted
