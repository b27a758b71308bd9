CONSTANTS
    a = a
    b = b
    c = c
    cFragment = cFragment
    offsite = offsite
    broken = broken
    near = near
    far = far
    Urls <- MCUrls
    Canon <- MCCanon
    Domains = {near, far}
    DomainOf <- MCDomainOf
    AllowedDomains = {}
    Invalid = {}
    Starts <- OneStart
    Pages <- PauseItemPages
    ConcurrentRequests = 2
    PerDomain = 0
    MaxBlockedRetries = 1
    Delay = FALSE
    Checkpointing = TRUE
    StreamCapacity = 1
    Absent = Absent
    Torn = Torn
    RobotsDenied = {}
    Blockable = {b}
    Faults = {"other", "canceled"}
    MasksDeadline = FALSE
    RetryHookMayFilter = TRUE
    ItemHook = {"keep"}
    CtxEnds = {"canceled", "deadline"}
    SetupFaults = TRUE
    IOFaults = TRUE
    MayCrash = TRUE
    MaxRuns = 3
SPECIFICATION JudgedFairSpec
INVARIANTS TypeOK NoRequestLost CheckpointComplete NoReplay WorkAccounted PauseKeepsInterrupted
PROPERTIES ImplementsFrontier EndedContextEndsRun
