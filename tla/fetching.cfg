CONSTANTS
    Count = 3
    Workers = {w1, w2}
    Fetches = {1, 2, 3}
    Proxies = 2
    pub = pub
    lan = lan
    name = name
    Hosts <- MCHosts
    Private = {lan}
    PrivateNames = {name}
    Plans <- MCPlans
    DefaultRedirects = 2
    DefaultAttempts = 2
    ClientRedirects = 2
SPECIFICATION MCSpec
INVARIANTS BatchSound ResultsHonest RedirectsStayPublic EndedContextStopsRetries RotationEven
PROPERTIES BatchSteps BatchReturns
