CONSTANTS
    f1 = f1
    f2 = f2
    f3 = f3
    Fetches = {f1, f2, f3}
    MaxPages = 2
    EngineMayFail = FALSE
    ContextsMayEnd = TRUE
    MayClose = FALSE
    NoPage = NoPage
SPECIFICATION FairSpec
PROPERTIES WaitersServed
