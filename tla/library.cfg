CONSTANTS
    page = page
    pageFragment = pageFragment
    other = other
    Urls <- MCUrls
    Canon <- MCCanon
    Requests <- MCRequests
    MaxOrder = 5
    RobotsFiles <- RobotsInputs
    AgentTokens <- MCTokens
    RobotsPaths <- MCPaths
    ConfiguredDelays <- MCDelays
    StaticFetches <- StaticInputs
    BrowserFetches <- BrowserInputs
    RotatedProxy <- Rotated
    ShapedPages <- ShapeInputs
    SimilarPages <- SimilarInputs
    Thresholds <- MCThresholds
    SelectorTexts <- SelectorInputs
    MovedPages <- RelocationInputs
    SavedPrints <- MCSavedPrints
    MinScores <- MCMinScores
    SavedBranches <- MCSavedBranches
    LostBranches <- MCLostBranches
    Savings <- MCSavings
\* A pure function is given one input and that is all.
CHECK_DEADLOCK FALSE
SPECIFICATION MCSpec
INVARIANTS FilteredOnce RobotsRight OptionsRight PagesRight
PROPERTIES ServesInLaneOrder
