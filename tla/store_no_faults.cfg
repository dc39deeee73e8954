CONSTANTS
    NotMeasured = NotMeasured
    NoProc = NoProc
    p1 = p1
    p2 = p2
    Procs = {p1, p2}
    Axes <- MCAxes
    Scores <- MCScores
    Models <- MCModels
    Buckets <- MCBuckets
    Attr <- MCAttr
    Trials <- SixTrials
    Faults = {}
    InitDb <- KeyedRows
    InitTsv <- KeyedRows
    InitHeader = "current"
    MaxCrashes = 0
    MaxCopies = 3
SPECIFICATION FairSpec
INVARIANT FreshUnlessOwed
PROPERTIES RefreshSettles StatusesConverge
