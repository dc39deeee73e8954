CONSTANTS
    NotMeasured = NotMeasured
    NoProc = NoProc
    p1 = p1
    p2 = p2
    Procs = {p1}
    Axes <- MCAxes
    Scores <- MCScores
    Models <- MCModels
    Buckets <- MCBuckets
    Attr <- MCAttr
    Trials <- ThreeTrials
    Faults = {}
    InitDb <- NoRows
    InitTsv <- KeyedRows
    InitHeader = "current"
    MaxCrashes = 0
    MaxCopies = 3
SPECIFICATION Spec
INVARIANT AckedStored
