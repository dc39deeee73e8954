CONSTANTS
    NotMeasured = NotMeasured
    NoProc = NoProc
    p1 = p1
    p2 = p2
    Procs = {p1, p2}
    Axes <- MCAxes
    Scores <- MCScores
    Models <- MCModels
    Buckets <- MCBuckets
    Attr <- MCAttr
    Trials <- OneNewTrial
    Faults = {"db", "tsv"}
    InitDb <- NoRows
    InitTsv <- KeyedRows
    InitHeader = "old"
    MaxCrashes = 1
    MaxCopies = 3
SPECIFICATION FairSpec
INVARIANT OneRowPerTrial
PROPERTIES CallsReturn
