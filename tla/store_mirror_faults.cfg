CONSTANTS
    NotMeasured = NotMeasured
    NoProc = NoProc
    p1 = p1
    p2 = p2
    Procs = {p1, p2}
    Axes <- MCAxes
    Scores <- MCScores
    Models <- MCModels
    Buckets <- MCBuckets
    Attr <- MCAttr
    Trials <- MarkedTrials
    Faults = {"tsv"}
    InitDb <- MarkedRows
    InitTsv <- MarkedRows
    InitHeader = "old"
    MaxCrashes = 1
    MaxCopies = 3
SPECIFICATION Spec
SYMMETRY Sym
INVARIANTS TypeOK AckedVisible
PROPERTIES ImplementsLedger
