CONSTANTS
    NotMeasured = NotMeasured
    Axes <- MCAxes
    Scores <- MCScores
    Trials <- MCTrials
    Models <- MCModels
    Buckets <- MCBuckets
    Attr <- MCAttr
    InitRows <- MCInitRows
    MaxRows = 4
SPECIFICATION Spec
CONSTRAINT Bounded
INVARIANTS TypeOK FrontIsParetoSet PlanAgreesWithRecompute
