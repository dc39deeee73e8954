CONSTANTS
    NotMeasured = NotMeasured
    NoConfig = NoConfig
    Axes <- MCAxes
    Scores <- MCScores
    Models = {"m1"}
    KnobOrder <- TwoKnobs
    Values = {1, 2, 3}
    ProbeLimit = 2
    SelectedModels <- OneModel
    Space <- MCSpace
    Fits <- SmallFit
    HostTight = TRUE
    Measures <- SpeedOrFail
    TpsMode = TRUE
    MeasurePpl = TRUE
    Screening = TRUE
    Rescreen = FALSE
    ScreenPoints = 1
    PinChoices <- SomePins
    MaxRounds = 0
    RestartTries = 2
    InitBaseline <- OffSpace
    MayReset = TRUE
    MayCrash = TRUE
    MaxStarts = 3
SPECIFICATION FairSpec
INVARIANTS TypeOK PublishedIsLogged StopsSoon
PROPERTIES NeverRunAgain CrashRecorded BaselineFits NoTrialForgotten SearchEnds
CHECK_DEADLOCK FALSE
