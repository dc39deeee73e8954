CONSTANTS
    NotMeasured = NotMeasured
    NoConfig = NoConfig
    Axes <- MCAxes
    Scores <- MCScores
    Models = {"m1", "m2"}
    KnobOrder <- ThreeKnobs
    Values = {1, 2}
    ProbeLimit = 1000
    SelectedModels <- TwoModels
    Space <- MCSpace
    Fits <- SmallFit
    HostTight = FALSE
    Measures <- FullOrKilled
    TpsMode = FALSE
    MeasurePpl = FALSE
    Screening = FALSE
    Rescreen = FALSE
    ScreenPoints = 0
    PinChoices <- NoPinning
    MaxRounds = 2
    RestartTries = 2
    InitBaseline <- AllOnes
    MayReset = FALSE
    MayCrash = TRUE
    MaxStarts = 2
SPECIFICATION Spec
INVARIANT InFlightIsVisited
PROPERTY AdoptedIsNotBeaten
CHECK_DEADLOCK FALSE
