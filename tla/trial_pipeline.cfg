CONSTANTS
    Trials <- MCTrials
    Floor <- MCFloor
    Rates <- MCRates
SPECIFICATION Spec
INVARIANTS TypeOK AcceptedFits ScoreIsEarned KillWins OkIsComplete
CHECK_DEADLOCK FALSE
