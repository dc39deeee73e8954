CONSTANTS
    Packs <- MCPacks
    Calls <- MCCalls
    MaxCalls = 2
SPECIFICATION FairSpec
INVARIANTS TypeOK PassIsEarned
PROPERTIES RefusedIsOver EvaluationEnds
CHECK_DEADLOCK FALSE
