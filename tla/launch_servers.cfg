CONSTANTS
    Launches = {1, 2, 3}
    Nobody = 0
    Plans <- MCPlans
    Candidates <- MCCandidates
    HarnessPorts <- MCHarnessPorts
SPECIFICATION FairSpec
INVARIANTS TypeOK OneFullServer AliasTracked
PROPERTIES SiblingsSpared LaunchesSettle
CHECK_DEADLOCK FALSE
