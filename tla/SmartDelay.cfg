CONSTANTS
    Scenarios <- Some
    MaxArms = 2
    Attempts = 2
SPECIFICATION FairSpec
CHECK_DEADLOCK FALSE
INVARIANTS TypeOK RunsOnce CompletedHasRun
PROPERTIES RunsOnTime DueSettles
