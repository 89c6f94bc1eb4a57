CONSTANTS
    NumSteps = 2
    MaxEnrollments = 1
    SendAttempts = 2
    MaxEdits = 1
    MaxFaults = 1
SPECIFICATION FairSpec
CHECK_DEADLOCK FALSE
INVARIANTS TypeOK ActiveIsDriven OneOpenDispatch UncutCompletedHasNothingOpen
PROPERTIES InOrderAndOnce OneStepAfterLeaving PendingIsTakenUp UnstrandedCompletes
