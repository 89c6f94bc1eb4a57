CONSTANTS
    NumSteps = 2
    MaxEnrollments = 1
    SendAttempts = 2
    MaxEdits = 1
    MaxFaults = 0
SPECIFICATION Spec
CHECK_DEADLOCK FALSE
INVARIANTS CompletedHasNothingOpen
