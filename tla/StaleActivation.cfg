CONSTANTS
    c1 = c1
    c2 = c2
    u1 = u1
    u2 = u2
    Contacts <- TwoContacts
    MaxEpoch = 1
    MaxFaults = 0
    CanBlock = FALSE
    Users <- OneUser
    StaleUsers <- OneUser
    PrepareAttempts = 2
SPECIFICATION Spec
SYMMETRY Symmetric
CHECK_DEADLOCK FALSE
INVARIANTS SendsToTheAudience
