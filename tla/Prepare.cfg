CONSTANTS
    c1 = c1
    c2 = c2
    u1 = u1
    u2 = u2
    Contacts <- TwoContacts
    MaxEpoch = 1
    MaxFaults = 2
    CanBlock = TRUE
    Users <- OneUser
    StaleUsers <- NoUsers
    PrepareAttempts = 2
SPECIFICATION FairSpec
CHECK_DEADLOCK FALSE
INVARIANTS TypeOK SendsToTheAudience StaleRowsHaveACleanup
PROPERTIES DueIsPrepared
