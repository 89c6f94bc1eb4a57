CONSTANTS
    c1 = c1
    u1 = u1
    Contacts <- OneContact
    MaxEpoch = 0
    MaxFaults = 1
    CanBlock = FALSE
    Users <- OneUser
    StaleUsers <- Nobody
    PrepareAttempts = 2
    BatchSize <- OneAtATime
    Undeliverable <- Nobody
    RedisFailsOpen = FALSE
SPECIFICATION FairSpec
CHECK_DEADLOCK FALSE
PROPERTIES DeletedIsErased DueReachesTheEnd
