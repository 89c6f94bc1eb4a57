CONSTANTS
    c1 = c1
    u1 = u1
    Contacts <- OneContact
    MaxEpoch = 1
    MaxFaults = 1
    CanBlock = FALSE
    Users <- OneUser
    StaleUsers <- Nobody
    PrepareAttempts = 2
    BatchSize <- OneAtATime
    Undeliverable <- Nobody
    RedisFailsOpen = FALSE
SPECIFICATION Spec
VIEW WhatCounts
CHECK_DEADLOCK FALSE
INVARIANTS SendsOnlyToTheAudience
PROPERTIES ImplementsLifecycle
