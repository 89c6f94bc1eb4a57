CONSTANTS
    c1 = c1
    c2 = c2
    Contacts <- TwoContacts
    MaxEpoch = 1
    MaxFaults = 1
    CanBlock = FALSE
    BatchSize <- OneThenTwo
    Undeliverable <- OneOfThem
    RedisFailsOpen = TRUE
SPECIFICATION FairSpec
CHECK_DEADLOCK FALSE
INVARIANTS TypeOK OncePerEpoch FailedMeansAllFailed QuietHandoffLeavesNonePending SettledNoRecipientLost
PROPERTIES EveryRecipientHandedOff
