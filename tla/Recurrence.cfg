CONSTANTS
    Horizon = 4
    Rules <- ThreeRules
    MaxLag = 1
    MaxFaults = 1
SPECIFICATION FairSpec
CHECK_DEADLOCK FALSE
INVARIANTS RunsMatchLedger ArmedWhileRecurring DueSlotsAccounted WithinTheLimit
PROPERTIES OnlyTheLatestIsSent DueSlotSettles ImplementsLedger
