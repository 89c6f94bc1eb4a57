CONSTANTS
    MaxPages = 2
    MaxFaults = 1
SPECIFICATION FairSpec
CHECK_DEADLOCK FALSE
INVARIANTS TypeOK PaidOrderHoldsItsMoney
PROPERTIES OnlyACancelRefundsTheOrder ClosedOrderKeepsNoMoney OverdueSettles ExtraMoneyGoesBack
