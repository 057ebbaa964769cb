SPECIFICATION GearSpec
CONSTANTS
    c1 = c1
    c2 = c2
    Callers <- TwoCallers
    Near = 2
    Capacity = 1
    Threshold = 2
    Recovery = 2
INVARIANTS QuotaHolds
PROPERTIES ServiceIsUsedAgain
