SPECIFICATION Spec
CONSTANTS
    t1 = t1
    t2 = t2
    none = none
    Managers = {t1, t2}
    None = none
    Savings = 5
    Unit = 2
    Prices = {2, 3, 5}
    PriceChanges <- RisingPrice
    Amounts = {1, 2, 3}
    MaxRounding = 2
INVARIANTS TreasuryTypeOK Backed CostCovered BackedByValue RefusedOnlyForGains YieldStays
CHECK_DEADLOCK FALSE
