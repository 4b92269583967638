CONSTANTS
    Callers = {c1, c2, c3}
    PUBLIC_SETTLE_DAILY_CAP = 2
    KvFails = FALSE
    MaxDay = 1
    MaxTaken = 4
SYMMETRY CallersSymmetry
SPECIFICATION BudgetSpec
INVARIANT CapHolds
