\* Two requests around a limit of two events, with a midnight, a fault and an
\* edit of the budget.
SPECIFICATION Spec
CONSTANTS
    e1 = e1
    e2 = e2
    e3 = e3
    x1 = x1
    x2 = x2
    daily = daily
    monthly = monthly
    Event = {e1, e2}
    Proxy = {x1}
    Period = {daily}
    MaxDay = 2
    MaxFaults = 1
    MaxEdits = 1
    Amount = {8}
    Cost <- CostsEven
    Via <- OneProxy
    Start <- StartDay
    InitBudget <- HardEight
SYMMETRY SymmetryOne
INVARIANTS
    TypeOK
    OvercountBounded
    CountersExpire
PROPERTIES
    RefusedNearLimitOnly
    CurrentKept
