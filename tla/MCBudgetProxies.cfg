\* Two proxies with caches and loggers of their own, a fault and an edit of the
\* budget; one event is within the tolerance.
SPECIFICATION FairSpec
CONSTANTS
    e1 = e1
    e2 = e2
    e3 = e3
    x1 = x1
    x2 = x2
    daily = daily
    monthly = monthly
    Event = {e1, e2}
    Proxy = {x1, x2}
    Period = {daily}
    MaxDay = 1
    MaxFaults = 1
    MaxEdits = 1
    Amount = {40}
    Cost <- CostsUneven
    Via <- TwoProxies
    Start <- StartDay
    InitBudget <- HardForty
INVARIANTS
    OvercountBounded
PROPERTIES
    CountersConverge
