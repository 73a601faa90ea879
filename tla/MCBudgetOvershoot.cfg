\* The bound on overshoot in the design document, without any fault.
SPECIFICATION Spec
CONSTANTS
    e1 = e1
    e2 = e2
    e3 = e3
    x1 = x1
    x2 = x2
    daily = daily
    monthly = monthly
    Event = {e1, e2, e3}
    Proxy = {x1}
    Period = {daily}
    MaxDay = 1
    MaxFaults = 0
    MaxEdits = 0
    Amount = {4}
    Cost <- CostsEven
    Via <- OneProxy
    Start <- StartDay
    InitBudget <- HardFour
PROPERTIES
    OvershootInFlightOnly
