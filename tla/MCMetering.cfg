\* One lookup at a time, two prices, one change, one failure.
SPECIFICATION Spec
CONSTANTS
    Count = {0, 1}
    MaxLines = 2
    p1 = p1
    p2 = p2
    NoPrice = NoPrice
    Price = {p1, p2}
    r1 = r1
    r2 = r2
    Req = {r1}
    TTL = 1
    Cycle = 2
    MaxDelay = 1
    MaxSync = 0
    MaxChanges = 1
    MaxFaults = 1
SYMMETRY Symmetry
INVARIANTS
    TypeOK
    UsageAsTold
    PriceInForce
    TwoCycles
