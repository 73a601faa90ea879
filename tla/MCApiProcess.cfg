\* Two addresses and two requests at a time, so few ticks to the interval that a
\* sweep after one interval instead of two would evict limiters that are not full;
\* two months, the second a day shorter, and two faults.
SPECIFICATION Spec
CONSTANTS
    i1 = i1
    i2 = i2
    r1 = r1
    r2 = r2
    l1 = l1
    l2 = l2
    Ip = {i1, i2}
    NoIp = NoIp
    Req = {r1, r2}
    Lim = {l1, l2}
    NoLim = NoLim
    Burst = 2
    Refill = 1
    Cleanup = 2
    MaxStall = 2
    MaxMonth = 2
    Length <- ShortSecond
    MaxFaults = 2
SYMMETRY Symmetry
INVARIANTS
    TypeOK
    RateHolds
    RefusedAtLimitOnly
    MadeInTime
PROPERTY
    KeepsBuckets
