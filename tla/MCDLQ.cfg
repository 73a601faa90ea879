\* The queue at its limit: five events for two places.
SPECIFICATION Spec
CONSTANTS
    e1 = e1
    e2 = e2
    e3 = e3
    e4 = e4
    e5 = e5
    Event = {e1, e2, e3, e4, e5}
    Unstorable = {e5}
    MaxUnknown = 1
    DLQCap = 2
SYMMETRY Symmetry
INVARIANTS
    TypeOK
    CapHolds
    QueueIsSuffix
    OldestFirst
    AckedOnce
    LossBoundedByDrops
    BackoffOnlyWithWork
PROPERTIES
    MergeKeepsArrivals
