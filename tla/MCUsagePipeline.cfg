\* Every buffer at its limit, one restart.
SPECIFICATION PipeSpec
CONSTANTS
    e1 = e1
    e2 = e2
    e3 = e3
    e4 = e4
    Event = {e1, e2, e3}
    Unstorable = {}
    MaxUnknown = 1
    DLQCap = 2
    ChanCap = 1
    BatchSize = 2
    MaxCrashes = 1
SYMMETRY Symmetry
INVARIANTS
    PipeTypeOK
    EventsAccounted
    AckedOnce
    ChargedAreStored
PROPERTIES
    KeepsLedger
