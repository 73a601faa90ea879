\* Tiers 1 and 2 of the design document.
SPECIFICATION PipeSpec
CONSTANTS
    e1 = e1
    e2 = e2
    e3 = e3
    e4 = e4
    Event = {e1, e2}
    Unstorable = {}
    MaxUnknown = 0
    DLQCap = 1
    ChanCap = 1
    BatchSize = 2
    MaxCrashes = 0
SYMMETRY Symmetry
PROPERTIES
    FailOpenLosesNothing
