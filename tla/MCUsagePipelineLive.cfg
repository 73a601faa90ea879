\* Events settle once Postgres stays up.
SPECIFICATION FairSpec
CONSTANTS
    e1 = e1
    e2 = e2
    e3 = e3
    e4 = e4
    Event = {e1, e2, e3}
    Unstorable = {e3}
    MaxUnknown = 0
    DLQCap = 2
    ChanCap = 1
    BatchSize = 2
    MaxCrashes = 0
PROPERTIES
    EventuallySettled
