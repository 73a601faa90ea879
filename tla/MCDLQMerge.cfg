\* What the comment on the merge says, at the queue's limit.
SPECIFICATION Spec
CONSTANTS
    e1 = e1
    e2 = e2
    e3 = e3
    e4 = e4
    e5 = e5
    Event = {e1, e2, e3, e4}
    Unstorable = {}
    MaxUnknown = 0
    DLQCap = 2
PROPERTIES
    ArrivalsSurviveMerge
