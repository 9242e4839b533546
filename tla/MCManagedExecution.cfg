SPECIFICATION Spec
CONSTANTS
    Clients = {c1}
    Operations = {o1, o2}
    CommandCapacity = 1
    EventCapacity = 1
    MayClear = TRUE
    MaxQueued = 1
    None = None
CHECK_DEADLOCK FALSE
INVARIANTS ApprovalsAreKept ActiveWillFinish PendingWillClear
PROPERTY StopEnds
