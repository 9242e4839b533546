SPECIFICATION Spec
CONSTANTS
    Clients = {c1, c2}
    Operations = {o1, o2}
    CommandCapacity = 2
    EventCapacity = 2
    MayClear = FALSE
    MaxQueued = 1
    None = None
CHECK_DEADLOCK FALSE
PROPERTY GrantsAreCurrent
