SPECIFICATION FairSpec
CONSTANTS
    MaxChildren = 3
    Managed <- ManagedChildren
    Plans = {p1}
    PlanSize = 2
    Clients = {w1}
    MaxDescendants = 2
    MaxFanOut = 2
    MaxConcurrency = 1
    MaxWaiters = 1
    MaxFaults = 1
    MaxCrashes = 1
    None = None
INVARIANTS  PlanAdmittedOnce
PROPERTIES KeepsFates WaitersAreAnswered ShutdownEnds
