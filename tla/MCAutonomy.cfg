SPECIFICATION FairSpec
CONSTANTS
    Jobs = {j1}
    Kinds <- SmallKinds
    QueueLimit = 1
    Hosts = {h1, h2}
    MaxRuns = 2
    None = None
INVARIANT RunsAreAccounted
PROPERTIES NoUnreviewedRetry RevokedForGood StopEndsHosts 
