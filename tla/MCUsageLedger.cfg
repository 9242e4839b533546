SPECIFICATION Spec
CONSTANTS
    Operations = {o1, o2}
    Roots = {r1}
    Occurrences = {b1}
    Policies <- SmallPolicies
    Reserves = {2}
    Reports = {1, 3}
    HardDaily = 4
    HardJob = 3
    MaxRequests = 3
    MaxDay = 1
    MaxRestores = 1
    Unknown = Unknown
    None = None
SYMMETRY Symmetry
INVARIANTS CountersMatchLedger BackgroundCeilings 
PROPERTY UsageIsNotLost
