SPECIFICATION Spec
CONSTANTS
    Conversations = {conv1, conv2}
    Clients = {c1, c2}
    Grace = 1
    MaxMinted = 3
    MaxNow = 2
    NoLease = NoLease
SYMMETRY Symmetry
INVARIANTS
    TypeOK
    BearersAreCurrent
PROPERTIES
    TakeoverBindsObservedLease
    NoEarlyExpiry
