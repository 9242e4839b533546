SPECIFICATION HostSpec
CONSTANTS
    Conversations = {conv, other}
    Conversation = conv
    Clients = {c1, c2}
    Operations = {o1}
    Grace = 1
    MaxMinted = 2
    MaxNow = 2
    MaxSent = 2
    MayStop = FALSE
    NoLease = NoLease
    None = None
SYMMETRY Symmetry
CHECK_DEADLOCK FALSE
INVARIANTS
    FailClosedFollowsLease
    
 
