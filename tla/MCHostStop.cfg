SPECIFICATION HostSpec
CONSTANTS
    Conversations = {conv, other}
    Conversation = conv
    Clients = {c1}
    Operations = {o1}
    Grace = 1
    MaxMinted = 2
    MaxNow = 2
    MaxSent = 1
    MayStop = TRUE
    NoLease = NoLease
    None = None
CHECK_DEADLOCK FALSE
PROPERTIES
    CommandsAreAnswered
    ShutdownCompletes
    GraceEnds
