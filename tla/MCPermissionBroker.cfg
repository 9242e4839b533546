SPECIFICATION Spec
CONSTANTS
    Requests <- SmallRequests
    Policies <- SmallPolicies
    MaxDenials = 2
    MaxGrants = 1
    None = None
INVARIANTS AnswersAreBacked ExternalIsConsented
PROPERTY RefusalIsKept
