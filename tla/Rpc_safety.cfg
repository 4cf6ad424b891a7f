SPECIFICATION RpcSpec
CONSTANTS
    None = None
    Callers = {c1, c2}
    MaxCalls = 2
INVARIANTS
    RpcTypeOK
    PendingIsExact
    OwnAnswer
    SingleChild
    ExitReachesAll
    StartersFollowHandshake
    LateStarts
PROPERTIES
    RequestsEnd
CHECK_DEADLOCK FALSE
