SPECIFICATION Spec
CONSTANTS
    c1 = c1
    c2 = c2
    f1 = f1
    known = known
    unknown = unknown
    None = None
    Clients = {c1, c2, f1}
    Foreign = {f1}
    Pairs = {known, unknown}
    users = {known}
    MaxRequests = 3
INVARIANTS
    TypeOK
    MessagesAuthorised
    NeverBadRequest
PROPERTIES
    FirstWaitEnds
CHECK_DEADLOCK FALSE
