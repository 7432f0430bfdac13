SPECIFICATION Spec
CONSTANTS
    c1 = c1
    c2 = c2
    f1 = f1
    known = known
    unknown = unknown
    None = None
    Clients = {c1}
    Foreign = {}
    Pairs = {known, unknown}
    users = {known}
    MaxRequests = 3
INVARIANTS
    AnswerAwaitedWithTimer
CHECK_DEADLOCK FALSE
