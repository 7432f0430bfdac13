SPECIFICATION Spec
CONSTANTS
    Clients = {c1}
    Others = {o1}
    OtherRequests = {"exit"}
    None = None
    MaxRequests = 2
PROPERTIES
    ExitDisconnectsAsker
CHECK_DEADLOCK FALSE
