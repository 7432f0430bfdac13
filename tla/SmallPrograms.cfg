SPECIFICATION SmallSpec
CONSTANTS
    Clients = {u1}
    Others = {o1}
    Words = {"exit", "hi"}
    MaxSockets = 2
    MaxDuplicates = 1
    None = None
    Programs = {p1, p2, p3}
    MaxDescriptors = 1
    Users = {c1}
    Logins = {"ann", "anna", "bob", "eve"}
    UserFiles <- MCUserFiles
    LineWidth = 3
    MAX_PACKET_TO_CAPTURE = 2
    Packets <- MCPackets
INVARIANTS
    EchoMatches
    EndsOnExit
    AlwaysAccepting
    MessageOnlyWithLogin
    PrintedWhole
PROPERTIES
    EchoArrives
    Served
CHECK_DEADLOCK FALSE
