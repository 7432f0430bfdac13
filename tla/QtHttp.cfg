SPECIFICATION Spec
CONSTANTS
    Clients = {c1}
    Others = {o1}
    OtherRequests = {"exit", "other", "GET"}
    None = None
    MaxRequests = 3
INVARIANTS
    TypeOK
    AnswersOwn
    UnansweredOvertaken
    WaitsWithTimer
    EndsOnCommand
PROPERTIES
    OvertakenNotCut
    ShutdownEnds
    WaitEnds
    LostQuits
CHECK_DEADLOCK FALSE
