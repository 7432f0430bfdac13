SPECIFICATION Spec
CONSTANTS
    Clients = {c1}
    Others = {o1}
    None = None
    Paths = {"get", "long"}
    Length <- MCLength
    Files <- MCFiles
    EmptyFiles <- MCEmptyFiles
    PathSize = 60
    MaxLines <- MCMaxLines
    MaxDescriptors = 2
INVARIANTS
    TypeOK
    AnswersOwn
    EndsForCause
PROPERTIES
    ServedInTurn
CHECK_DEADLOCK FALSE
