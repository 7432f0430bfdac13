SPECIFICATION Spec
CONSTANTS
    c1 = c1
    c2 = c2
    a = a
    b = b
    newline = newline
    x = x
    y = y
    Clients = {c1}
    Chars <- MCChars
    LineEnd = newline
    Requests <- MCRequests
    Files <- MCFiles
    Refused <- MCRefused
    Bytes = {Zero, x, y}
    Zero = Zero
    content <- MCContent
    buffer_size = 2
    MAX_PATH = 2
    MaxDescriptors = 3
INVARIANT
    FileWasSent
CHECK_DEADLOCK FALSE
