SPECIFICATION Spec
CONSTANTS
    r1 = r1
    r2 = r2
    r3 = r3
    p1 = p1
    p2 = p2
    Requests <- OneRequest
    Paths <- OnePath
    PathOf <- ItsPath
    Mapped <- NoneMapped
    MaxTokens = 3
    MaxLaunches = 0
INVARIANT TokenIsTheUsers
CHECK_DEADLOCK FALSE
