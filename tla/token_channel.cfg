SPECIFICATION FairSpec
CONSTANTS
    r1 = r1
    r2 = r2
    r3 = r3
    p1 = p1
    p2 = p2
    Requests <- ThreeRequests
    Paths <- TwoPaths
    PathOf <- SharedPath
    Mapped <- MappedRequests
    MaxTokens = 3
    MaxLaunches = 1
INVARIANT TypeOK
PROPERTIES
    ChannelSpec
    ParkedIsResumed
CHECK_DEADLOCK FALSE
