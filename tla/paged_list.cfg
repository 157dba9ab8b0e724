CONSTANTS
    s1 = s1
    s2 = s2
    Searches <- TwoSearches
    PageSize = 2
    MaxResults = 3
    MaxChanges = 3
    MaxFaults = 2
SPECIFICATION FairSpec
INVARIANTS
    TypeOK
    RowsArePrefix
    OneRequest
    LoadingEnds
PROPERTIES
    LoadsToTheEnd
CHECK_DEADLOCK FALSE
