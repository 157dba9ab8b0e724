CONSTANTS
    Drafts <- OneDraft
    Users = {1, 2}
    Owner <- FirstUsers
    Workers = {w1}
    Passes = {p1}
    Contacts = {"new"}
    Accounts = {"new"}
    MaxQueue = 1
    MaxLaunches = 1
    Swallows = FALSE
SPECIFICATION ReconnectingSpec
PROPERTIES
    SyncingIsLeft
    QueuedIsTried
CHECK_DEADLOCK FALSE
