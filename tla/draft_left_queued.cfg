CONSTANTS
    Drafts <- OneDraft
    Users = {1}
    Owner <- FirstUsers
    Workers = {w1}
    Passes = {p1}
    Contacts = {"id"}
    Accounts = {"none"}
    MaxQueue = 1
    MaxLaunches = 0
    Swallows = FALSE
SPECIFICATION FairSpec
PROPERTIES
    CreatedOnceConnected
CHECK_DEADLOCK FALSE
