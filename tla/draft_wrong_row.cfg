CONSTANTS
    Drafts <- ThreeDrafts
    Users = {1}
    Owner <- FirstUsers
    Workers = {w1}
    Passes = {p1}
    Contacts = {"id"}
    Accounts = {"none"}
    MaxQueue = 2
    MaxLaunches = 0
    Swallows = FALSE
SPECIFICATION Spec
PROPERTIES
    DeletesOnlyTheConfirmed
CHECK_DEADLOCK FALSE
