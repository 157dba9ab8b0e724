CONSTANTS
    Drafts <- TwoDrafts
    Users = {1}
    Owner <- FirstUsers
    Workers = {w1}
    Passes = {p1}
    Contacts = {"id"}
    Accounts = {"none"}
    MaxQueue = 1
    MaxLaunches = 0
    Swallows = TRUE
SPECIFICATION Spec
INVARIANTS
    DeliveredExists
    CreatedOnce
    SyncingIsOwned
CHECK_DEADLOCK FALSE
