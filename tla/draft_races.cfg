CONSTANTS
    Drafts <- OneDraft
    Users = {1}
    Owner <- FirstUsers
    Workers = {w1, w2}
    Passes = {p1}
    Contacts = {"new"}
    Accounts = {"none"}
    MaxQueue = 1
    MaxLaunches = 1
    Swallows = FALSE
SPECIFICATION Spec
SYMMETRY SlotSymmetry
INVARIANTS
    TypeOK
    DeliveredExists
    CreatedOnce
    IdsAreDurable
    ClashNeedsRefetch
    SyncingIsOwned
PROPERTIES
    MemoryDelivers
    DatabaseDelivers
CHECK_DEADLOCK FALSE
