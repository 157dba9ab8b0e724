CONSTANTS
    Drafts <- OneDraft
    Workers = {w1, w2}
    MaxQueue = 1
    MaxLaunches = 2
    Swallows = TRUE
SPECIFICATION Spec
SYMMETRY SlotSymmetry
INVARIANTS
    TypeOK
    CreatedOnce
    SyncingIsOwned
    SlotHeldForCause
PROPERTIES
    CustomersDelivered
CHECK_DEADLOCK FALSE
