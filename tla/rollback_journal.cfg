CONSTANTS
    c1 = c1
    c2 = c2
    Conns <- TwoConns
    Peers <- NoPeers
    InitSizes = {0, 1, 2}
    MaxPages = 2
    MaxTransactions = 3
    MaxCrashes = 2
    MaxFaults = 1
SYMMETRY ConnSymmetry
SPECIFICATION Spec
INVARIANTS
    TypeOK
    CacheIsCommitted
    WriterKeepsJournal
PROPERTIES
    TransactionsAtomic
    AloneWithFile
CHECK_DEADLOCK FALSE
