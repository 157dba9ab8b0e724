CONSTANTS
    f1 = f1
    f2 = f2
    g1 = g1
    P = P
    Q = Q
    Files <- FilesOfTwo
    Procs <- BothProcs
    ProcOf <- Owner
    MaxUnused = 1
    MaxDeaths = 1
SPECIFICATION FairSpec
INVARIANTS
    TypeOK
    KernelBacks
    NothingLeaks
    WriterIsSeen
PROPERTIES
    LocksImplemented
    WriterGetsThrough
