SPECIFICATION FairSpec
CONSTANTS
    s1 = s1
    s2 = s2
    Syncs <- TwoSyncs
    MaxVersion = 2
    MaxDay = 2
    MaxLaunches = 2
INVARIANTS
    TypeOK
    VersionIsInstalled
PROPERTY MenuComesBack
CHECK_DEADLOCK FALSE
