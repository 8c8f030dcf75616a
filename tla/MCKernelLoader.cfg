CONSTANTS
    p = p
    q = q
    a = a
    b = b
    c = c
    Modules <- MCModules
    Worlds <- MCWorlds
    CallerD7 = 100
    Compat020 = FALSE
    MaxExecs = 3
    MaxThrows = 1

SPECIFICATION FairSpec
INVARIANTS
    TypeOK
    RelocatedOnce
    LinkinfoPresent
    RunningProgramsReady
    LibsOutliveImporters
    UsageCountsReferences
PROPERTIES
    FailureExplained
    LoaderComesBack
    ImplementsContract
