CONSTANTS
    MaxBefore = 19
    MaxAfter = 5
    Relocs <- MCRelocs

SPECIFICATION Spec
INVARIANTS
    TypeOK
    OnlyListedRelocated
    AllListedRelocated
    PassesAgree
    SkipStopsThere
