CONSTANTS
    MaxBefore = 2
    MaxAfter = 2
    Relocs <- MCLostRelocs

SPECIFICATION Spec
INVARIANTS
    AllListedRelocated
