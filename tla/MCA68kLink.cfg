SPECIFICATION Spec
CONSTANTS
    N = 4
    Sources <- MCSources
    Jobs <- MCJobs
    ImportNames <- MCImports
INVARIANTS
    TypeOK
    NamesResolveOnce
    ReferencesResolve
    PassesAgree
    DefinitionsExported
