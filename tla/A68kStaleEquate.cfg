SPECIFICATION Spec
CONSTANTS
    N = 4
    Sources <- StaleSources
    Jobs <- StaleJobs
    ImportNames <- MCImports
INVARIANTS
    ReferencesResolve
