CONSTANTS
    main = main
    tail = tail
    buf = buf
    fork = fork
    missing = missing
    lib = lib
    tios = tios
    NoLib = NoLib
    TIOS = tios
    Names <- MCNames
    Files <- MCFiles
    ProgramAt <- MCProgramAt
    BssAt <- MCBssAt
    ExportAt <- MCExportAt
    LongMod <- MCLongMod
    TablePlaces <- MCTablePlaces

SPECIFICATION Spec
INVARIANTS
    TypeOK
    Linked
    TablesReadable
    BadFilesRejected
