SPECIFICATION Spec
CONSTANTS
    Programs <- MCPrograms
    InclList <- MCInclList
    HeaderFN = "h"
    Local = {"1$"}
    Numbered = {"l@"}
    SizeInF = 4
    Heap2Size = 36
    SizeEnt = 2
    SizeFix = 2
    INCSKSIZ = 14
    MaxLines = 90
INVARIANTS TypeOK AsWritten SameStatements ErrorsReported
PROPERTY Ends
CHECK_DEADLOCK FALSE
