SPECIFICATION CodeSpec
CONSTANTS
    Numbers <- MCNumbers
    Symbols <- MCSymbols
    Undeclared <- MCUndeclared
    CurrHunk = 0
    LineCount = 20
    AddrCnt <- MCAddrCnt
    GlobalXREF = FALSE
    Operands <- MCOperands
    Registers <- MCRegisters
    DataOffset = 32766
    Lines <- MCLines
INVARIANTS CodeTypeOK NoParserBug MeansWhatItSays SamePlace SyntaxChecked ValueMeant
CHECK_DEADLOCK FALSE
