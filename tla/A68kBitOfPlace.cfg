SPECIFICATION CodeSpec
CONSTANTS
    Numbers <- MCNumbers
    Symbols <- MCSymbols
    Undeclared <- MCUndeclared
    CurrHunk = 0
    LineCount = 20
    AddrCnt <- MCAddrCnt
    GlobalXREF = FALSE
    Operands <- MCOperands
    Registers <- MCRegisters
    DataOffset = 32766
    Lines <- MCBitOfPlace
INVARIANT BackwardReferenceReached
CHECK_DEADLOCK FALSE
