CONSTANTS
    fargo = fargo
    basicOnly = basicOnly
    Shell = Shell
    None = None
    Programs <- MCPrograms
    FargoSigned <- MCFargoSigned
    WaitTicks = 3
    MaxNest = 2

SPECIFICATION FairSpec
INVARIANTS
    TypeOK
    ScreenRestored
    InFargoWhileRunning
PROPERTIES
    HotkeyStaysOutside
    WaitEnds
    BasicProgramStarts
