CONSTANTS
    fargo = fargo
    basicOnly = basicOnly
    Shell = Shell
    None = None
    Programs <- MCPrograms
    FargoSigned <- MCFargoSigned
    WaitTicks = 3
    MaxNest = 1

SPECIFICATION Spec
INVARIANTS
    HotkeyStartsShell
