SPECIFICATION Spec
CONSTANTS
    Jobs = {j1, j2}
    MaxPipe = 2
    Shell = Shell
    OutsideCont = TRUE
SYMMETRY Symmetry
INVARIANTS
    OneOwner
    NoDangling
    SizeCovers
    TerminalHome
    WaitedOwnsTerminal
    AllOrNothing
    StoppedIsShown
PROPERTY
    IsLifecycle
