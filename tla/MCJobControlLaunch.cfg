SPECIFICATION FairSpec
CONSTANTS
    Jobs = {j1}
    MaxPipe = 3
    Shell = Shell
    OutsideCont = FALSE
INVARIANT
    NoStuckWait
PROPERTIES
    LeavesQuiet
    LaunchEnds
    NoZombies
