SPECIFICATION FairShellSpec
CONSTANTS
    Commands = {c1, c2}
    Timed = {c2}
    Slop = slop
    Scripts <- MCScripts
INVARIANTS
    ShellTypeOK
    ChildReaped
    KilledGroupIsGone
PROPERTIES
    EscReturns
    ReturnsByItself
CHECK_DEADLOCK FALSE
