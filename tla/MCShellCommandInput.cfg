SPECIFICATION FairShellSpec
CONSTANTS
    Commands = {c1, c2}
    Timed = {}
    Slop = slop
    Scripts <- MCReaders
PROPERTIES
    NoHangOnInput
CHECK_DEADLOCK FALSE
