CONSTANTS
    w1 = w1
    w2 = w2
    main = main
    dev = dev
    s1 = s1
    s2 = s2
    Callers <- MCCallers
    Bases <- MCBases
    Main = main
    Series <- MCSeries
    MaxPatches = 3
    MaxCalls = 3
SPECIFICATION Spec
SYMMETRY Symmetry
CONSTRAINT Fresh
INVARIANTS
    NoPatchLost
    AtHome
    FinalizeLands
PROPERTIES
    BaseMovesByMerge
    RerollKeepsSeries
CHECK_DEADLOCK FALSE
