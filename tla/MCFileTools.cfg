SPECIFICATION Spec
CONSTANTS
    Paths = {"p", "q"}
    Tracked = {"p"}
    Lines = {"a", "b"}
    Alarming = {"b"}
    Starts = {0, 2}
    Ends = {1, 2}
    Contents <- MCContents
    Patches <- MCPatches
    Workers = {w1, w2}
    GrepLimit = 2
    GitLimit = 3
    None = None
INVARIANTS
    AllOrNothing
    ReaderMissesNothing
    NothingIsNothing
