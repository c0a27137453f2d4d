CONSTANTS
    Threads = {t1, t2, t3}
    Callbacks = {c1, c2, c3}
    NoThread = NoThread
SPECIFICATION FairSpec
INVARIANTS
    CallbackInOnePlace
    NeverStuck
PROPERTY CallbackRuns
