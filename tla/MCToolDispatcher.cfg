CONSTANTS
    Workers = {w1, w2}
    NumBatches = 2
    MaxCalls = 3
SPECIFICATION FairSpec
INVARIANTS
    CallInOnePlace
    NothingLeftBehind
    ResultsInCallOrder
    NeverStuck
PROPERTIES
    ImplementsBatch
    DispatchReturns
    PoolIsJoined
