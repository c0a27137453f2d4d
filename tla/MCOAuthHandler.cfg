SPECIFICATION FairSpec
CONSTANTS
    MaxRetries = 1
    FirstBackoff = 1
    Timeout = 2
    Leeway = 2
    Life = 4
    MaxLogins = 1
    Responses <- MCResponses
INVARIANTS
    ServerIsHeard
    LoginKept
PROPERTIES
    FreshWhenSent
    CancelledByKey
    RequestReturns
