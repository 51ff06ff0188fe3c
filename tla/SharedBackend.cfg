\* Three threads, batches of two, one crash: every call returns, as FetchService promises;
\* two callers of the limiter, a clock that wraps after 11 ms.
SPECIFICATION MCSpec
CONSTANTS
    t1 = t1
    t2 = t2
    t3 = t3
    a = a
    b = b
    Nobody = Nobody
    Threads <- MCThreads
    Keys <- MCKeys
    Slices <- PairAndSingle
    BatchSize = 2
    Retries = 1
    MaxCalls = 1
    MaxRestarts = 1
    Callers <- MCCallers
    MaxTokens = 2
    Interval = 5
    Size = 11
    MaxLag = 1
INVARIANTS
    BackendSound
    NoOrphanRequest
    LimiterSound
PROPERTIES
    CallReturns
    ImplementsService
    SomeoneServed
