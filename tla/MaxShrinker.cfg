SPECIFICATION FairSpec
CONSTANTS
    NoId = NoId
    NoValue = NoValue
    Genesis <- LockGenesis
    Cheats = "none"
    Handlers <- LockHandlers
    Invariants <- NoInvariants
    Tx <- LockTx
    Measure <- LockValue
    Workers <- TwoWorkers
    Bests <- ShortBests
    MaxRuns = 3
    MaxFaults = 1
INVARIANTS
    ShrinkerSound
    ShrinksAsPromised
PROPERTIES
    Terminates
