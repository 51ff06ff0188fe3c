\* The highest value was measured in the middle of a sequence.
SPECIFICATION Spec
CONSTANTS
    NoId = NoId
    NoValue = NoValue
    NoChain = NoChain
    NoTarget = NoTarget
    Genesis = 0
    Cheats = "none"
    Handlers <- Hills
    Invariants <- NoInvariants
    Tx <- HillsTx
    Measure <- HillsValue
    Selector <- HillsSelector
    Workers <- OneWorker
    MaxRuns = 1
    MaxCalls = 2
    MaxEntries = 2
    Target = NoTarget
    CanTimeOut = FALSE
    MaxFaults = 0
    MaxMainFaults = 0
    MaxCampaigns = 1
INVARIANT HighestKept
