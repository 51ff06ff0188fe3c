\* The second campaign starts from a corpus that only holds a dip.
SPECIFICATION Spec
CONSTANTS
    NoId = NoId
    NoValue = NoValue
    NoChain = NoChain
    NoTarget = NoTarget
    Genesis = 0
    Cheats = "none"
    Handlers <- Hills
    Invariants <- NoInvariants
    Tx <- HillsTx
    Measure <- HillsValue
    Selector <- HillsSelector
    Workers <- OneWorker
    MaxRuns = 2
    MaxCalls = 2
    MaxEntries = 2
    Target = NoTarget
    CanTimeOut = FALSE
    MaxFaults = 0
    MaxMainFaults = 0
    MaxCampaigns = 2
INVARIANT NotBelowInitial
