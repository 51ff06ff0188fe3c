SPECIFICATION FairSpec
CONSTANTS
    NoId = NoId
    NoValue = NoValue
    NoChain = NoChain
    NoTarget = NoTarget
    Genesis = 0
    Cheats = "none"
    Handlers <- Hills
    Invariants <- NoInvariants
    Tx <- HillsTx
    Measure <- HillsValue
    Selector <- HillsSelector
    Workers <- TwoWorkers
    MaxRuns = 2
    MaxCalls = 2
    MaxEntries = 2
    Target = 3
    CanTimeOut = TRUE
    MaxFaults = 1
    MaxMainFaults = 1
    MaxCampaigns = 2
INVARIANT
    CampaignSound
PROPERTIES
    BestSurvives
    CampaignEnds
