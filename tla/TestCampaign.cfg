SPECIFICATION FairSpec
CONSTANTS
    NoId = NoId
    Genesis = 0
    Cheats = "none"
    Workers <- TwoWorkers
    Handlers <- FilteredHandlers
    Invariants <- FilteredInvariants
    Tx <- FilteredTx
    MaxRuns = 3
    MaxCalls = 2
    MaxFindings = 2
    MaxEntries = 2
    CanTimeOut = TRUE
    MaxFaults = 1
INVARIANTS
    CampaignSound
    StopIsTimely
PROPERTIES
    ShortestKept
    Terminates
