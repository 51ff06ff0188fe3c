\* The collection is full when the stop filter records its finding.
SPECIFICATION Spec
CONSTANTS
    NoId = NoId
    Genesis = 0
    Cheats = "none"
    Workers <- TwoWorkers
    Handlers <- FilteredHandlers
    Invariants <- FilteredInvariants
    Tx <- FilteredTx
    MaxRuns = 3
    MaxCalls = 2
    MaxFindings = 1
    MaxEntries = 2
    CanTimeOut = FALSE
    MaxFaults = 0
INVARIANT StopIsRecorded
