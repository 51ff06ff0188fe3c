SPECIFICATION FairSpec
CONSTANTS
    NoId = NoId
    Genesis = 0
    Cheats = "none"
    Handlers <- ToggleHandlers
    Invariants <- NoInvariants
    Tx <- ToggleTx
    Workers <- TwoWorkers
    Seeds <- MixedSeeds
    StopIds = {"REVERT:off"}
    MaxRuns = 2
    MaxFaults = 1
INVARIANTS
    ShrinkerSound
PROPERTIES
    Terminates
