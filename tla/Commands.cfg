SPECIFICATION Spec
CHECK_DEADLOCK FALSE
CONSTANTS
    Width = 4
    Nearby = 8
    DynLimit = 20
    MaxWrites = 2
    MaxDeployed = 2
    MaxExecuted = 2
    Recorders = {t1, t2}
    MaxNs = 1000
    KnownErrors = {"Known"}
    Filters <- MCFilters
    Results <- MCResults
    Target = "target"
    Commands <- MCStarted
    MaxRecorded = 2
    Places = {1, 2, 3}
    NoAddress = 0
    ContextLabels <- MCContextLabels
    MaxCallFrames = 3
    Frames <- MCFrames
    ByteBits = 2
    WordBytes = 3
    AddressLength = 2
    Radix = 10
    Large = 43
INVARIANTS
    ReportComplete
    ResolvedIsRun
    
    CoverageTrue
    StatsSound
    LabelWins
    PreparedTarget
    LiteralsReachCalls
