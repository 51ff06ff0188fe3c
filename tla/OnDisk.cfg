SPECIFICATION MCSpec
CONSTANTS
    a = a
    b = b
    Harnesses = {a, b}
    FileKey <- MCKey
    HasSetup <- MCHasSetup
    HasSummary <- MCHasSummary
    Seqs = {1, 2, 3, 4}
    Versions = {0, 1}
    Decodes <- MCDecodes
    Baseline <- MCBaseline
    Covers <- MCCovers
    Checks <- MCChecks
    MaxEntries = 2
    CorpusVersion = 1
    MaxFuzzRuns = 3
    MaxFailures = 2
    MaxCommands = 3
    p = p
    q = q
    Procs = {p, q}
    Target <- MCTarget
    Imports <- MCImports
    Scanned <- MCScanned
    Broken <- MCBroken
    Edits <- MCEdits
    Disk0 <- MCDisk0
    Config0 <- MCConfig0
    Settings = {TRUE, FALSE}
    TextRemappings <- MCText
    Names = {"d"}
    Archives <- MCArchives
    MaxJobs = 3
    MaxEdits = 1
    MaxCrashes = 1
INVARIANTS
    NextRunResumes
    EdgesCreditedOnce
    CompiledIsCurrent
    InstalledFromOneArchive
CHECK_DEADLOCK FALSE
