SPECIFICATION Spec
CONSTANTS
    Addr <- Accounts
    Always <- Deployer
    Creatable <- Harness
    Forks <- TwoForks
    UrlOf <- OneUrl
    ChainValue <- OnChain
    Coinbase <- Beneficiary
    Options = {5, 0}
    NoOptions = 5
    Defaults = 3
    NoLimit = 100
    Sandbox = "sandbox"
    MaxDepth = 2
    MaxOps = 6
    MaxInputs = 1
INVARIANTS
    EnvMatchesFork
    RevertsFindTheirAccounts
PROPERTIES
    RemoteIsolated
    LocalsTravel
    RevertRestores
CHECK_DEADLOCK FALSE
