CONSTANTS
    Accounts = {a1}
    NoAccount = NoAccount
    Clients = {c1}
    MaxProcs = 2
    MaxCrashes = 1
    FirstPort = 1
    PortModulus = 8
SPECIFICATION FairSpec
CHECK_DEADLOCK FALSE
PROPERTIES
    ShutdownCompletes
