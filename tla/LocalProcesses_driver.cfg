CONSTANTS
    Accounts = {a1, a2}
    NoAccount = NoAccount
    Clients = {c1}
    MaxProcs = 4
    MaxCrashes = 2
    FirstPort = 1
    PortModulus = 5
SPECIFICATION FairSpec
CHECK_DEADLOCK FALSE
INVARIANTS
    TypeOK
    OneRegistryPerAccount
    ExitMessageIsCurrent
    NoStaleEntry
    RequestsReachOwnRegistry
    NoOrphans
PROPERTIES
    NoEntryLostWhileAlive
    ImplementsRegistries
    EveryAccountGetsRegistry
    CancelStopsRegistries
    RequestsAnswered
