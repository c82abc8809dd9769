CONSTANTS
    Handlers = {h1}
    Paths = {"u_data", "b_data"}
    Root = "/"
    Parent <- FlatParent
    Uploads = {"u_data"}
    Blobs = {"b_data"}
    UploadDirs = {}
    Exclusive = TRUE
    MaxLocs = 2
    MaxUnits = 3
    MaxFaults = 1
    NoRow = NoRow
    Absent = Absent
    Unknown = Unknown
    Unreadable = Unreadable
    Readers = {r1}
    MaxOffset = 1
    TempURLMethods = {"GET", "PUT"}
    Unsupported = Unsupported
SPECIFICATION ReadSpec
CHECK_DEADLOCK FALSE
INVARIANTS
    UndisturbedRead
    WholeReads
    URLKeepsMeaning
