CONSTANTS
    Handlers = {h1, h2}
    Paths = {"v2", "u", "u_data", "b", "b_data"}
    Root = "/"
    Parent <- MCParent
    Uploads = {"u_data"}
    Blobs = {"b_data"}
    UploadDirs = {"u"}
    Exclusive = TRUE
    MaxLocs = 2
    MaxUnits = 2
    MaxFaults = 1
    NoRow = NoRow
    Absent = Absent
    Unknown = Unknown
    Unreadable = Unreadable
SPECIFICATION Spec
SYMMETRY Symmetry
CHECK_DEADLOCK FALSE
INVARIANTS
    TypeOK
    AcknowledgedIsReadable
    AppendExtends
    NoOrphanRow
    NoGarbage
PROPERTIES
    ImplementsRegister
