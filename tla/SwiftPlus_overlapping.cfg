CONSTANTS
    Handlers = {h1, h2}
    Paths = {"u_data", "b_data"}
    Root = "/"
    Parent <- FlatParent
    Uploads = {"u_data"}
    Blobs = {"b_data"}
    UploadDirs = {}
    Exclusive = FALSE
    MaxLocs = 1
    MaxUnits = 2
    MaxFaults = 1
    NoRow = NoRow
    Absent = Absent
    Unknown = Unknown
    Unreadable = Unreadable
SPECIFICATION Spec
SYMMETRY Symmetry
CHECK_DEADLOCK FALSE
INVARIANTS
    WholeContents
