CONSTANTS
    Starters = {s1, s2}
    Nobody = Nobody
    Environments <- MCEnvironments
    MinChunkSize = 1
    TempURLEnabled = TRUE
    OperatorKey = OperatorKey
    MaxKeys = 4
    MaxFailures = 2
SPECIFICATION Spec
INVARIANTS
    TypeOK
    ServingHasSchema
    KeyIsAccepted
PROPERTIES
    SomeStartSucceeds
