CONSTANTS
    Starters = {s1}
    Nobody = Nobody
    Environments <- MCEnvironments
    MinChunkSize = 1
    TempURLEnabled = TRUE
    OperatorKey = OperatorKey
    MaxKeys = 2
    MaxFailures = 1
SPECIFICATION Spec
PROPERTIES
    TerminationIsNotFatal
