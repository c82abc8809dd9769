CONSTANTS
    Handlers = {h1}
    Users <- MCUsers
    Tenants = {"t1", "t2"}
    Names = {"n1", "n2"}
    RepoNames = {"n1/r", "n2/r"}
    AccountOf <- MCAccountOf
    Inputs <- MCInputs
    RightSets <- MCRightSets
    Replicas = {"p1", "p2", "p3"}
    Host <- MCHost
    Skew <- MCSkew
    Lifetime = 2
    Leeway = 3
    None = None
    MaxClock = 6
    NilErrorIsNil = TRUE
SPECIFICATION Spec
INVARIANT PullAndPushArePermitted
