CONSTANTS
    Requests = {r1, r2}
    Users = {"u1", "u2", "u3", "u4"}
    Names = {"n1", "keppel_n"}
    Reserved = {"keppel_n"}
    Tenants = {"t1", "t2"}
    EmptyTenant = "none"
    None = None
    MayList = {"u1", "u2", "u3"}
    MayChange <- MCMayChange
    MayView <- MCMayView
    MaxCrashes = 1
SPECIFICATION FairSpec
INVARIANTS
    TypeOK
    RoleBeforeAccount
    OnlyAdmissibleAccounts
    SuccessIsVisible
PROPERTIES
    TenantImmutable
    EveryPutAnswered
