\* A handle moves between DIDs, two of them of one home, while the group is migrated to v2.
SPECIFICATION FedSpec
CONSTANTS
    olga = olga
    adam = adam
    rita = rita
    quin = quin
    home_handle = home_handle
    m1 = m1
    m2 = m2
    NoRequest = NoRequest
    NoAgent = NoAgent
    NoHandle = NoHandle
    NoPlan = NoPlan
    NoSnapshot = NoSnapshot
    Agents <- MCAgents
    Remote <- MCRemote
    Handles = {home_handle}
    Requests <- RequestsMigration
    Threads = {t1, t2}
    InitialRoles <- OwnerOnly
    InitialPolicy <- OpenPolicy
    InitialWire = "v1"
    MaxPending = 3
    MinReserve = 1
    MaxAttempts = 1
    MaxGeneration = 3
    MaxRestarts = 1
    MaxPreparations = 2
    HomeOf <- SameHome
    Lossy = FALSE
    MaxRefreshes <- NoRefresh
INVARIANTS
    OneViewPerMembership
    PlanHolds
    CutoverDrained
SYMMETRY ThreadSymmetry
CHECK_DEADLOCK FALSE
