\* Reliable delivery.
SPECIFICATION FedFairSpec
CONSTANTS
    olga = olga
    adam = adam
    rita = rita
    quin = quin
    home_handle = home_handle
    m1 = m1
    m2 = m2
    NoRequest = NoRequest
    NoAgent = NoAgent
    NoHandle = NoHandle
    NoPlan = NoPlan
    NoSnapshot = NoSnapshot
    Agents <- TwoRemotes
    Remote <- MCRemote
    Handles = {}
    Requests <- RequestsReliable
    Threads = {1}
    InitialRoles <- OwnerOnly
    InitialPolicy <- OpenPolicy
    InitialWire = "v2"
    MaxPending = 4
    MinReserve = 1
    MaxAttempts = 2
    MaxGeneration = 1
    MaxRestarts = 0
    MaxPreparations = 0
    HomeOf <- SameHome
    Lossy = FALSE
    MaxRefreshes <- QuinRefreshes
PROPERTIES
    AllDelivered
CHECK_DEADLOCK FALSE
