\* A v1 group with a handle that moves is migrated to v2; races between adds,
\* removals, returns and a lowered limit.
SPECIFICATION Spec
CONSTANTS
    olga = olga
    adam = adam
    rita = rita
    quin = quin
    home_handle = home_handle
    m1 = m1
    m2 = m2
    NoRequest = NoRequest
    NoAgent = NoAgent
    NoHandle = NoHandle
    NoPlan = NoPlan
    Agents <- MCAgents
    Remote <- MCRemote
    Handles = {home_handle}
    Requests <- RequestsMembership
    Threads = {1, 2}
    InitialRoles <- OwnerAndAdmin
    InitialPolicy <- OpenPolicy
    InitialWire = "v1"
    MaxPending = 2
    MinReserve = 1
    MaxAttempts = 1
    MaxGeneration = 2
    MaxRestarts = 0
    MaxPreparations = 1
INVARIANTS
    TypeOK
    RosterFollowsLog
    AuthorityFollowsLog
    OneEventPerOperation
    AnswersAreReceipts
    LocalCopiesFollowLog
PROPERTIES
    AdmissionWithinLimit
CHECK_DEADLOCK FALSE
