\* Notifications behind a row that was given up.
SPECIFICATION FairSpec
CONSTANTS
    olga = olga
    adam = adam
    rita = rita
    quin = quin
    home_handle = home_handle
    m1 = m1
    m2 = m2
    NoRequest = NoRequest
    NoAgent = NoAgent
    NoHandle = NoHandle
    NoPlan = NoPlan
    Agents <- MCAgents
    Remote <- MCRemote
    Handles = {}
    Requests <- RequestsStream
    Threads = {1}
    InitialRoles <- OwnerAndRemotes
    InitialPolicy <- OpenPolicy
    InitialWire = "v2"
    MaxPending = 4
    MinReserve = 1
    MaxAttempts = 2
    MaxGeneration = 1
    MaxRestarts = 0
    MaxPreparations = 0
PROPERTIES
    DeadRowsRelease
CHECK_DEADLOCK FALSE
