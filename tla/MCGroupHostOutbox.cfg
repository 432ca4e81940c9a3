\* The outbox worker: batches, retries, dead rows, restarts, backpressure.
SPECIFICATION FairSpec
CONSTANTS
    olga = olga
    adam = adam
    rita = rita
    quin = quin
    home_handle = home_handle
    m1 = m1
    m2 = m2
    NoRequest = NoRequest
    NoAgent = NoAgent
    NoHandle = NoHandle
    NoPlan = NoPlan
    Agents <- MCAgents
    Remote <- MCRemote
    Handles = {}
    Requests <- RequestsOutbox
    Threads = {1}
    InitialRoles <- OwnerAndRemotes
    InitialPolicy <- OpenPolicy
    InitialWire = "v2"
    MaxPending = 2
    MinReserve = 1
    MaxAttempts = 2
    MaxGeneration = 1
    MaxRestarts = 1
    MaxPreparations = 0
INVARIANTS
    OutboxBounded
    StreamInOrder
    AudienceFollowsLog
PROPERTIES
    StreamsSettle
CHECK_DEADLOCK FALSE
