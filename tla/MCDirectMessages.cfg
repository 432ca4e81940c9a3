\* Racing sends within and between two servers, read state and sync.delta.
SPECIFICATION Spec
CONSTANTS
    east = east
    west = west
    e1 = e1
    e2 = e2
    w1 = w1
    ada = ada
    bob = bob
    cyd = cyd
    m1 = m1
    m2 = m2
    m3 = m3
    NoOp = NoOp
    NoRequest = NoRequest
    NoThread = NoThread
    Servers <- MCServers
    Users <- MCUsers
    Home <- MCHome
    Messages = {m1, m2}
    Requests <- RequestsFederated
    Threads <- MCThreads
    Serves <- MCServes
    Readers <- BobReads
    Followers = {bob}
    Pagers <- CydReads
    PageLimit = 1
SYMMETRY ThreadSymmetry
INVARIANTS
    TypeOK
    OneRowPerOperation
    SentIsDelivered
    AcceptedIsStored
    LogTellsAll
    DeltaComplete
    PagesCompleteSerial
CHECK_DEADLOCK FALSE
