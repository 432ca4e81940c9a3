\* A client that follows a thread with sync.thread_after.
SPECIFICATION Spec
CONSTANTS
    east = east
    west = west
    e1 = e1
    e2 = e2
    w1 = w1
    ada = ada
    bob = bob
    cyd = cyd
    m1 = m1
    m2 = m2
    m3 = m3
    NoOp = NoOp
    NoRequest = NoRequest
    NoThread = NoThread
    Servers <- MCServers
    Users <- MCUsers
    Home <- MCHome
    Messages = {m1, m2, m3}
    Requests <- RequestsThread
    Threads <- EastThreads
    Serves <- EastServes
    Readers = {}
    Followers = {}
    Pagers <- BobReads
    PageLimit = 2
SYMMETRY ThreadSymmetry
INVARIANTS
    PagesComplete
CHECK_DEADLOCK FALSE
