\* Bootstrap, delta, snapshot recovery and hydration of a single device.
SPECIFICATION FairSpec
CONSTANTS
    phone = phone
    laptop = laptop
    NoClient = NoClient
    NoSession = NoSession
    NoState = NoState
    Clients = {phone, laptop}
    Stories <- MCStories
    Limit = 2
    BatchLimit = 2
    Window = 0
    Lifetime = 1
    MaxTime = 1
    MaxRemoved = 1
    MaxEpoch = 2
    MaxRestarts = 1
    MaxPageItems = 2
    MaxPageBytes = 2
    MaxPackageItems = 4
    MaxPackageBytes = 6
    MaxPages = 2
INVARIANTS
    NoSilentLoss
    SnapshotIsNewestSuffix
PROPERTIES
    FollowsFeed
    CatchesUp
CHECK_DEADLOCK FALSE
