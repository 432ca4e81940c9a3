\* Accounts, tokens, documents and agents.
SPECIFICATION Spec
CONSTANTS
    alice = alice
    bob = bob
    robot = robot
    h1 = h1
    h2 = h2
    phone = phone
    plain = plain
    doc1 = doc1
    doc2 = doc2
    key = key
    strict = strict
    open = open
    label = label
    tag = tag
    NoManifest = NoManifest
    NoUser = NoUser
    NoDocument = NoDocument
    NoCode = NoCode
    NoPhone = NoPhone
    NoHandle = NoHandle
    NoAgent = NoAgent
    Dids = {alice, bob, robot}
    Contents = {plain, doc1, doc2}
    ManifestOf <- MCManifests
    Scenarios <- MCScenarios
    Founder <- MCFounder
    Policies = {strict, open}
    Names = {label, tag}
    DefaultPolicy = strict
    DefaultName = label
    AccessLife = 3
    RefreshLife = 4
    CodeLife = 2
    TokenLife = 2
    MaxSpan = 1
    Slack = 1
    MaxVersion = 5
    MaxTime = 3
    MaxRestarts = 1
INVARIANTS
    TypeOK
    OnceAtAll
    OnceUnlessCrossed
    OneWritePerVersion
    ChoicesStand
PROPERTIES
    RevokedStays
CHECK_DEADLOCK FALSE
