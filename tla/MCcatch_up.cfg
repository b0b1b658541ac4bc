SPECIFICATION FairSpec
CONSTANTS
    Devices = {d1, d2}
    Sessions = {1}
    Solves = {}
    Mutations = {m1}
    Handlers = {h1, h2}
    NoMutation = NoMutation
    NoHandler = NoHandler
    NoDevice = NoDevice
    NoSession = NoSession
    Window = 1
    MaxTime = 0
    MaxSeq = 2
    MaxForeign = 0
    MaxFaults = 1
    MaxMutations = 1
    ChangeLimit = 1
    ProtoVersion = 1
    SnapshotPageSize = 1
    Edits <- SessionEdits
    FreshSync = {}
PROPERTIES
    Converges
    OutboxDrains
