SPECIFICATION Spec
CONSTANTS
    Devices = {d1, d2}
    Sessions = {1}
    Solves = {}
    Mutations = {m1, m2, m3}
    Handlers = {h1, h2}
    NoMutation = NoMutation
    NoHandler = NoHandler
    NoDevice = NoDevice
    NoSession = NoSession
    Window = 1
    MaxTime = 0
    MaxSeq = 3
    MaxForeign = 0
    MaxFaults = 0
    MaxMutations = 3
    ChangeLimit = 3
    ProtoVersion = 1
    SnapshotPageSize = 1
    Edits <- OneEdit
    FreshSync = {d1, d2}
SYMMETRY Symmetry
INVARIANTS
    ServedInFull
