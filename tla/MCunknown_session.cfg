SPECIFICATION Spec
CONSTANTS
    Devices = {d1}
    Sessions = {2}
    Solves = {1}
    Mutations = {m1, m2}
    Handlers = {h1, h2}
    NoMutation = NoMutation
    NoHandler = NoHandler
    NoDevice = NoDevice
    NoSession = NoSession
    Window = 1
    MaxTime = 0
    MaxSeq = 2
    MaxForeign = 0
    MaxFaults = 0
    MaxMutations = 2
    ChangeLimit = 2
    ProtoVersion = 1
    SnapshotPageSize = 1
    Edits <- BatchEdits
    FreshSync = {d1}
SYMMETRY Symmetry
INVARIANTS
    RejectedNotFailed
