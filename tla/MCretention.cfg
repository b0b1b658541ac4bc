SPECIFICATION Spec
CONSTANTS
    Devices = {d1, d2}
    Sessions = {2}
    Solves = {1}
    Mutations = {m1, m2}
    Handlers = {h1, h2}
    NoMutation = NoMutation
    NoHandler = NoHandler
    NoDevice = NoDevice
    NoSession = NoSession
    Window = 1
    MaxTime = 1
    MaxSeq = 2
    MaxForeign = 1
    MaxFaults = 0
    MaxMutations = 2
    ChangeLimit = 1
    ProtoVersion = 2
    SnapshotPageSize = 1
    Edits <- BatchEdits
    FreshSync = {}
SYMMETRY Symmetry
INVARIANTS
    TypeOK
    SessionTravelsFirst
    ReplicaIsPastState
    CursorInv
    NoSilentGap
    AckBehindClient
    NewestChangeKept
PROPERTIES
    NoLateChange
