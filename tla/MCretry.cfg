SPECIFICATION Spec
CONSTANTS
    Devices = {d1}
    Sessions = {1}
    Solves = {}
    Mutations = {m1, m2}
    Handlers = {h1, h2}
    NoMutation = NoMutation
    NoHandler = NoHandler
    NoDevice = NoDevice
    NoSession = NoSession
    Window = 1
    MaxTime = 2
    MaxSeq = 3
    MaxForeign = 0
    MaxFaults = 1
    MaxMutations = 1
    ChangeLimit = 1
    ProtoVersion = 1
    SnapshotPageSize = 1
    Edits <- RetryEdits
    FreshSync = {d1}
SYMMETRY Symmetry
INVARIANTS
    LogMatchesRows
    AppliedAtMostOnce
    HonestOutcomes
    CoreInv
