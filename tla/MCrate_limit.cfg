SPECIFICATION Spec
CONSTANTS
    Clients = {c1, c2}
    Proxies = {x1, x2}
    Malformed = Malformed
    NoVisitor = NoVisitor
    Every = 2
    Burst = 2
    EvictAfter = 4
    MaxForged = 1
    MaxRoute = 2
    MaxTime = 8
SYMMETRY Symmetry
INVARIANTS
    TypeOK
    ProxiesNotCharged
PROPERTIES
    OwnBucketEach
