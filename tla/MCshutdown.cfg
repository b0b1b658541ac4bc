SPECIFICATION FairSpec
CONSTANTS
    r1 = r1
    r2 = r2
    k1 = k1
    k2 = k2
    Requests = {r1, r2}
    KeyOf <- TwoKeys
    Cap = 1
    BatchSize = 2
    MaxFaults = 1
INVARIANTS
    TypeOK
    CountedOnce
    FlushedWhileOpen
    OrderlyShutdownKeepsAll
    DeliveryInv
PROPERTIES
    RequestsNeverWait
    ShutdownEnds
CHECK_DEADLOCK FALSE
