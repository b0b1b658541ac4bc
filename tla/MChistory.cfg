SPECIFICATION FairSpec
CONSTANTS
    Endpoints <- AllEndpoints
    MaxId = 3
    MaxStamp = 2
    DefaultLimit = 1
    MaxLimit = 2
INVARIANTS
    TypeOK
    UntouchedListedOnce
    ErrorsNotRepeated
    CursorDivides
PROPERTIES
    ListingEnds
