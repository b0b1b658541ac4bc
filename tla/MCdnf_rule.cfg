SPECIFICATION Spec
CONSTANTS
    DNF = 1000
    Times = {0, 3}
    PlusTwo = 2
    Windows <- RealWindows
    Edits <- SomeEdits
    Scenarios <- FullWindows
PROPERTIES
    TwoDNFsMakeADNF
