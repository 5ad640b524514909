SPECIFICATION FairSpec
CONSTANTS
    MaxFound = 2
INVARIANTS
    RecordsInBounds
    NoArrayLost
PROPERTIES
    ScanningEnds
