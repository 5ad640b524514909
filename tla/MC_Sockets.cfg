SPECIFICATION FairSpec
CONSTANTS
    Cl = {c1, c2}
    Fd = {f1, f2, f3}
    Handle = {h1, h2}
    None = None
    MaxRetry = 2
    Chunk = 2
    Size = 3
INVARIANTS
    HandlesOwnTheirSockets
    NothingLeaks
    WritesAreGapless
    LiveStaysConnected
PROPERTIES
    CallsReturn
