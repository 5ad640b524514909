SPECIFICATION FairSpec
CONSTANTS
    Cb = {f}
    Event = {got, lost}
    Any = Any
    MaxId = 2
INVARIANTS
    EachCalledOnce
    ResolvesAlone
PROPERTIES
    EventsAreHandled
