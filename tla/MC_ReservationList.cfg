SPECIFICATION Spec
CONSTANTS
    Text = {"ann", "bob", "CREATE"}
    CreateWord = "CREATE"
    NULL = NULL
    CellLimit = 3
INVARIANTS
    LockedForTheOldest
PROPERTIES
    ImplementsQueue
CHECK_DEADLOCK FALSE
