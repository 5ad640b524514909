SPECIFICATION FairSpec
CONSTANTS
    Reason <- EveryReason
    Calls = {"begin", "reconnect", "disconnect", "setAutoReconnect"}
    MaxEvents = 2
INVARIANTS
    StatusIsTrue
PROPERTIES
    RetryConnects
    LeaveHolds
    Reconnects
CHECK_DEADLOCK FALSE
