SPECIFICATION SystemSpec
CONSTANTS
    Client = {"a", "c", "esp"}
    Python = {"a"}
    CClients = {"c"}
    Esp = "esp"
    Word <- MCWord
    Digit <- MCDigit
    Program <- CancelProgram
    CWord <- CmdWord
    NoConn = NoConn
    Slots = 9
    Rows = 9
    Backlog = 2
INVARIANTS
    RowInBounds
    BlinkMeansReserved
    AtMostOncePerCreate
PROPERTIES
    ServesTheQueue
    ExhaustedForEver
CHECK_DEADLOCK FALSE
