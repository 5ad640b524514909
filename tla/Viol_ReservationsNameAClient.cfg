SPECIFICATION SystemSpec
CONSTANTS
    Client = {"a", "b"}
    Python = {"a", "b"}
    CClients = {}
    Esp = "esp"
    Word <- MCWord
    Digit <- MCDigit
    Program <- PairProgram
    CWord <- NoCWord
    NoConn = NoConn
    Slots = 14
    Rows = 14
    Backlog = 2
INVARIANT
    ReservationsNameAClient
CHECK_DEADLOCK FALSE
