SPECIFICATION Spec
CONSTANTS
    Config = {"home", "guest"}
    Persistent = FALSE
    MaxQueue = 1
INVARIANTS
    FlagsMatchDriver
    TrueMeansDone
    BitsFollowRadio
