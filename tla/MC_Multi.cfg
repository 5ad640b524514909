SPECIFICATION MultiSpec
CONSTANTS
    Ssid = {a, b, c}
    None = None
    Rssi = {1, 2}
    Half = 3
    MaxAps = 2
    MaxSeen = 7
    MaxNews = 2
SYMMETRY Names
INVARIANTS
    PicksStrongest
    
