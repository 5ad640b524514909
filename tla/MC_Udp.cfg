SPECIFICATION UdpSpec
CONSTANTS
    Peer = {p, q}
    Group = group
    None = None
    Full = 2
    MaxInbox = 2
    MaxWritten = 4
SYMMETRY Peers
INVARIANTS
    ObjectMatchesLwip
    SentAsBuilt
PROPERTIES
    ReadAsReceived
