CONSTANTS
    p1 = p1
    p2 = p2
    Peers = {p1, p2}
    PeerList <- MCPeerList
    Names = {alice, bob}
    HttpNames = {bob}
    Unknown = unknown
    Askers = {c1}
    MaxRestarts = 2

SPECIFICATION DiscFairSpec
INVARIANTS DiscTypeOK KnownWasTrue AskFindsBearer
PROPERTIES DiscoveryConverges ProbingEnds
CHECK_DEADLOCK FALSE
