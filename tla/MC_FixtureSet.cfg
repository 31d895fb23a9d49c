SPECIFICATION FairSpec
CONSTANTS
    Names = {"tunnel", "a", "b"}
    Versions = {1, 2}
    Tunnel = "tunnel"
    TunnelVersion = 1
    Text <- MCText
    Pinned <- MCPinned
    DshHosts = {"b"}
    Root = root
    Any = any
    Offers <- MCOffers
    MaxEdits = 2
    Nothing = nothing
INVARIANTS
    PreparedIsAccepted
    PassIsEarned
PROPERTIES
    VerificationEnds
