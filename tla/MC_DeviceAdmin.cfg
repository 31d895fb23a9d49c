SPECIFICATION FairSpec
CONSTANTS
    Claimants = {p1}
    NoClaimant = none
    TtlMs = 0
    MaxLiveDevices = 1
    Conns = {c1}
    NoToken = notoken
    MaxTokens = 2
    MaxFails = 1
    Times = {0, 1}
    Loads = {1, 2}
INVARIANTS
    CodeUsedOnce
PROPERTIES
    RevokedShutOut
    NoSocketLeft
    ListSettles
